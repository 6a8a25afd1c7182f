--------------------------- MODULE LivePage_proofs ---------------------------
(***************************************************************************)
(* Proofs about LivePage: what a page is told of a decision is in the      *)
(* journal, and a page lets go of an accept for no other reason than those *)
(* that AcceptIsDurable names.                                             *)
(***************************************************************************)
EXTENDS LivePage, SequenceTheorems, TLAPS

-----------------------------------------------------------------------------
(* The journal *)

\* A decision that is pending, or waits for carbonize, fences the session.
Fences(snap) ==
    (snap.pending # Nothing /\ snap.pending.type \in Decision)
       \/ snap.phase = "carbonize_required"
    => snap.canceled

LEMMA EndFences ==
    ASSUME NEW snap \in Snapshot, NEW phase \in Closed \cup {"agent_error"}
    PROVE  /\ AfterEnd(snap, phase) \in Snapshot /\ Fences(AfterEnd(snap, phase))
           /\ AfterEnd(snap, phase).canceled = snap.canceled
<1>1. phase \in Phase /\ phase # "carbonize_required"
  BY DEF Phase, Fenced, Closed
<1>2. /\ AfterEnd(snap, phase) \in Snapshot
      /\ AfterEnd(snap, phase).phase = phase /\ AfterEnd(snap, phase).pending = Nothing
      /\ AfterEnd(snap, phase).canceled = snap.canceled
  BY <1>1 DEF AfterEnd, Snapshot
<1>3. QED
  BY <1>1, <1>2 DEF Fences

LEMMA DecisionFences ==
    ASSUME NEW snap \in Snapshot, NEW type \in Decision
    PROVE  /\ AfterDecision(snap, type) \in Snapshot /\ Fences(AfterDecision(snap, type))
           /\ AfterDecision(snap, type).canceled
<1>1. Ask(type) \in Event
  BY DEF Ask, Event, Decision
<1>2. AfterDecision(snap, type) \in Snapshot /\ AfterDecision(snap, type).canceled
  BY <1>1 DEF AfterDecision, Snapshot, Phase, Fenced
<1>3. QED
  BY <1>2 DEF Fences

LEMMA ReplyFences ==
    ASSUME NEW snap \in Snapshot, Fences(snap), NEW acked,
           NEW reply \in Verdict \cup {"done", "error"}, reply = "carbonize" => snap.canceled
    PROVE  LET next == AfterReply(snap, reply, acked, reply = "carbonize") IN
           next \in Snapshot /\ Fences(next) /\ next.canceled = snap.canceled
<1>1. CASE reply = "discarded"
  BY <1>1, EndFences DEF AfterReply, Closed
<1>2. CASE reply = "complete"
  BY <1>2, EndFences DEF AfterReply, Closed
<1>3. CASE reply = "error"
  <2>1. AfterReply(snap, reply, acked, reply = "carbonize") \in {snap, AfterEnd(snap, "agent_error")}
    BY <1>3 DEF AfterReply, AfterError
  <2>2. QED
    BY <2>1, EndFences
<1>4. CASE reply \in {"done", "carbonize"}
  <2> DEFINE next == AfterDone(snap, reply = "carbonize")
             phase == IF reply = "carbonize" THEN "carbonize_required" ELSE "open"
  <2>1. AfterReply(snap, reply, acked, reply = "carbonize") = next
    BY <1>4 DEF AfterReply
  <2>2. CASE next = snap
    BY <2>1, <2>2
  <2>3. CASE next = [snap EXCEPT !.phase = phase, !.completed = TRUE, !.pending = Nothing]
    <3>1. phase \in Phase
      BY DEF Phase, Fenced
    <3>2. next \in Snapshot
      BY <2>3, <3>1 DEF Snapshot
    <3>3. next.phase = phase /\ next.pending = Nothing /\ next.canceled = snap.canceled
      BY <2>3 DEF Snapshot
    <3> HIDE DEF next
    <3>4. QED
      BY <2>1, <3>2, <3>3 DEF Fences
  <2>4. QED
    BY <2>2, <2>3 DEF AfterDone
<1>5. QED
  BY <1>1, <1>2, <1>3, <1>4 DEF Verdict

\* What the server journals of a posted event.
LEMMA JournalledFences ==
    ASSUME NEW snap \in Snapshot, Fences(snap), NEW req \in Post
    PROVE  /\ Journalled(snap, req) \in Snapshot /\ Fences(Journalled(snap, req))
           /\ snap.canceled \/ req.type \in Decision => Journalled(snap, req).canceled
<1>1. CASE req.type = "generate"
  <2>1. Generate(FALSE) \in Event /\ Generate(FALSE).type \notin Decision
    BY DEF Generate, Event, Decision
  <2>2. /\ AfterGenerate(snap, Generate(FALSE)) \in Snapshot
        /\ AfterGenerate(snap, Generate(FALSE)).phase = "open"
        /\ AfterGenerate(snap, Generate(FALSE)).pending = Generate(FALSE)
        /\ AfterGenerate(snap, Generate(FALSE)).canceled = snap.canceled
    BY <2>1 DEF AfterGenerate, Snapshot, Phase
  <2>3. Journalled(snap, req) = AfterGenerate(snap, Generate(FALSE)) /\ req.type \notin Decision
    BY <1>1 DEF Journalled, Decision
  <2>4. QED
    BY <2>1, <2>2, <2>3 DEF Fences
<1>2. CASE req.type = "checkpoint"
  <2>1. Journalled(snap, req) = AfterCheckpoint(snap) /\ req.type \notin Decision
    BY <1>2 DEF Journalled, Decision
  <2>2. CASE AfterCheckpoint(snap) = snap
    BY <2>1, <2>2
  <2>3. CASE AfterCheckpoint(snap) = [snap EXCEPT !.phase = "open"]
    <3>1. /\ AfterCheckpoint(snap) \in Snapshot /\ AfterCheckpoint(snap).phase = "open"
          /\ AfterCheckpoint(snap).pending = snap.pending
          /\ AfterCheckpoint(snap).canceled = snap.canceled
      BY <2>3 DEF Snapshot, Phase
    <3>2. QED
      BY <2>1, <3>1 DEF Fences
  <2>4. QED
    BY <2>2, <2>3 DEF AfterCheckpoint
<1>3. CASE req.type = "orphaned"
  <2>1. Journalled(snap, req) = AfterEnd(AfterDecision(snap, "discard"), "discarded")
    BY <1>3 DEF Journalled
  <2>2. AfterDecision(snap, "discard") \in Snapshot /\ AfterDecision(snap, "discard").canceled
    BY DecisionFences DEF Decision
  <2>3. QED
    BY <2>1, <2>2, EndFences DEF Closed
<1>4. CASE req.type \in Decision
  <2>1. Journalled(snap, req) = AfterDecision(snap, req.type)
    BY <1>4 DEF Journalled, Decision
  <2>2. QED
    BY <2>1, <1>4, DecisionFences
<1>5. QED
  BY <1>1, <1>2, <1>3, <1>4 DEF Post

-----------------------------------------------------------------------------
(* The stream *)

LEMMA Streamed ==
    ASSUME PageInv, NEW i \in DOMAIN sse
    PROVE  sse[i] \in Answer \cup Greeting
BY ElementOfSeq, LenProperties DEF PageInv, TypeOK

LEMMA TellFacts ==
    ASSUME PageInv, NEW s \in Session, NEW type \in Verdict \cup {"done", "error"},
           sse' = Told(Message(type, s)), UNCHANGED connected,
           \A r \in Session : store[r].canceled => store'[r].canceled,
           type \in Verdict => store'[s].canceled
    PROVE  /\ sse' \in Seq(Answer \cup Greeting)
           /\ \A i \in DOMAIN sse' : sse'[i].type \in Verdict => store'[sse'[i].id].canceled
           /\ ClosedIsEmpty'
<1>1. Message(type, s) \in Answer /\ Message(type, s).type = type /\ Message(type, s).id = s
  BY DEF Message, Answer
<1>2. sse \in Seq(Answer \cup Greeting)
  BY DEF PageInv, TypeOK
<1>3. \A i \in DOMAIN sse : sse[i].type \in Verdict => store'[sse[i].id].canceled
  <2> SUFFICES ASSUME NEW i \in DOMAIN sse, sse[i].type \in Verdict
               PROVE  store'[sse[i].id].canceled
    OBVIOUS
  <2>1. sse[i] \in Answer
    <3>1. \A m \in Greeting : m.type \notin Verdict
      BY DEF Greeting, Verdict
    <3>2. QED
      BY <3>1, Streamed
  <2>2. sse[i].id \in Session /\ store[sse[i].id].canceled
    BY <2>1 DEF Answer, PageInv, ToldIsJournalled
  <2>3. QED
    BY <2>2
<1>4. CASE connected
  <2>1. sse' = Append(sse, Message(type, s))
    BY <1>4 DEF Told
  <2>2. /\ sse' \in Seq(Answer \cup Greeting) /\ Len(sse') = Len(sse) + 1
        /\ sse'[Len(sse) + 1] = Message(type, s) /\ \A i \in 1..Len(sse) : sse'[i] = sse[i]
    BY <1>1, <1>2, <2>1, AppendProperties
  <2>3. DOMAIN sse' = 1..Len(sse) + 1 /\ DOMAIN sse = 1..Len(sse) /\ Len(sse) \in Nat
    BY <1>2, <2>2, LenProperties
  <2>4. \A i \in 1..Len(sse) + 1 : i \in 1..Len(sse) \/ i = Len(sse) + 1
    BY <2>3
  <2>5. QED
    BY <1>1, <1>3, <1>4, <2>2, <2>3, <2>4 DEF ClosedIsEmpty
<1>5. CASE ~connected
  BY <1>2, <1>3, <1>5 DEF Told, ClosedIsEmpty, PageInv
<1>6. QED
  BY <1>4, <1>5

-----------------------------------------------------------------------------
(* The server's steps *)

\* A step of an agent or of the server that leaves the page alone.
LEMMA AnsweredKeeps ==
    ASSUME PageInv, NEW s \in Session, NEW reply \in Verdict \cup {"done", "error"}, NEW acked,
           Answered(s, reply, acked), reply \in Verdict => store[s].canceled,
           source' \in [Session -> BOOLEAN], named' \subseteq Session,
           working' \in [Session -> {"no", "asked", "written"}],
           UNCHANGED <<connected, pageVars, faults, decisions>>
    PROVE  PageInv'
<1> DEFINE next == AfterReply(store[s], reply, acked, reply = "carbonize")
<1>1. store \in [Session -> Snapshot] /\ \A r \in Session : Fences(store[r])
  BY DEF PageInv, TypeOK, DecisionsCancel, Fences
<1>2. next \in Snapshot /\ Fences(next) /\ next.canceled = store[s].canceled
  <2>1. store[s] \in Snapshot /\ Fences(store[s]) /\ (reply = "carbonize" => store[s].canceled)
    BY <1>1 DEF Verdict
  <2>2. QED
    BY <2>1, ReplyFences
<1>3. store' = [store EXCEPT ![s] = next] /\ sse' = Told(Message(reply, s))
  BY DEF Answered
<1> HIDE DEF next
<1>4. /\ store' \in [Session -> Snapshot] /\ \A r \in Session : Fences(store'[r])
      /\ \A r \in Session : store[r].canceled => store'[r].canceled
  BY <1>1, <1>2, <1>3
<1>5. reply \in Verdict => store'[s].canceled
  BY <1>4
<1>6. /\ sse' \in Seq(Answer \cup Greeting)
      /\ \A i \in DOMAIN sse' : sse'[i].type \in Verdict => store'[sse'[i].id].canceled
      /\ ClosedIsEmpty'
  BY <1>3, <1>4, <1>5, TellFacts
<1>7. /\ page' = page /\ dom' = dom /\ bare' = bare /\ saved' = saved /\ handled' = handled
      /\ net' = net /\ gated' = gated /\ resp' = resp /\ fetches' = fetches /\ tried' = tried
  BY DEF pageVars
<1>8. TypeOK'
  BY <1>4, <1>6, <1>7 DEF PageInv, TypeOK
<1>9. SavesCurrent' /\ DecisionsCancel'
  BY <1>4, <1>7 DEF PageInv, SavesCurrent, DecisionsCancel, Fences
<1>10. \A r \in resp : r.type \in Decision /\ r.ok => store'[r.id].canceled
  BY <1>4 DEF PageInv, TypeOK, ToldIsJournalled, Response
<1>11. QED
  BY <1>6, <1>7, <1>8, <1>9, <1>10 DEF PageInv, ToldIsJournalled

LEMMA WorksKeeps ==
    ASSUME PageInv, NEW s \in Session, Works(s), UNCHANGED <<pageVars, faults, decisions>>
    PROVE  PageInv'
<1>1. /\ source \in [Session -> BOOLEAN] /\ named \subseteq Session
      /\ working \in [Session -> {"no", "asked", "written"}]
  BY DEF PageInv, TypeOK
<1>2. "done" \notin Verdict /\ "error" \notin Verdict
  BY DEF Verdict
<1>3. CASE AgentWrites(s)
  <2>1. /\ source' \in [Session -> BOOLEAN]
        /\ working' \in [Session -> {"no", "asked", "written"}]
        /\ UNCHANGED <<store, named, connected, sse>>
    BY <1>1, <1>3 DEF AgentWrites
  <2>2. QED
    BY <2>1 DEF pageVars, PageInv, TypeOK, SavesCurrent, DecisionsCancel, ToldIsJournalled, ClosedIsEmpty
<1>4. CASE AgentReports(s)
  <2>1. PICK reply \in {"done", "error"} : Answered(s, reply, "generate")
    BY <1>4 DEF AgentReports
  <2>2. /\ working' \in [Session -> {"no", "asked", "written"}]
        /\ named' \subseteq Session /\ UNCHANGED <<source, connected>>
    BY <1>1, <1>4 DEF AgentReports
  <2>3. QED
    BY <1>1, <1>2, <2>1, <2>2, AnsweredKeeps
<1>5. CASE AgentDecides(s)
  <2>1. PICK reply \in Verdict \cup {"error"} : Answered(s, reply, store[s].pending.type)
    BY <1>5 DEF AgentDecides, Verdict
  <2>2. store[s].canceled
    BY <1>5 DEF AgentDecides, PageInv, DecisionsCancel
  <2>3. source' \in [Session -> BOOLEAN] /\ UNCHANGED <<named, working, connected>>
    BY <1>1, <1>5 DEF AgentDecides
  <2>4. QED
    BY <1>1, <2>1, <2>2, <2>3, AnsweredKeeps
<1>6. CASE AgentCompletes(s)
  <2>1. Answered(s, "complete", "accept") /\ UNCHANGED <<source, named, working, connected>>
    BY <1>6 DEF AgentCompletes
  <2>2. store[s].canceled /\ "complete" \in Verdict
    BY <1>6 DEF AgentCompletes, PageInv, DecisionsCancel, Verdict
  <2>3. QED
    BY <1>1, <2>1, <2>2, AnsweredKeeps
<1>7. QED
  BY <1>3, <1>4, <1>5, <1>6 DEF Works

LEMMA HandlePostKeeps ==
    ASSUME PageInv, NEW req \in net, HandlePost(req)
    PROVE  PageInv'
<1>1. /\ net' = net \ {req} /\ resp' = resp \cup Answers(req, ~Unknown(req))
      /\ UNCHANGED <<page, dom, bare, saved, handled, gated, fetches, tried, faults, decisions>>
      /\ IF Unknown(req) THEN UNCHANGED serverVars ELSE Posted(req)
  BY DEF HandlePost
<1>2. req \in Post /\ req.id \in Session
  BY DEF PageInv, TypeOK, Post
<1>3. store \in [Session -> Snapshot] /\ \A r \in Session : Fences(store[r])
  BY DEF PageInv, TypeOK, DecisionsCancel, Fences
<1>4. /\ Answers(req, ~Unknown(req)) \subseteq Response
      /\ \A r \in Answers(req, ~Unknown(req)) :
           r.id = req.id /\ r.type = req.type /\ r.ok = ~Unknown(req)
  <2>1. req.type # "orphaned" => req.type \in Decision \cup {"generate", "checkpoint"}
    BY <1>2 DEF Post
  <2>2. Unknown(req) \in BOOLEAN
    BY DEF Unknown
  <2> DEFINE r == [type |-> req.type, id |-> req.id, ok |-> ~Unknown(req)]
  <2>3. r.id = req.id /\ r.type = req.type /\ r.ok = ~Unknown(req)
    OBVIOUS
  <2>4. req.type # "orphaned" => r \in Response
    BY <1>2, <2>1, <2>2 DEF Response
  <2>5. Answers(req, ~Unknown(req)) = {} \/ (Answers(req, ~Unknown(req)) = {r} /\ req.type # "orphaned")
    BY DEF Answers
  <2> HIDE DEF r
  <2>6. QED
    BY <2>3, <2>4, <2>5
<1>5. /\ store' \in [Session -> Snapshot] /\ \A r \in Session : Fences(store'[r])
      /\ \A r \in Session : store[r].canceled => store'[r].canceled
      /\ ~Unknown(req) /\ req.type \in Decision => store'[req.id].canceled
  <2>1. CASE Unknown(req)
    BY <1>1, <1>3, <2>1 DEF serverVars
  <2>2. CASE ~Unknown(req)
    <3> DEFINE next == Journalled(store[req.id], req)
    <3>1. /\ next \in Snapshot /\ Fences(next)
          /\ store[req.id].canceled \/ req.type \in Decision => next.canceled
      <4>1. store[req.id] \in Snapshot /\ Fences(store[req.id])
        BY <1>2, <1>3
      <4>2. QED
        BY <4>1, <1>2, JournalledFences
    <3>2. store' = [store EXCEPT ![req.id] = next]
      BY <1>1, <2>2 DEF Posted
    <3> HIDE DEF next
    <3>3. QED
      BY <1>2, <1>3, <3>1, <3>2
  <2>3. QED
    BY <2>1, <2>2
<1>6. /\ sse' \in Seq(Answer \cup Greeting)
      /\ \A i \in DOMAIN sse' : sse'[i].type \in Verdict => store'[sse'[i].id].canceled
      /\ ClosedIsEmpty'
  <2>1. CASE UNCHANGED sse
    <3>1. sse \in Seq(Answer \cup Greeting) /\ UNCHANGED connected
      BY <1>1 DEF PageInv, TypeOK, Posted, serverVars
    <3>2. \A m \in Greeting : m.type \notin Verdict
      BY DEF Greeting, Verdict
    <3>3. \A i \in DOMAIN sse : sse[i].type \in Verdict => sse[i].id \in Session /\ store[sse[i].id].canceled
      BY <3>2, Streamed DEF Answer, PageInv, ToldIsJournalled
    <3>4. QED
      BY <2>1, <3>1, <3>3, <1>5 DEF PageInv, ClosedIsEmpty
  <2>2. CASE sse' = Told(Message("done", req.id)) /\ UNCHANGED connected
    <3>1. "done" \notin Verdict
      BY DEF Verdict
    <3>2. QED
      BY <2>2, <3>1, <1>2, <1>5, TellFacts
  <2>3. QED
    BY <1>1, <2>1, <2>2 DEF Posted, serverVars
<1>7. /\ source' \in [Session -> BOOLEAN] /\ connected' \in BOOLEAN /\ named' \subseteq Session
      /\ working' \in [Session -> {"no", "asked", "written"}]
  BY <1>1, <1>2 DEF PageInv, TypeOK, Posted, serverVars
<1>8. TypeOK'
  BY <1>1, <1>4, <1>5, <1>6, <1>7 DEF PageInv, TypeOK
<1>9. SavesCurrent' /\ DecisionsCancel'
  BY <1>1, <1>5 DEF PageInv, SavesCurrent, DecisionsCancel, Fences
<1>10. \A r \in resp' : r.type \in Decision /\ r.ok => store'[r.id].canceled
  <2>1. \A r \in resp : r.id \in Session /\ (r.type \in Decision /\ r.ok => store[r.id].canceled)
    BY DEF PageInv, TypeOK, ToldIsJournalled, Response
  <2>2. QED
    BY <1>1, <1>4, <1>5, <2>1
<1>11. QED
  BY <1>6, <1>8, <1>9, <1>10 DEF PageInv, ToldIsJournalled

-----------------------------------------------------------------------------
(* The page's variables *)

LEMMA CleanedUpFacts ==
    ASSUME NEW p \in Overlay
    PROVE  /\ CleanedUp(p) \in Overlay /\ CleanedUp(p).st = "PICKING"
           /\ [CleanedUp(p) EXCEPT !.anchor = p.anchor] \in Overlay
           /\ [CleanedUp(p) EXCEPT !.anchor = p.anchor].st = "PICKING"
BY DEF CleanedUp, Overlay, State, Maybe

LEMMA SavesFacts ==
    ASSUME NEW p \in Overlay, p.cur # Nothing
    PROVE  Saves(p) \in Stored
BY DEF Saves, Stored, Overlay, Maybe

LEMMA RequestFacts ==
    ASSUME NEW type \in Decision \cup {"generate", "checkpoint", "orphaned"}, NEW s \in Session,
           NEW behind \in BOOLEAN
    PROVE  Request(type, s) \in Post /\ Checkpoint(s, behind) \in Post
BY DEF Request, Checkpoint, Post, Decision

LEMMA HeldFacts ==
    ASSUME NEW p \in Overlay, NEW req \in Post
    PROVE  Sent(p, req) \subseteq Post /\ Held(p, req) \subseteq Waiting
<1>1. p.gate # Nothing => [until |-> p.gate, req |-> req] \in Waiting
  BY DEF Overlay, Maybe, Waiting
<1>2. QED
  BY <1>1 DEF Sent, Held

LEMMA SendFacts ==
    ASSUME PageInv, NEW p \in Overlay, NEW req \in Post, Send(p, req)
    PROVE  net' \subseteq Post /\ gated' \subseteq Waiting
<1>1. net \subseteq Post /\ gated \subseteq Waiting
  BY DEF PageInv, TypeOK
<1>2. QED
  BY <1>1, HeldFacts DEF Send

\* What a step of the page leaves of its own variables.
PageTyped ==
    /\ page' \in Overlay /\ SavesCurrent'
    /\ saved' \in Stored \cup {Nothing} /\ handled' \in Maybe
    /\ net' \subseteq Post /\ gated' \subseteq Waiting /\ fetches' \subseteq Fetch

LEMMA PageStays ==
    ASSUME PageInv
    PROVE  /\ page \in Overlay /\ page.cur \in Maybe /\ page.saving \in Maybe
           /\ page.st \in State /\ page.arrived \in BOOLEAN /\ page.file \in BOOLEAN
           /\ page.capturing \subseteq Session /\ page.gate \in Maybe /\ page.anchor \in Maybe
           /\ saved \in Stored \cup {Nothing} /\ handled \in Maybe
           /\ net \subseteq Post /\ gated \subseteq Waiting /\ fetches \subseteq Fetch
           /\ saved # Nothing => /\ saved.id \in Session /\ saved.st \in State
                                 /\ saved.arrived \in BOOLEAN /\ saved.file \in BOOLEAN
<1>1. page \in Overlay /\ saved \in Stored \cup {Nothing}
  BY DEF PageInv, TypeOK
<1>2. QED
  BY <1>1 DEF PageInv, TypeOK, Overlay, Stored

LEMMA EndsTyped ==
    ASSUME PageInv, NEW p \in Overlay, NEW id \in Maybe, Ends(p, id) \/ EndsAccepted(p, id),
           net' \subseteq Post, gated' \subseteq Waiting, fetches' \subseteq Fetch
    PROVE  PageTyped
<1>1. /\ page' = CleanedUp(p) \/ page' = [CleanedUp(p) EXCEPT !.anchor = p.anchor]
      /\ saved' = Nothing /\ handled' = id
  BY DEF Ends, EndsAccepted
<1>2. page' \in Overlay /\ page'.st = "PICKING"
  BY <1>1, CleanedUpFacts
<1>3. QED
  BY <1>1, <1>2 DEF PageTyped, SavesCurrent

\* A page that is neither saving nor without a session, saved and reported.
LEMMA CheckpointsTyped ==
    ASSUME PageInv, NEW p \in Overlay, p.cur \in Session, p.st # "SAVING", Checkpoints(p),
           handled' \in Maybe, fetches' \subseteq Fetch
    PROVE  PageTyped
<1>1. p.cur # Nothing /\ (~p.arrived) \in BOOLEAN
  BY PageOK
<1>2. Checkpoint(p.cur, ~p.arrived) \in Post
  BY <1>1, RequestFacts
<1>3. net' \subseteq Post /\ gated' \subseteq Waiting
  BY <1>2, SendFacts DEF Checkpoints
<1>4. page' = p /\ saved' \in Stored
  BY <1>1, SavesFacts DEF Checkpoints
<1>5. QED
  BY <1>3, <1>4 DEF PageTyped, SavesCurrent

LEMMA ShownFacts ==
    ASSUME NEW p \in Overlay, NEW s \in Session
    PROVE  /\ Shown(p, s) \in Overlay /\ Shown(p, s).cur = s /\ Shown(p, s).st = "CYCLING"
           /\ Shown(p, s).arrived
BY DEF Shown, Overlay, State, Maybe

LEMMA RestoredFacts ==
    ASSUME NEW p \in Overlay, NEW s \in Session, NEW arrived \in BOOLEAN, NEW file \in BOOLEAN
    PROVE  LET q == RestoredPage(p, s, arrived, file) IN
           q \in Overlay /\ q.cur = s /\ q.st = "GENERATING"
BY DEF RestoredPage, Overlay, State, Maybe

\* A step of the page: what it was told stays true.
LEMMA PageStep ==
    ASSUME PageInv, PageTyped, dom' \subseteq Session, bare' \subseteq Session,
           tried' \subseteq Session, resp' \subseteq resp,
           faults' \in 0..MaxFaults, decisions' \in 0..MaxDecisions,
           UNCHANGED <<store, source, named, working>>, connected' \in BOOLEAN, ClosedIsEmpty',
           sse' \in Seq(Answer \cup Greeting),
           \A i \in DOMAIN sse' : sse'[i].type \in Verdict => store[sse'[i].id].canceled
    PROVE  PageInv'
<1>1. TypeOK'
  BY DEF PageTyped, PageInv, TypeOK
<1>2. SavesCurrent' /\ DecisionsCancel'
  BY DEF PageTyped, PageInv, DecisionsCancel
<1>3. ToldIsJournalled'
  BY DEF PageInv, ToldIsJournalled
<1>4. QED
  BY <1>1, <1>2, <1>3 DEF PageInv

LEMMA ServerStays ==
    ASSUME PageInv, UNCHANGED serverVars, PageTyped, dom' \subseteq Session,
           bare' \subseteq Session, tried' \subseteq Session, resp' \subseteq resp,
           faults' \in 0..MaxFaults, decisions' \in 0..MaxDecisions
    PROVE  PageInv'
<1>1. UNCHANGED <<store, source, named, working>> /\ connected' = connected /\ sse' = sse
  BY DEF serverVars
<1>2. /\ connected' \in BOOLEAN /\ sse' \in Seq(Answer \cup Greeting) /\ ClosedIsEmpty'
      /\ \A i \in DOMAIN sse' : sse'[i].type \in Verdict => store[sse'[i].id].canceled
  BY <1>1 DEF PageInv, TypeOK, ClosedIsEmpty, ToldIsJournalled
<1>3. QED
  BY <1>1, <1>2, PageStep

LEMMA Counted ==
    ASSUME PageInv
    PROVE  /\ faults \in 0..MaxFaults /\ decisions \in 0..MaxDecisions /\ dom \subseteq Session
           /\ bare \subseteq Session /\ tried \subseteq Session
           /\ faults < MaxFaults => faults + 1 \in 0..MaxFaults
           /\ decisions < MaxDecisions => decisions + 1 \in 0..MaxDecisions
<1>1. /\ faults \in 0..MaxFaults /\ decisions \in 0..MaxDecisions /\ dom \subseteq Session
      /\ bare \subseteq Session /\ tried \subseteq Session
  BY DEF PageInv, TypeOK
<1>2. QED
  BY <1>1, PageOK

-----------------------------------------------------------------------------
(* What the user does *)

LEMMA GoKeeps ==
    ASSUME PageInv, NEW s \in Session, NEW annotated \in BOOLEAN, Go(s, annotated)
    PROVE  PageInv'
<1> DEFINE p == [page EXCEPT !.st = "GENERATING", !.cur = s, !.arrived = FALSE, !.saving = Nothing,
                             !.result = Nothing, !.gate = IF annotated THEN @ ELSE s,
                             !.capturing = IF annotated THEN @ \cup {s} ELSE @]
           started == Checkpoint(s, TRUE)
<1>1. /\ page' = p /\ saved' = Saves(p)
      /\ UNCHANGED <<serverVars, dom, bare, handled, resp, fetches, tried, faults, decisions>>
      /\ net' = net \cup Sent(page, started)
                   \cup (IF annotated THEN {} ELSE {Request("generate", s)})
      /\ gated' = gated \cup Held(page, started)
  BY DEF Go
<1>2. p \in Overlay /\ p.st = "GENERATING" /\ p.cur = s
  <2>1. /\ (IF annotated THEN page.gate ELSE s) \in Maybe
        /\ (IF annotated THEN page.capturing \cup {s} ELSE page.capturing) \in SUBSET Session
        /\ s \in Maybe /\ Nothing \in Maybe /\ "GENERATING" \in State
    BY PageStays DEF Maybe, State
  <2>2. QED
    BY <2>1, PageStays DEF Overlay
<1> HIDE DEF p
<1>3. saved' \in Stored
  BY <1>1, <1>2, SavesFacts, PageOK
<1>4. Request("generate", s) \in Post /\ started \in Post
  BY RequestFacts
<1> HIDE DEF started
<1>5. net' \subseteq Post /\ gated' \subseteq Waiting
  <2>1. Sent(page, started) \subseteq Post /\ Held(page, started) \subseteq Waiting
    BY <1>4, HeldFacts, PageStays
  <2>2. QED
    BY <1>1, <1>4, <2>1, PageStays
<1>6. PageTyped
  BY <1>1, <1>2, <1>3, <1>5, PageStays DEF PageTyped, SavesCurrent
<1>7. QED
  BY <1>1, <1>6, ServerStays, Counted

LEMMA CapturedKeeps ==
    ASSUME PageInv, NEW s \in page.capturing, Captured(s)
    PROVE  PageInv'
<1>1. /\ page' = [page EXCEPT !.capturing = @ \ {s}, !.gate = s]
      /\ net' = net \cup {Request("generate", s)}
      /\ UNCHANGED <<serverVars, dom, bare, saved, handled, gated, resp, fetches, tried, faults, decisions>>
  BY DEF Captured
<1>2. s \in Session
  BY PageStays
<1>3. /\ page' \in Overlay /\ page'.st = page.st /\ page'.saving = page.saving
      /\ page'.cur = page.cur
  BY <1>1, <1>2, PageStays DEF Overlay, Maybe
<1>4. net' \subseteq Post
  BY <1>1, <1>2, RequestFacts, PageStays
<1>5. PageTyped
  BY <1>1, <1>3, <1>4, PageStays DEF PageTyped, SavesCurrent, PageInv
<1>6. QED
  BY <1>1, <1>5, ServerStays, Counted

LEMMA ClicksKeep ==
    ASSUME PageInv, ClicksAccept \/ ClicksDiscard
    PROVE  PageInv'
<1>1. page.cur \in Session /\ decisions < MaxDecisions /\ decisions' = decisions + 1
  BY PageStays DEF ClicksAccept, ClicksDiscard, Maybe
<1>2. UNCHANGED <<serverVars, dom, bare, handled, resp, fetches, tried, faults>>
  BY DEF ClicksAccept, ClicksDiscard
<1>3. net' \subseteq Post /\ gated' \subseteq Waiting
  <2>1. Request("accept", page.cur) \in Post /\ Request("discard", page.cur) \in Post
    BY <1>1, RequestFacts DEF Decision
  <2>2. CASE ClicksAccept
    <3> DEFINE p == [page EXCEPT !.st = "SAVING", !.saving = page.cur]
    <3>1. Send(p, Request("accept", page.cur))
      BY <2>2 DEF ClicksAccept
    <3>2. p \in Overlay
      BY PageStays DEF Overlay, State
    <3>3. QED
      BY <2>1, <3>1, <3>2, SendFacts
  <2>3. CASE ClicksDiscard
    BY <2>1, <2>3, SendFacts, PageStays DEF ClicksDiscard
  <2>4. QED
    BY <2>2, <2>3
<1>4. page' \in Overlay /\ SavesCurrent' /\ saved' \in Stored \cup {Nothing}
  <2>1. CASE ClicksAccept
    <3> DEFINE p == [page EXCEPT !.st = "SAVING", !.saving = page.cur]
    <3>1. page' = p /\ saved' = Saves(p)
      BY <2>1 DEF ClicksAccept
    <3>2. p \in Overlay /\ p.cur = page.cur /\ p.saving = page.cur /\ page.cur # Nothing
      BY <1>1, PageStays, PageOK DEF Overlay, State
    <3> HIDE DEF p
    <3>3. QED
      BY <3>1, <3>2, SavesFacts DEF SavesCurrent
  <2>2. CASE ClicksDiscard
    BY <2>2, PageStays DEF ClicksDiscard, SavesCurrent, PageInv
  <2>3. QED
    BY <2>1, <2>2
<1>5. PageTyped
  BY <1>2, <1>3, <1>4, PageStays DEF PageTyped
<1>6. QED
  BY <1>1, <1>2, <1>5, ServerStays, Counted

-----------------------------------------------------------------------------
(* Answers to requests *)

LEMMA AcceptAnsweredTyped ==
    ASSUME PageInv, NEW r \in Response, AcceptAnswered(r), UNCHANGED fetches
    PROVE  PageTyped
<1>1. net' = net /\ gated' = gated /\ r.id \in Session
  BY DEF AcceptAnswered, Response
<1>2. CASE r.ok /\ page.saving = r.id
  <2>1. [page EXCEPT !.saving = Nothing, !.result = r.id] \in Overlay
    BY <1>1, PageStays DEF Overlay, Maybe
  <2>2. r.id \in Maybe
    BY <1>1 DEF Maybe
  <2>3. QED
    BY <1>1, <1>2, <2>1, <2>2, EndsTyped, PageStays DEF AcceptAnswered
<1>3. CASE r.ok /\ page.saving # r.id
  BY <1>1, <1>3, PageStays DEF AcceptAnswered, PageTyped, SavesCurrent, PageInv
<1>4. CASE ~r.ok
  <2>1. page' = [page EXCEPT !.st = "CYCLING", !.saving = IF @ = r.id THEN Nothing ELSE @]
        /\ UNCHANGED <<saved, handled>>
    BY <1>4 DEF AcceptAnswered
  <2>2. page' \in Overlay /\ page'.st = "CYCLING"
    BY <2>1, PageStays DEF Overlay, Maybe, State
  <2>3. QED
    BY <1>1, <2>1, <2>2, PageStays DEF PageTyped, SavesCurrent
<1>5. QED
  BY <1>2, <1>3, <1>4

LEMMA ReceiveTyped ==
    ASSUME PageInv, NEW r \in Response, UNCHANGED fetches,
           OpensGate(r) \/ AcceptAnswered(r) \/ DiscardAnswered(r) \/ Refused(r)
    PROVE  PageTyped
<1>1. CASE OpensGate(r)
  <2>1. page' \in Overlay /\ page'.st = page.st /\ page'.saving = page.saving /\ page'.cur = page.cur
    BY <1>1, PageStays DEF OpensGate, Overlay, Maybe
  <2>2. /\ net' = net \cup {held.req : held \in {h \in gated : h.until = r.id}}
        /\ gated' = {held \in gated : held.until # r.id} /\ UNCHANGED <<saved, handled>>
    BY <1>1 DEF OpensGate
  <2>3. net' \subseteq Post /\ gated' \subseteq Waiting
    <3>1. \A held \in Waiting : held.req \in Post
      BY DEF Waiting
    <3>2. QED
      BY <2>2, <3>1, PageStays
  <2>4. QED
    BY <2>1, <2>2, <2>3, PageStays DEF PageTyped, SavesCurrent, PageInv
<1>2. CASE AcceptAnswered(r)
  BY <1>2, AcceptAnsweredTyped
<1>3. ASSUME UNCHANGED <<net, gated>>,
             UNCHANGED <<page, saved, handled>> \/ \E id \in Maybe : Ends(page, id)
      PROVE  PageTyped
  <2>1. CASE UNCHANGED <<page, saved, handled>>
    BY <1>3, <2>1, PageStays DEF PageTyped, SavesCurrent, PageInv
  <2>2. CASE \E id \in Maybe : Ends(page, id)
    BY <1>3, <2>2, EndsTyped, PageStays
  <2>3. QED
    BY <1>3, <2>1, <2>2
<1>4. CASE DiscardAnswered(r)
  BY <1>3, <1>4, PageStays DEF DiscardAnswered
<1>5. CASE Refused(r)
  BY <1>3, <1>5, PageStays DEF Refused
<1>6. QED
  BY <1>1, <1>2, <1>4, <1>5

LEMMA ReceiveKeeps ==
    ASSUME PageInv, NEW r \in resp, Receive(r)
    PROVE  PageInv'
<1>1. r \in Response
  BY DEF PageInv, TypeOK
<1>2. resp' = resp \ {r} /\ UNCHANGED <<serverVars, dom, bare, fetches, tried, faults, decisions>>
  BY DEF Receive
<1>3. OpensGate(r) \/ AcceptAnswered(r) \/ DiscardAnswered(r) \/ Refused(r)
  BY DEF Receive
<1>4. PageTyped
  BY <1>1, <1>2, <1>3, ReceiveTyped
<1>5. QED
  BY <1>2, <1>4, ServerStays, Counted

-----------------------------------------------------------------------------
(* Variants in the page *)

LEMMA SearchedFacts ==
    ASSUME PageInv, NEW s \in Session
    PROVE  LET p == Searched(page, s) IN
           /\ p \in Overlay /\ p.st = page.st /\ p.cur = page.cur /\ p.saving = page.saving
           /\ Rereads(s) \subseteq Fetch
<1>1. Searched(page, s) \in Overlay /\ Searched(page, s).st = page.st
      /\ Searched(page, s).cur = page.cur /\ Searched(page, s).saving = page.saving
  BY PageStays DEF Searched, Overlay, Maybe
<1>2. Rereads(s) \subseteq Fetch
  BY PageStays DEF Rereads, Read, Fetch
<1>3. QED
  BY <1>1, <1>2

LEMMA HotReloadKeeps ==
    ASSUME PageInv, NEW s \in Session, HotReload(s)
    PROVE  PageInv'
<1> DEFINE p == Searched(page, s)
<1>1. /\ dom' = dom \cup {s} /\ bare' = bare \ {s} /\ fetches' = Rereads(s)
      /\ UNCHANGED <<serverVars, resp, tried, faults, decisions>>
  BY DEF HotReload
<1>2. /\ p \in Overlay /\ p.st = page.st /\ p.cur = page.cur /\ p.saving = page.saving
      /\ fetches' \subseteq Fetch
  BY <1>1, SearchedFacts
<1>3. \/ Checkpoints(Shown(p, s)) /\ UNCHANGED handled
      \/ page' = [p EXCEPT !.scout = FALSE] /\ UNCHANGED <<saved, handled, net, gated>>
  BY DEF HotReload
<1> HIDE DEF p
<1>4. CASE Checkpoints(Shown(p, s)) /\ UNCHANGED handled
  <2>1. Shown(p, s) \in Overlay /\ Shown(p, s).cur \in Session /\ Shown(p, s).st # "SAVING"
    BY <1>2, ShownFacts
  <2>2. PageTyped
    BY <1>2, <1>4, <2>1, CheckpointsTyped, PageStays
  <2>3. QED
    BY <1>1, <2>2, ServerStays, Counted
<1>5. CASE page' = [p EXCEPT !.scout = FALSE] /\ UNCHANGED <<saved, handled, net, gated>>
  <2>1. page' \in Overlay /\ page'.st = page.st /\ page'.saving = page.saving /\ page'.cur = page.cur
    BY <1>2, <1>5 DEF Overlay
  <2>2. PageTyped
    BY <1>2, <1>5, <2>1, PageStays DEF PageTyped, SavesCurrent, PageInv
  <2>3. QED
    BY <1>1, <2>2, ServerStays, Counted
<1>6. QED
  BY <1>3, <1>4, <1>5

LEMMA WrapperLeavesKeeps ==
    ASSUME PageInv, NEW s \in Session, WrapperLeaves(s)
    PROVE  PageInv'
<1>1. /\ dom' = dom \ {s} /\ bare' = bare \ {s}
      /\ UNCHANGED <<serverVars, page, saved, handled, net, gated, resp, fetches, tried, faults, decisions>>
  BY DEF WrapperLeaves
<1>2. PageTyped
  BY <1>1, PageStays DEF PageTyped, SavesCurrent, PageInv
<1>3. QED
  BY <1>1, <1>2, ServerStays, Counted

LEMMA AnchorShowsKeeps ==
    ASSUME PageInv, AnchorShows
    PROVE  PageInv'
<1>1. /\ page.anchor \in Session /\ faults < MaxFaults /\ faults' = faults + 1
      /\ page' = Searched(page, page.anchor) /\ fetches' = Rereads(page.anchor)
      /\ UNCHANGED <<serverVars, dom, bare, saved, handled, net, gated, resp, tried, decisions>>
  BY PageStays DEF AnchorShows, Maybe
<1>2. /\ page' \in Overlay /\ page'.st = page.st /\ page'.cur = page.cur
      /\ page'.saving = page.saving /\ fetches' \subseteq Fetch
  BY <1>1, SearchedFacts
<1>3. PageTyped
  BY <1>1, <1>2, PageStays DEF PageTyped, SavesCurrent, PageInv
<1>4. QED
  BY <1>1, <1>3, ServerStays, Counted

\* A page into whose document a read puts a wrapper.
LEMMA PlacesTyped ==
    ASSUME PageInv, NEW p \in Overlay, p.st # "SAVING", NEW id \in Session,
           NEW kept \in Stored \cup {Nothing}, Places(p, id, kept), fetches' \subseteq Fetch
    PROVE  PageTyped /\ dom' \subseteq Session
<1> DEFINE q == [p EXCEPT !.cur = id, !.scout = FALSE,
                          !.st = IF p.arrived THEN "CYCLING" ELSE "GENERATING"]
<1>1. dom' \subseteq Session /\ handled' \in Maybe
  BY Counted, PageStays DEF Places
<1>2. CASE Checkpoints(q)
  <2>1. q \in Overlay /\ q.cur = id /\ q.st # "SAVING"
    BY DEF Overlay, State, Maybe
  <2> HIDE DEF q
  <2>2. QED
    BY <1>1, <1>2, <2>1, CheckpointsTyped
<1>3. CASE page' = [p EXCEPT !.scout = FALSE] /\ saved' = kept /\ UNCHANGED <<net, gated>>
  <2>1. page' \in Overlay /\ page'.st = p.st
    BY <1>3 DEF Overlay
  <2>2. QED
    BY <1>1, <1>3, <2>1, PageStays DEF PageTyped, SavesCurrent
<1>4. QED
  BY <1>2, <1>3 DEF Places

\* Each outcome of a read.
LEMMA FoundTyped ==
    ASSUME PageInv, NEW f \in fetches,
           \/ ReadInVain(f) \/ FindsOrphan(f) \/ FindsNoAnchor(f) \/ FindsVariants(f)
           \/ FindsScaffold(f),
           UNCHANGED handled \/ FindsOrphan(f)
    PROVE  PageTyped /\ dom' \subseteq Session /\ bare' \subseteq Session
<1>1. /\ f.id \in Session /\ f.id # Nothing /\ f.id \in Maybe /\ page.cur \in Maybe
      /\ dom \subseteq Session /\ bare \subseteq Session
  BY PageStays, PageOK, Counted DEF Fetch, Maybe
<1>2. fetches' \subseteq Fetch
  <2>1. fetches \subseteq Fetch
    BY PageStays
  <2>2. QED
    BY <2>1 DEF ReadInVain, FindsOrphan, FindsNoAnchor, FindsVariants, FindsScaffold
<1>3. CASE ReadInVain(f)
  BY <1>1, <1>2, <1>3, PageStays DEF ReadInVain, PageTyped, SavesCurrent, PageInv
<1>4. CASE FindsOrphan(f)
  <2>1. Ends(page, f.id) /\ Send(page, Request("orphaned", f.id)) /\ UNCHANGED <<dom, bare>>
    BY <1>4 DEF FindsOrphan
  <2>2. net' \subseteq Post /\ gated' \subseteq Waiting
    BY <1>1, <2>1, RequestFacts, SendFacts, PageStays
  <2>3. QED
    BY <1>1, <1>2, <2>1, <2>2, EndsTyped, PageStays
<1>5. CASE FindsNoAnchor(f)
  <2> DEFINE p == [page EXCEPT !.st = "GENERATING", !.anchor = f.id]
  <2>1. /\ IF page.cur # Nothing THEN Checkpoints(p) ELSE page' = p /\ UNCHANGED <<saved, net, gated>>
        /\ UNCHANGED <<dom, bare, handled>>
    BY <1>5 DEF FindsNoAnchor
  <2>2. p \in Overlay /\ p.st = "GENERATING" /\ p.cur = page.cur
    BY <1>1, PageStays DEF Overlay, State
  <2> HIDE DEF p
  <2>3. CASE page.cur # Nothing
    <3>1. p.cur \in Session /\ handled' \in Maybe
      BY <1>1, <2>1, <2>2, <2>3, PageStays DEF Maybe
    <3>2. QED
      BY <1>1, <1>2, <2>1, <2>2, <2>3, <3>1, CheckpointsTyped
  <2>4. CASE page.cur = Nothing
    BY <1>1, <1>2, <2>1, <2>2, <2>4, PageStays DEF PageTyped, SavesCurrent
  <2>5. QED
    BY <2>3, <2>4
<1>6. CASE FindsVariants(f)
  <2> DEFINE p == [page EXCEPT !.st = "CYCLING", !.arrived = TRUE, !.anchor = Nothing]
             kept == IF page.cur = Nothing THEN saved ELSE Saves(p)
  <2>1. Places(p, f.id, kept) /\ bare' = bare \ {f.id}
    BY <1>6 DEF FindsVariants
  <2>2. p \in Overlay /\ p.st = "CYCLING" /\ p.cur = page.cur
    BY <1>1, PageStays DEF Overlay, State, Maybe
  <2> HIDE DEF p
  <2>3. kept \in Stored \cup {Nothing}
    BY <2>2, SavesFacts, PageStays
  <2> HIDE DEF kept
  <2>4. QED
    BY <1>1, <1>2, <2>1, <2>2, <2>3, PlacesTyped
<1>7. CASE FindsScaffold(f)
  <2> DEFINE p == [page EXCEPT !.arrived = FALSE, !.anchor = Nothing]
  <2>1. /\ \/ page.st = "GENERATING" /\ Places(p, f.id, saved)
           \/ Places(CleanedUp(p), f.id, Nothing)
        /\ bare' = bare \cup {f.id}
    BY <1>7 DEF FindsScaffold
  <2>2. p \in Overlay /\ p.st = page.st /\ saved \in Stored \cup {Nothing}
    BY <1>1, PageStays DEF Overlay, Maybe
  <2>3. CleanedUp(p) \in Overlay /\ CleanedUp(p).st # "SAVING"
    BY <2>2, CleanedUpFacts
  <2> HIDE DEF p
  <2>4. CASE page.st = "GENERATING" /\ Places(p, f.id, saved)
    <3>1. p.st # "SAVING"
      BY <2>2, <2>4
    <3>2. QED
      BY <1>1, <1>2, <2>1, <2>2, <2>4, <3>1, PlacesTyped
  <2>5. CASE Places(CleanedUp(p), f.id, Nothing)
    BY <1>1, <1>2, <2>1, <2>3, <2>5, PlacesTyped
  <2>6. QED
    BY <2>1, <2>4, <2>5
<1>8. QED
  BY <1>3, <1>4, <1>5, <1>6, <1>7

\* What every outcome of a read has in common.
LEMMA FetchedFacts ==
    ASSUME NEW f, Fetched(f)
    PROVE  /\ \/ ReadInVain(f) \/ FindsOrphan(f) \/ FindsNoAnchor(f) \/ FindsVariants(f)
              \/ FindsScaffold(f)
           /\ UNCHANGED <<serverVars, resp, faults, decisions>>
           /\ UNCHANGED handled \/ FindsOrphan(f)
<1>1. UNCHANGED <<serverVars, resp, faults, decisions>>
  BY DEF Fetched
<1>2. \/ ReadInVain(f) \/ FindsOrphan(f) \/ FindsNoAnchor(f) \/ FindsVariants(f)
      \/ FindsScaffold(f)
  BY DEF Fetched
<1>3. UNCHANGED handled \/ FindsOrphan(f)
  BY <1>2 DEF ReadInVain, FindsNoAnchor, FindsVariants, FindsScaffold, Places
<1>4. QED
  BY <1>1, <1>2, <1>3

LEMMA FetchedKeeps ==
    ASSUME PageInv, NEW f \in fetches, Fetched(f)
    PROVE  PageInv'
<1>1. PageTyped /\ dom' \subseteq Session /\ bare' \subseteq Session
  BY FetchedFacts, FoundTyped
<1>2. tried' \subseteq Session
  BY Counted DEF Fetched, InVain
<1>3. UNCHANGED <<serverVars, resp, faults, decisions>>
  BY FetchedFacts
<1>4. QED
  BY <1>1, <1>2, <1>3, ServerStays, Counted

-----------------------------------------------------------------------------
(* The stream, as the page takes it *)

LEMMA ReadIfFacts ==
    ASSUME NEW p, p.cur \in Session, NEW kind \in {"resume", "orphan", "done"}
    PROVE  ReadIf(p, kind) \subseteq Fetch
BY DEF ReadIf, Read, Fetch

LEMMA MissedFacts ==
    ASSUME NEW p, NEW sessions, DOMAIN sessions \subseteq Session
    PROVE  Missed(p, sessions) \subseteq Fetch
<1>1. Missed(p, sessions) = {} \/ (Missed(p, sessions) = {Read(p.cur, "done")} /\ p.cur \in Session)
  BY DEF Missed, Behind
<1>2. p.cur \in Session => Read(p.cur, "done") \in Fetch
  BY DEF Read, Fetch
<1>3. QED
  BY <1>1, <1>2

\* A page that goes on with a session after the first message of a stream.
LEMMA GoesTyped ==
    ASSUME PageInv, NEW sessions, DOMAIN sessions \subseteq Session, NEW id \in Session,
           NEW arrived \in BOOLEAN, NEW file \in BOOLEAN, NEW kind \in {"resume", "orphan", "done"},
           NEW p, p = RestoredPage(page, id, arrived, file), Checkpoints(p),
           fetches' = fetches \cup ReadIf(p, kind) \cup Missed(p, sessions), UNCHANGED handled
    PROVE  PageTyped
<1>1. p \in Overlay /\ p.cur = id /\ p.st = "GENERATING"
  <2>1. page \in Overlay
    BY PageStays
  <2>2. QED
    BY <2>1, RestoredFacts
<1>2. fetches' \subseteq Fetch
  BY <1>1, ReadIfFacts, MissedFacts, PageStays
<1>3. QED
  BY <1>1, <1>2, CheckpointsTyped, PageStays

LEMMA ConnectedTyped ==
    ASSUME PageInv, NEW sessions, DOMAIN sessions \subseteq Session, UNCHANGED handled,
           \A s \in DOMAIN sessions : sessions[s].completed \in BOOLEAN, Connected(sessions)
    PROVE  PageTyped
<1> DEFINE Tell(id) == id \in DOMAIN sessions /\ sessions[id].completed
           Goes(p, kind) ==
               /\ Checkpoints(p)
               /\ fetches' = fetches \cup ReadIf(p, kind) \cup Missed(p, sessions)
           Saved == RestoredPage(page, saved.id, saved.arrived \/ Tell(saved.id),
                                 saved.file \/ (Tell(saved.id) /\ saved.id \in named))
<1>1. CASE dom = {} /\ RestoresSaved(sessions)
  <2>1. saved # Nothing
    BY <1>1 DEF RestoresSaved
  <2>2. saved.id \in Session /\ saved.arrived \in BOOLEAN /\ saved.file \in BOOLEAN
    BY <2>1, PageStays
  <2>3. /\ (saved.arrived \/ Tell(saved.id)) \in BOOLEAN
        /\ (saved.file \/ (Tell(saved.id) /\ saved.id \in named)) \in BOOLEAN
        /\ Restores \in {"resume", "orphan", "done"}
    BY DEF Restores
  <2>4. Goes(Saved, Restores)
    BY <1>1, <2>1, Zenon DEF Connected
  <2>5. QED
    BY <2>2, <2>3, <2>4, GoesTyped
<1>2. CASE dom = {} /\ saved = Nothing /\ Adoptable(sessions) # {}
  <2>1. ~RestoresSaved(sessions)
    BY <1>2 DEF RestoresSaved
  <2>2. PICK s \in Adoptable(sessions) : Goes(RestoredPage(page, s, TRUE, TRUE), "resume")
    BY <1>2, <2>1, Zenon DEF Connected
  <2>3. s \in Session
    BY DEF Adoptable
  <2>4. QED
    BY <2>2, <2>3, GoesTyped
<1>3. CASE /\ ~(dom = {} /\ RestoresSaved(sessions))
           /\ ~(dom = {} /\ saved = Nothing /\ Adoptable(sessions) # {})
  <2>1. /\ fetches' = fetches \cup Missed(page, sessions)
        /\ page' = Learns(page, sessions) /\ UNCHANGED <<saved, net, gated>>
    BY <1>3 DEF Connected
  <2>2. fetches' \subseteq Fetch
    BY <2>1, MissedFacts, PageStays
  <2>3. /\ page' \in Overlay /\ page'.st = page.st /\ page'.saving = page.saving
        /\ page'.cur = page.cur
    BY <2>1, PageStays DEF Learns, Overlay
  <2>4. QED
    BY <2>1, <2>2, <2>3, PageStays DEF PageTyped, SavesCurrent, PageInv
<1>4. QED
  BY <1>1, <1>2, <1>3

LEMMA ToldTyped ==
    ASSUME PageInv, NEW id \in Session,
           DoneTold(id) \/ AcceptTold(id) \/ DiscardTold(id) \/ ErrorTold(id)
    PROVE  PageTyped
<1>1. id \in Maybe /\ id # Nothing
  BY PageOK DEF Maybe
<1>2. CASE DoneTold(id)
  <2>1. UNCHANGED <<saved, handled, net, gated>>
    BY <1>2 DEF DoneTold
  <2>2. /\ page' \in Overlay /\ page'.cur = page.cur /\ page'.saving = page.saving
        /\ page'.st = "SAVING" => page.st = "SAVING"
    <3> DEFINE p == [page EXCEPT !.file = @ \/ id \in named]
    <3>1. p \in Overlay /\ p.cur = page.cur /\ p.saving = page.saving /\ p.st = page.st
      <4>1. (page.file \/ id \in named) \in BOOLEAN
        OBVIOUS
      <4>2. QED
        BY <4>1, PageStays DEF Overlay
    <3>2. page' = p \/ page' = [p EXCEPT !.st = "CYCLING"]
      BY <1>2 DEF DoneTold
    <3> HIDE DEF p
    <3>3. QED
      BY <3>1, <3>2 DEF Overlay, State
  <2>3. Read(id, "done") \in Fetch
    BY DEF Read, Fetch
  <2>4. fetches' \subseteq Fetch
    BY <1>2, <2>3, PageStays DEF DoneTold
  <2>5. QED
    BY <2>1, <2>2, <2>4, PageStays DEF PageTyped, SavesCurrent, PageInv
<1>3. CASE AcceptTold(id)
  <2> DEFINE p == [page EXCEPT !.saving = IF @ = id THEN Nothing ELSE @,
                               !.result = IF @ = id THEN Nothing ELSE @]
  <2>1. /\ UNCHANGED <<net, gated, fetches>>
        /\ IF page.saving = id /\ page.cur \in {id, Nothing}
           THEN EndsAccepted(p, id) ELSE page' = p /\ UNCHANGED <<saved, handled>>
    BY <1>3 DEF AcceptTold
  <2>2. /\ p \in Overlay /\ p.st = page.st /\ p.cur = page.cur
        /\ page.saving # id => p.saving = page.saving
    BY PageStays DEF Overlay, Maybe
  <2> HIDE DEF p
  <2>3. CASE page.saving = id /\ page.cur \in {id, Nothing}
    BY <1>1, <2>1, <2>2, <2>3, EndsTyped, PageStays
  <2>4. CASE ~(page.saving = id /\ page.cur \in {id, Nothing})
    BY <2>1, <2>2, <2>4, PageStays DEF PageTyped, SavesCurrent, PageInv
  <2>5. QED
    BY <2>3, <2>4
<1>4. CASE DiscardTold(id)
  <2>1. CASE page.cur = id
    BY <1>1, <1>4, <2>1, EndsTyped, PageStays DEF DiscardTold
  <2>2. CASE page.cur # id
    BY <1>4, <2>2, PageStays DEF DiscardTold, PageTyped, SavesCurrent, PageInv
  <2>3. QED
    BY <2>1, <2>2
<1>5. CASE ErrorTold(id)
  <2>1. UNCHANGED <<net, gated, fetches>>
    BY <1>5 DEF ErrorTold
  <2>2. CASE page.saving = id
    <3>1. /\ page' = [page EXCEPT !.saving = Nothing, !.result = Nothing, !.st = "CYCLING"]
          /\ UNCHANGED <<saved, handled>>
      BY <1>5, <2>2 DEF ErrorTold
    <3>2. page' \in Overlay /\ page'.st = "CYCLING"
      BY <3>1, PageStays DEF Overlay, Maybe, State
    <3>3. QED
      BY <2>1, <3>1, <3>2, PageStays DEF PageTyped, SavesCurrent
  <2>3. CASE page.saving # id /\ page.result = id
    <3>1. page' = [page EXCEPT !.result = Nothing] /\ UNCHANGED <<saved, handled>>
      BY <1>5, <2>3 DEF ErrorTold
    <3>2. page' \in Overlay /\ page'.st = page.st /\ page'.saving = page.saving /\ page'.cur = page.cur
      BY <3>1, PageStays DEF Overlay, Maybe
    <3>3. QED
      BY <2>1, <3>1, <3>2, PageStays DEF PageTyped, SavesCurrent, PageInv
  <2>4. CASE page.saving # id /\ page.result # id /\ page.cur = id
    <3>1. Ends(page, id)
      BY <1>5, <2>4 DEF ErrorTold
    <3>2. QED
      BY <1>1, <2>1, <3>1, EndsTyped, PageStays
  <2>5. CASE page.saving # id /\ page.result # id /\ page.cur # id
    <3>1. /\ page' = [page EXCEPT !.st = "PICKING"] /\ UNCHANGED handled
          /\ saved' \in {saved, Nothing}
      BY <1>5, <2>5 DEF ErrorTold
    <3>2. page' \in Overlay /\ page'.st = "PICKING"
      BY <3>1, PageStays DEF Overlay, State
    <3>3. QED
      BY <2>1, <3>1, <3>2, PageStays DEF PageTyped, SavesCurrent
  <2>6. QED
    BY <2>2, <2>3, <2>4, <2>5
<1>6. QED
  BY <1>2, <1>3, <1>4, <1>5

LEMMA DeliverKeeps ==
    ASSUME PageInv, Deliver
    PROVE  PageInv'
<1> DEFINE msg == Head(sse)
<1>1. /\ sse # <<>> /\ sse' = Tail(sse)
      /\ UNCHANGED <<store, source, named, working, connected, dom, bare, resp, faults, decisions>>
      /\ tried' \in {{}, tried}
  BY DEF Deliver
<1>2. sse \in Seq(Answer \cup Greeting) /\ connected
  BY <1>1 DEF PageInv, TypeOK, ClosedIsEmpty
<1>3. /\ msg \in Answer \cup Greeting /\ sse' \in Seq(Answer \cup Greeting)
      /\ Len(sse') = Len(sse) - 1 /\ \A i \in 1..Len(sse') : sse'[i] = sse[i + 1]
  BY <1>1, <1>2, HeadTailProperties
<1>4. DOMAIN sse' = 1..Len(sse') /\ DOMAIN sse = 1..Len(sse) /\ Len(sse) \in Nat
  BY <1>2, <1>3, LenProperties
<1>5. \A i \in DOMAIN sse' : sse'[i] = sse[i + 1] /\ i + 1 \in DOMAIN sse
  BY <1>3, <1>4
<1>6. \A i \in DOMAIN sse' : sse'[i].type \in Verdict => store[sse'[i].id].canceled
  BY <1>5 DEF PageInv, ToldIsJournalled
<1>7. ClosedIsEmpty' /\ connected' \in BOOLEAN
  BY <1>1, <1>2 DEF ClosedIsEmpty
<1>8. PageTyped
  <2>1. CASE msg \in Answer
    <3>1. msg.id \in Session /\ msg.type # "connected"
      BY <2>1 DEF Answer, Verdict
    <3>2. CASE DoneTold(msg.id) \/ AcceptTold(msg.id) \/ DiscardTold(msg.id) \/ ErrorTold(msg.id)
      BY <3>1, <3>2, ToldTyped
    <3>3. CASE UNCHANGED <<page, saved, handled, net, gated, fetches>>
      BY <3>3, PageStays DEF PageTyped, SavesCurrent, PageInv
    <3>4. QED
      BY <3>1, <3>2, <3>3 DEF Deliver
  <2>2. CASE msg \in Greeting
    <3>1. /\ msg.type = "connected" /\ DOMAIN msg.sessions \subseteq Session
          /\ \A s \in DOMAIN msg.sessions : msg.sessions[s] \in Snapshot
      BY <2>2 DEF Greeting
    <3>2. \A s \in DOMAIN msg.sessions : msg.sessions[s].completed \in BOOLEAN
      BY <3>1 DEF Snapshot
    <3>3. Connected(msg.sessions) /\ UNCHANGED handled
      BY <3>1 DEF Deliver
    <3>4. QED
      BY <3>1, <3>2, <3>3, ConnectedTyped
  <2>3. QED
    BY <1>3, <2>1, <2>2
<1> HIDE DEF msg
<1>9. QED
  BY <1>1, <1>3, <1>6, <1>7, <1>8, PageStep, Counted

LEMMA ConnectKeeps ==
    ASSUME PageInv, Connect
    PROVE  PageInv'
<1> DEFINE known == {t \in Session : Active(store[t])}
           msg == [type |-> "connected", sessions |-> [s \in known |-> store[s]]]
<1>1. connected' = TRUE /\ sse' = <<msg>>
  BY DEF Connect
<1>2. UNCHANGED <<store, source, named, working, pageVars, faults, decisions>>
  BY DEF Connect
<1>3. msg \in Greeting
  <2>1. [s \in known |-> store[s]] \in [known -> Snapshot] /\ known \in SUBSET Session
    BY DEF PageInv, TypeOK
  <2>2. QED
    BY <2>1 DEF Greeting
<1>4. msg.type \notin Verdict
  BY DEF Verdict
<1> HIDE DEF msg
<1>5. sse' \in Seq(Answer \cup Greeting) /\ DOMAIN sse' = {1} /\ sse'[1] = msg
  BY <1>1, <1>3
<1>6. ClosedIsEmpty' /\ connected' \in BOOLEAN
  BY <1>1 DEF ClosedIsEmpty
<1>7. PageTyped
  BY <1>2, PageStays DEF pageVars, PageTyped, SavesCurrent, PageInv
<1>8. UNCHANGED <<store, source, named, working, dom, bare, resp, tried, faults, decisions>>
  BY <1>2 DEF pageVars
<1>9. QED
  BY <1>4, <1>5, <1>6, <1>7, <1>8, PageStep, Counted

LEMMA DropKeeps ==
    ASSUME PageInv, Drop
    PROVE  PageInv'
<1>1. UNCHANGED <<store, source, named, working, pageVars, decisions>>
  BY DEF Drop
<1>2. connected' = FALSE /\ sse' = <<>>
  BY DEF Drop
<1>3. faults' \in 0..MaxFaults
  BY Counted DEF Drop
<1>4. sse' \in Seq(Answer \cup Greeting) /\ DOMAIN sse' = {} /\ ClosedIsEmpty'
  BY <1>2 DEF ClosedIsEmpty
<1>5. PageTyped
  BY <1>1, PageStays DEF pageVars, PageTyped, SavesCurrent, PageInv
<1>6. UNCHANGED <<store, source, named, working, dom, bare, resp, tried, decisions>>
  BY <1>1 DEF pageVars
<1>7. QED
  BY <1>2, <1>3, <1>4, <1>5, <1>6, PageStep, Counted

-----------------------------------------------------------------------------
(* Reload *)

LEMMA NewPageFacts == NewPage \in Overlay /\ NewPage.st = "PICKING"
BY DEF NewPage, Overlay, State, Maybe

\* A page that goes on with a session after a reload.
LEMMA ResumedTyped ==
    ASSUME PageInv, NEW p \in Overlay, p.cur \in Session, p.st # "SAVING", NEW late \in SUBSET Post,
           page' = p, saved' = Saves(p), net' = late \cup {Checkpoint(p.cur, ~p.arrived)},
           fetches' \subseteq Fetch, gated' = {}, UNCHANGED handled
    PROVE  PageTyped
<1>1. p.cur # Nothing /\ (~p.arrived) \in BOOLEAN
  BY PageOK
<1>2. Checkpoint(p.cur, ~p.arrived) \in Post
  BY <1>1, RequestFacts
<1>3. net' \subseteq Post /\ gated' \subseteq Waiting
  BY <1>2
<1>4. saved' \in Stored
  BY <1>1, SavesFacts
<1>5. QED
  BY <1>3, <1>4, PageStays DEF PageTyped, SavesCurrent

LEMMA ResumesTyped ==
    ASSUME PageInv, NEW shown \in SUBSET Session, NEW late \in SUBSET Post, Resumes(shown, late),
           gated' = {}
    PROVE  PageTyped
<1> DEFINE none == [s \in {} |-> NewSession]
           At(p, reads) == /\ page' = p /\ saved' = Saves(p) /\ fetches' = reads
                           /\ net' = late \cup {Checkpoint(p.cur, ~p.arrived)}
                           /\ UNCHANGED handled
           Scanned(s) == [Shown(NewPage, s) EXCEPT !.file = saved # Nothing /\ saved.id = s /\ saved.file]
           Unscouted == [NewPage EXCEPT !.scout = FALSE]
           Restored == RestoredPage(Unscouted, saved.id, saved.arrived, saved.file)
<1>1. CASE shown \ {handled} # {}
  <2>1. PICK s \in shown \ {handled} : At(Scanned(s), {})
    BY <1>1, Zenon DEF Resumes
  <2>2. Shown(NewPage, s) \in Overlay /\ Shown(NewPage, s).cur = s /\ Shown(NewPage, s).st = "CYCLING"
    BY NewPageFacts, ShownFacts
  <2>3. (saved # Nothing /\ saved.id = s /\ saved.file) \in BOOLEAN
    BY PageStays
  <2>4. Scanned(s) \in Overlay /\ Scanned(s).cur = s /\ Scanned(s).st = "CYCLING"
    BY <2>2, <2>3 DEF Overlay
  <2> HIDE DEF Scanned
  <2>5. QED
    BY <2>1, <2>4, ResumedTyped
<1>2. CASE shown = {} /\ RestoresSaved(none)
  <2>1. saved # Nothing
    BY <1>2 DEF RestoresSaved
  <2>2. saved.id \in Session /\ saved.arrived \in BOOLEAN /\ saved.file \in BOOLEAN
    BY <2>1, PageStays
  <2>3. At(Restored, ReadIf(Restored, Restores))
    BY <1>2, Zenon DEF Resumes
  <2>4. Restored \in Overlay /\ Restored.cur = saved.id /\ Restored.st = "GENERATING"
    <3>1. Unscouted \in Overlay
      BY NewPageFacts DEF Overlay
    <3>2. QED
      BY <2>2, <3>1, RestoredFacts
  <2> HIDE DEF Restored
  <2>5. ReadIf(Restored, Restores) \subseteq Fetch
    <3>1. Restored.cur \in Session /\ Restores \in {"resume", "orphan", "done"}
      BY <2>2, <2>4 DEF Restores
    <3>2. QED
      BY <3>1, ReadIfFacts
  <2>6. QED
    BY <2>2, <2>3, <2>4, <2>5, ResumedTyped
<1>3. CASE /\ page' = NewPage /\ net' = late /\ fetches' = {}
           /\ UNCHANGED <<saved, handled>> \/ (saved' = Nothing /\ handled' = Nothing)
  BY <1>3, NewPageFacts, PageStays DEF PageTyped, SavesCurrent, Maybe
<1>4. CASE shown # {} /\ shown \subseteq {handled}
  BY <1>3, <1>4 DEF Resumes
<1>5. CASE shown = {} /\ ~RestoresSaved(none)
  BY <1>3, <1>5 DEF Resumes
<1>6. QED
  BY <1>1, <1>2, <1>4, <1>5

LEMMA ReloadKeeps ==
    ASSUME PageInv, Reload
    PROVE  PageInv'
<1>1. /\ connected' = FALSE /\ sse' = <<>> /\ gated' = {} /\ resp' = {}
      /\ bare' = {} /\ tried' = {}
      /\ UNCHANGED <<store, source, named, working, decisions>>
  BY DEF Reload
<1>2. faults' \in 0..MaxFaults
  BY Counted DEF Reload
<1>3. PICK shown \in {{}, {s \in Session : source[s]}}, kept \in SUBSET net :
        dom' = shown /\ Resumes(shown, {[req EXCEPT !.awaited = FALSE] : req \in kept})
  BY DEF Reload
<1>4. {[req EXCEPT !.awaited = FALSE] : req \in kept} \in SUBSET Post
  <2>1. \A req \in Post : [req EXCEPT !.awaited = FALSE] \in Post
    BY DEF Post
  <2>2. QED
    BY <2>1, PageStays
<1>5. shown \in SUBSET Session
  BY <1>3
<1>6. PageTyped
  BY <1>1, <1>3, <1>4, <1>5, ResumesTyped
<1>7. sse' \in Seq(Answer \cup Greeting) /\ DOMAIN sse' = {} /\ ClosedIsEmpty'
  BY <1>1 DEF ClosedIsEmpty
<1>8. QED
  BY <1>1, <1>2, <1>3, <1>5, <1>6, <1>7, PageStep, Counted

-----------------------------------------------------------------------------
(* The invariant *)

LEMMA InitHolds == Init => PageInv
<1> SUFFICES ASSUME Init PROVE PageInv
  OBVIOUS
<1>1. NewSession \in Snapshot /\ Fences(NewSession)
  BY DEF NewSession, Snapshot, Phase, Fences
<1>2. sse \in Seq(Answer \cup Greeting) /\ DOMAIN sse = {}
  BY DEF Init
<1>3. TypeOK
  <2>1. /\ store \in [Session -> Snapshot] /\ source \in [Session -> BOOLEAN]
        /\ working \in [Session -> {"no", "asked", "written"}]
    BY <1>1 DEF Init
  <2>2. faults \in 0..MaxFaults /\ decisions \in 0..MaxDecisions
    BY PageOK DEF Init
  <2>3. QED
    BY <1>2, <2>1, <2>2, NewPageFacts DEF Init, TypeOK, Maybe
<1>4. SavesCurrent
  BY NewPageFacts DEF Init, SavesCurrent
<1>5. DecisionsCancel
  BY <1>1 DEF Init, DecisionsCancel, Fences
<1>6. ToldIsJournalled /\ ClosedIsEmpty
  BY <1>2 DEF Init, ToldIsJournalled, ClosedIsEmpty
<1>7. QED
  BY <1>3, <1>4, <1>5, <1>6 DEF PageInv

LEMMA StepKeeps == PageInv /\ [Next]_vars => PageInv'
<1> SUFFICES ASSUME PageInv, [Next]_vars PROVE PageInv'
  OBVIOUS
<1>1. CASE \E s \in Session, annotated \in BOOLEAN : Go(s, annotated)
  BY <1>1, GoKeeps
<1>2. CASE (\E s \in page.capturing : Captured(s)) \/ ClicksAccept \/ ClicksDiscard
  BY <1>2, CapturedKeeps, ClicksKeep
<1>3. CASE \E req \in net : HandlePost(req)
  BY <1>3, HandlePostKeeps
<1>4. CASE \E r \in resp : Receive(r)
  BY <1>4, ReceiveKeeps
<1>5. CASE \E f \in fetches : Fetched(f)
  BY <1>5, FetchedKeeps
<1>6. CASE \E s \in Session : HotReload(s) \/ WrapperLeaves(s)
  BY <1>6, HotReloadKeeps, WrapperLeavesKeeps
<1>7. CASE AnchorShows \/ Deliver \/ Connect \/ Drop \/ Reload
  BY <1>7, AnchorShowsKeeps, DeliverKeeps, ConnectKeeps, DropKeeps, ReloadKeeps
<1>8. CASE \E s \in Session : Works(s) /\ UNCHANGED <<pageVars, faults, decisions>>
  BY <1>8, WorksKeeps
<1>9. CASE UNCHANGED vars
  <2>1. UNCHANGED serverVars /\ UNCHANGED <<dom, bare, resp, tried, faults, decisions>>
    BY <1>9 DEF vars, pageVars
  <2>2. PageTyped
    BY <1>9, PageStays DEF vars, pageVars, PageTyped, SavesCurrent, PageInv
  <2>3. QED
    BY <2>1, <2>2, ServerStays, Counted
<1>10. QED
  BY <1>1, <1>2, <1>3, <1>4, <1>5, <1>6, <1>7, <1>8, <1>9 DEF Next

\* What the page is told is true.  live-server.mjs, POST /events and the
\* agents' answers; live-browser.js, handleAccept.
THEOREM PageInvariant == Spec => []PageInv
BY InitHolds, StepKeeps, PTL DEF Spec

-----------------------------------------------------------------------------
(* The page lets go of an accept *)

\* The page that was saving a session is back at picking.
LetsGo == page.st = "SAVING" /\ page.cur # Nothing /\ page'.st = "PICKING"

\* Why it may.
Reason ==
    \/ store[page.cur].canceled
    \/ faults' # faults
    \/ fetches \ fetches' # {}
    \/ \E r \in resp \ resp' : r.type = "checkpoint" /\ r.id = page.cur
    \/ \E r \in resp \ resp' : r.type = "discard" /\ r.ok /\ r.id # page.cur
    \/ sse # <<>> /\ Head(sse).type = "error" /\ Head(sse).id # page.cur

LEMMA ReceiveHasReason ==
    ASSUME PageInv, LetsGo, NEW r \in resp, Receive(r)
    PROVE  Reason
<1>1. r \in Response /\ r \in resp \ resp' /\ page.saving = page.cur
  BY DEF PageInv, TypeOK, SavesCurrent, LetsGo, Receive
<1>2. r.type \in Decision /\ r.ok => store[r.id].canceled
  BY DEF PageInv, ToldIsJournalled
<1>3. page' # page
  BY DEF LetsGo
<1>4. CASE r.type = "generate"
  <2>1. page' = [page EXCEPT !.gate = IF @ = r.id THEN Nothing ELSE @]
    BY <1>4 DEF Receive, OpensGate
  <2>2. page'.st = page.st
    BY <2>1, PageStays DEF Overlay
  <2>3. QED
    BY <2>2 DEF LetsGo
<1>5. CASE r.type = "accept"
  <2>1. AcceptAnswered(r)
    BY <1>5 DEF Receive
  <2>2. CASE r.ok
    BY <1>1, <1>2, <1>3, <1>5, <2>1, <2>2 DEF AcceptAnswered, Reason, Decision
  <2>3. CASE ~r.ok
    <3>1. page' = [page EXCEPT !.st = "CYCLING", !.saving = IF @ = r.id THEN Nothing ELSE @]
      BY <2>1, <2>3 DEF AcceptAnswered
    <3>2. page'.st = "CYCLING"
      BY <3>1, PageStays DEF Overlay
    <3>3. QED
      BY <3>2 DEF LetsGo
  <2>4. QED
    BY <2>2, <2>3
<1>6. CASE r.type = "discard"
  BY <1>1, <1>2, <1>3, <1>6 DEF Receive, DiscardAnswered, Reason, Decision
<1>7. CASE r.type = "checkpoint"
  BY <1>1, <1>3, <1>7 DEF Receive, Refused, Reason
<1>8. QED
  BY <1>1, <1>4, <1>5, <1>6, <1>7 DEF Response, Decision

LEMMA DeliverHasReason ==
    ASSUME PageInv, LetsGo, Deliver
    PROVE  Reason
<1> DEFINE msg == Head(sse)
<1>1. sse # <<>> /\ page.saving = page.cur /\ page' # page
  BY DEF Deliver, PageInv, SavesCurrent, LetsGo
<1>2. /\ sse \in Seq(Answer \cup Greeting) /\ 1 \in DOMAIN sse /\ msg = sse[1]
      /\ msg \in Answer \cup Greeting
  <2>1. sse \in Seq(Answer \cup Greeting)
    BY DEF PageInv, TypeOK
  <2>2. QED
    BY <1>1, <2>1, HeadTailProperties, LenProperties, EmptySeq
<1>3. msg.type \in Verdict => store[msg.id].canceled
  BY <1>2 DEF PageInv, ToldIsJournalled
<1> HIDE DEF msg
<1>4. CASE msg.type = "connected"
  <2>1. Connected(msg.sessions)
    BY <1>4 DEF Deliver, msg
  <2>2. \A p : Checkpoints(p) => page' = p
    BY DEF Checkpoints
  <2>3. \A id, arrived, file : RestoredPage(page, id, arrived, file).st = "GENERATING"
    BY PageStays DEF RestoredPage, Overlay
  <2>4. \/ \E id, arrived, file : page' = RestoredPage(page, id, arrived, file)
        \/ page' = Learns(page, msg.sessions)
    BY <2>1, <2>2 DEF Connected
  <2>5. Learns(page, msg.sessions).st = page.st
    BY PageStays DEF Learns, Overlay
  <2>6. QED
    BY <2>3, <2>4, <2>5 DEF LetsGo
<1>5. CASE msg.type = "done"
  <2>1. DoneTold(msg.id)
    BY <1>5 DEF Deliver, msg
  <2>2. page'.st \in {page.st, "CYCLING"}
    BY <2>1, PageStays DEF DoneTold, Overlay
  <2>3. QED
    BY <2>2 DEF LetsGo
<1>6. CASE msg.type \in {"complete", "carbonize"}
  <2>1. AcceptTold(msg.id)
    BY <1>6 DEF Deliver, msg
  <2>2. page.saving = msg.id \/ page'.st = page.st
    BY <2>1, PageStays DEF AcceptTold, Overlay
  <2>3. QED
    BY <1>1, <1>3, <1>6, <2>2 DEF LetsGo, Reason, Verdict
<1>7. CASE msg.type = "discarded"
  <2>1. DiscardTold(msg.id)
    BY <1>7 DEF Deliver, msg
  <2>2. page.cur = msg.id
    BY <1>1, <2>1 DEF DiscardTold
  <2>3. QED
    BY <1>3, <1>7, <2>2 DEF Reason, Verdict
<1>8. CASE msg.type = "error"
  <2>1. ErrorTold(msg.id)
    BY <1>8 DEF Deliver, msg
  <2>2. CASE page.cur = msg.id
    <3>1. page' = [page EXCEPT !.saving = Nothing, !.result = Nothing, !.st = "CYCLING"]
      BY <1>1, <2>1, <2>2 DEF ErrorTold
    <3>2. page'.st = "CYCLING"
      BY <3>1, PageStays DEF Overlay
    <3>3. QED
      BY <3>2 DEF LetsGo
  <2>3. CASE page.cur # msg.id
    BY <1>1, <1>8, <2>3 DEF Reason, msg
  <2>4. QED
    BY <2>2, <2>3
<1>9. CASE msg.type \notin {"connected", "done", "complete", "carbonize", "discarded", "error"}
  BY <1>1, <1>9 DEF Deliver, msg
<1>10. QED
  BY <1>4, <1>5, <1>6, <1>7, <1>8, <1>9

LEMMA StepHasReason ==
    ASSUME PageInv, LetsGo, [Next]_vars
    PROVE  Reason
<1>1. page' # page /\ page.st = "SAVING" /\ page'.st = "PICKING"
  BY DEF LetsGo
<1>2. CASE \E s \in Session, annotated \in BOOLEAN : Go(s, annotated)
  BY <1>1, <1>2 DEF Go
<1>3. CASE \E s \in page.capturing : Captured(s)
  <2>1. PICK s \in page.capturing : Captured(s)
    BY <1>3
  <2>2. page' = [page EXCEPT !.capturing = @ \ {s}, !.gate = s]
    BY <2>1 DEF Captured
  <2>3. page'.st = page.st
    BY <2>2, PageStays DEF Overlay
  <2>4. QED
    BY <1>1, <2>3
<1>4. CASE ClicksAccept \/ ClicksDiscard
  BY <1>1, <1>4 DEF ClicksAccept, ClicksDiscard
<1>5. CASE \E req \in net : HandlePost(req)
  BY <1>1, <1>5 DEF HandlePost
<1>6. CASE \E r \in resp : Receive(r)
  BY <1>6, ReceiveHasReason
<1>7. CASE \E f \in fetches : Fetched(f)
  <2>1. PICK f \in fetches : Fetched(f)
    BY <1>7
  <2>2. CASE fetches' = fetches \ {f}
    BY <2>1, <2>2 DEF Reason
  <2>3. CASE page.st = "GENERATING" /\ FindsScaffold(f)
    BY <1>1, <2>3
  <2>4. QED
    BY <1>1, <2>1, <2>2, <2>3
       DEF Fetched, ReadInVain, FindsOrphan, FindsNoAnchor, FindsVariants, FindsScaffold
<1>8. CASE \E s \in Session : HotReload(s)
  <2>1. PICK s \in Session : HotReload(s)
    BY <1>8
  <2> DEFINE p == Searched(page, s)
  <2>2. p \in Overlay /\ p.st = page.st
    BY SearchedFacts
  <2>3. page' = Shown(p, s) \/ page' = [p EXCEPT !.scout = FALSE]
    BY <2>1 DEF HotReload, Checkpoints
  <2> HIDE DEF p
  <2>4. page'.st = "CYCLING" \/ page'.st = page.st
    BY <2>2, <2>3, ShownFacts DEF Overlay
  <2>5. QED
    BY <1>1, <2>4
<1>9. CASE \E s \in Session : WrapperLeaves(s)
  BY <1>1, <1>9 DEF WrapperLeaves
<1>10. CASE Deliver
  BY <1>10, DeliverHasReason
<1>11. CASE Connect \/ Drop \/ UNCHANGED vars
  BY <1>1, <1>11 DEF Connect, Drop, vars, pageVars
<1>12. CASE Reload \/ AnchorShows
  <2>1. faults' = faults + 1
    BY <1>12 DEF Reload, AnchorShows
  <2>2. faults' # faults
    BY <2>1, Counted, PageOK
  <2>3. QED
    BY <2>2 DEF Reason
<1>13. CASE \E s \in Session : Works(s) /\ UNCHANGED <<pageVars, faults, decisions>>
  BY <1>1, <1>13 DEF pageVars
<1>14. QED
  BY <1>2, <1>3, <1>4, <1>5, <1>6, <1>7, <1>8, <1>9, <1>10, <1>11, <1>12, <1>13 DEF Next

\* The page lets go of a session it is saving only when the decision is in
\* the journal, at a reload, when a checkpoint of the session was refused,
\* when a late read finds no variants in the source, or when what is said of
\* another session is taken for the current one.
\* live-browser.js, handleAccept, handleDiscard and the error message.
THEOREM LetGoForAReason == Spec => AcceptIsDurable
<1>1. PageInv /\ [Next]_vars => [LetsGo => Reason]_vars
  BY StepHasReason
<1>2. [LetsGo => Reason]_vars
        => [page.st = "SAVING" /\ page.cur # Nothing /\ page'.st = "PICKING"
              => \/ store[page.cur].canceled
                 \/ faults' # faults
                 \/ fetches \ fetches' # {}
                 \/ \E r \in resp \ resp' : r.type = "checkpoint" /\ r.id = page.cur
                 \/ \E r \in resp \ resp' : r.type = "discard" /\ r.ok /\ r.id # page.cur
                 \/ sse # <<>> /\ Head(sse).type = "error" /\ Head(sse).id # page.cur]_vars
  BY DEF LetsGo, Reason
<1>3. QED
  BY <1>1, <1>2, PageInvariant, PTL DEF Spec, AcceptIsDurable

-----------------------------------------------------------------------------
(* A session is created once, and ends once *)

Ended(snap) == snap.canceled => snap.phase \in Fenced \cup {"agent_error"}

LEMMA NewIsNotEnded == "new" \notin Fenced \cup {"agent_error"} /\ "open" # "new"
BY DEF Fenced, Closed

LEMMA EndEnds ==
    ASSUME NEW snap \in Snapshot, NEW phase \in Closed \cup {"agent_error"}
    PROVE  Known(AfterEnd(snap, phase)) /\ Ended(AfterEnd(snap, phase))
<1>1. phase \in Fenced \cup {"agent_error"} /\ phase # "new"
  BY DEF Fenced, Closed
<1>2. AfterEnd(snap, phase).phase = phase
  BY DEF AfterEnd, Snapshot
<1>3. QED
  BY <1>1, <1>2 DEF Known, Ended

\* An answer to a session that is known.
LEMMA ReplyEnds ==
    ASSUME NEW snap \in Snapshot, Known(snap), Ended(snap), NEW acked,
           NEW reply \in Verdict \cup {"done", "error"}
    PROVE  LET next == AfterReply(snap, reply, acked, reply = "carbonize") IN
           Known(next) /\ Ended(next)
<1>1. CASE reply \in {"discarded", "complete"}
  BY <1>1, EndEnds DEF AfterReply, Closed
<1>2. CASE reply = "error"
  <2>1. AfterReply(snap, reply, acked, reply = "carbonize") \in {snap, AfterEnd(snap, "agent_error")}
    BY <1>2 DEF AfterReply, AfterError
  <2>2. QED
    BY <2>1, EndEnds
<1>3. CASE reply \in {"done", "carbonize"}
  <2> DEFINE next == AfterDone(snap, reply = "carbonize")
             phase == IF reply = "carbonize" THEN "carbonize_required" ELSE "open"
  <2>1. AfterReply(snap, reply, acked, reply = "carbonize") = next
    BY <1>3 DEF AfterReply
  <2>2. CASE next = snap
    BY <2>1, <2>2
  <2>3. CASE /\ next = [snap EXCEPT !.phase = phase, !.completed = TRUE, !.pending = Nothing]
             /\ reply = "carbonize" \/ ~Canceled(snap)
    <3>1. next.phase = phase /\ next.canceled = snap.canceled
      BY <2>3 DEF Snapshot
    <3>2. phase # "new"
      OBVIOUS
    <3>3. snap.canceled => phase \in Fenced
      BY <2>3 DEF Canceled, Fenced
    <3> HIDE DEF next, phase
    <3>4. QED
      BY <2>1, <3>1, <3>2, <3>3 DEF Known, Ended
  <2>4. QED
    BY <2>2, <2>3 DEF AfterDone
<1>4. QED
  BY <1>1, <1>2, <1>3 DEF Verdict

\* An event the server journals: a generate of a session it does not know, or
\* any other of one it knows.
LEMMA JournalledEnds ==
    ASSUME NEW snap \in Snapshot, Ended(snap), NEW req \in Post,
           req.type = "generate" <=> ~Known(snap)
    PROVE  Known(Journalled(snap, req)) /\ Ended(Journalled(snap, req))
<1>1. CASE req.type = "generate"
  <2>1. ~snap.canceled
    BY <1>1, NewIsNotEnded DEF Known, Ended
  <2>2. /\ AfterGenerate(snap, Generate(FALSE)).phase = "open"
        /\ AfterGenerate(snap, Generate(FALSE)).canceled = snap.canceled
    BY DEF AfterGenerate, Snapshot
  <2>3. Journalled(snap, req) = AfterGenerate(snap, Generate(FALSE))
    BY <1>1 DEF Journalled
  <2>4. QED
    BY <2>1, <2>2, <2>3, NewIsNotEnded DEF Known, Ended
<1>2. CASE req.type = "checkpoint"
  <2>1. Journalled(snap, req) = AfterCheckpoint(snap)
    BY <1>2 DEF Journalled
  <2>2. CASE Canceled(snap)
    BY <1>2, <2>1, <2>2 DEF AfterCheckpoint
  <2>3. CASE ~Canceled(snap)
    <3>1. AfterCheckpoint(snap).phase = "open" /\ AfterCheckpoint(snap).canceled = snap.canceled
      BY <2>3 DEF AfterCheckpoint, Snapshot
    <3>2. ~snap.canceled
      BY <2>3 DEF Canceled
    <3>3. QED
      BY <2>1, <3>1, <3>2, NewIsNotEnded DEF Known, Ended
  <2>4. QED
    BY <2>2, <2>3
<1>3. CASE req.type = "orphaned"
  <2>1. Journalled(snap, req) = AfterEnd(AfterDecision(snap, "discard"), "discarded")
    BY <1>3 DEF Journalled
  <2>2. AfterDecision(snap, "discard") \in Snapshot
    BY DecisionFences DEF Decision
  <2>3. QED
    BY <2>1, <2>2, EndEnds DEF Closed
<1>4. CASE req.type \in Decision
  <2>1. Journalled(snap, req) = AfterDecision(snap, req.type)
    BY <1>4 DEF Journalled, Decision
  <2>2. AfterDecision(snap, req.type).phase \in {"accept_requested", "discard_requested"}
    BY DEF AfterDecision, Snapshot
  <2>3. QED
    BY <2>1, <2>2 DEF Known, Ended, Fenced
<1>5. QED
  BY <1>1, <1>2, <1>3, <1>4 DEF Post

\* Steps that create no session and post no creation.
QuietPosts ==
    /\ \A req \in net' : req \in net \/ req.type # "generate"
    /\ \A held \in gated' : held \in gated \/ held.req.type # "generate"
    /\ page'.capturing \subseteq page.capturing

LEMMA QuietKeeps ==
    ASSUME CreatedOnce, QuietPosts,
           \A s \in Session : Known(store'[s]) <=> Known(store[s]),
           \A s \in Session : working'[s] # "no" => working[s] # "no",
           net \subseteq Post, page.capturing \subseteq Session
    PROVE  CreatedOnce'
<1>1. \A req \in net' : req.type = "generate" => req \in net /\ req.id \in Session
  BY DEF QuietPosts, Post
<1>2. \A req \in net' : req.type = "generate" =>
        /\ ~Known(store'[req.id]) /\ req.id \notin page'.capturing
        /\ \A other \in net' : other.type = "generate" /\ other.id = req.id => other = req
  BY <1>1 DEF CreatedOnce, QuietPosts
<1>3. \A held \in gated' : held.req.type # "generate"
  BY DEF CreatedOnce, QuietPosts
<1>4. \A s \in page'.capturing : ~Known(store'[s])
  BY DEF CreatedOnce, QuietPosts
<1>5. \A s \in Session : working'[s] # "no" => Known(store'[s])
  BY DEF CreatedOnce
<1>6. QED
  BY <1>2, <1>3, <1>4, <1>5 DEF CreatedOnce

LEMMA ServerQuiet ==
    ASSUME PageInv, CreatedOnce, CanceledStaysFenced, QuietPosts, UNCHANGED <<store, working>>
    PROVE  CreatedOnce' /\ CanceledStaysFenced'
<1>1. net \subseteq Post /\ page.capturing \subseteq Session
  BY PageStays
<1>2. CreatedOnce'
  BY <1>1, QuietKeeps
<1>3. CanceledStaysFenced'
  BY DEF CanceledStaysFenced
<1>4. QED
  BY <1>2, <1>3

\* A step of an agent.
LEMMA AnsweredOnce ==
    ASSUME PageInv, CreatedOnce, CanceledStaysFenced, NEW s \in Session, Known(store[s]),
           NEW reply \in Verdict \cup {"done", "error"}, NEW acked, Answered(s, reply, acked),
           \A r \in Session : working'[r] # "no" => working[r] # "no",
           UNCHANGED pageVars
    PROVE  CreatedOnce' /\ CanceledStaysFenced'
<1> DEFINE next == AfterReply(store[s], reply, acked, reply = "carbonize")
<1>1. store \in [Session -> Snapshot] /\ \A r \in Session : Ended(store[r])
  BY DEF PageInv, TypeOK, CanceledStaysFenced, Ended
<1>2. Known(next) /\ Ended(next)
  BY <1>1, ReplyEnds
<1>3. store' = [store EXCEPT ![s] = next]
  BY DEF Answered
<1> HIDE DEF next
<1>4. /\ \A r \in Session : Ended(store'[r])
      /\ \A r \in Session : Known(store'[r]) <=> Known(store[r])
  BY <1>1, <1>2, <1>3
<1>5. QuietPosts
  BY DEF pageVars, QuietPosts
<1>6. CreatedOnce'
  <2>1. net \subseteq Post /\ page.capturing \subseteq Session
    BY PageStays
  <2>2. QED
    BY <1>4, <1>5, <2>1, QuietKeeps
<1>7. CanceledStaysFenced'
  BY <1>4 DEF CanceledStaysFenced, Ended
<1>8. QED
  BY <1>6, <1>7

LEMMA WorksOnce ==
    ASSUME PageInv, CreatedOnce, CanceledStaysFenced, NEW s \in Session, Works(s),
           UNCHANGED pageVars
    PROVE  CreatedOnce' /\ CanceledStaysFenced'
<1>1. /\ working \in [Session -> {"no", "asked", "written"}]
      /\ working[s] # "no" => Known(store[s])
  BY DEF PageInv, TypeOK, CreatedOnce
<1>2. CASE AgentWrites(s)
  <2>1. working' = [working EXCEPT ![s] = "written"] /\ working[s] # "no" /\ UNCHANGED store
    BY <1>2 DEF AgentWrites
  <2>2. \A r \in Session : working'[r] # "no" => working[r] # "no"
    BY <1>1, <2>1
  <2>3. QuietPosts
    BY DEF pageVars, QuietPosts
  <2>4. CreatedOnce'
    BY <2>1, <2>2, <2>3, QuietKeeps, PageStays
  <2>5. CanceledStaysFenced'
    BY <2>1 DEF CanceledStaysFenced
  <2>6. QED
    BY <2>4, <2>5
<1>3. CASE AgentReports(s)
  <2>1. PICK reply \in {"done", "error"} : Answered(s, reply, "generate")
    BY <1>3 DEF AgentReports
  <2>2. working' = [working EXCEPT ![s] = "no"] /\ working[s] # "no"
    BY <1>3 DEF AgentReports
  <2>3. \A r \in Session : working'[r] # "no" => working[r] # "no"
    BY <1>1, <2>2
  <2>4. QED
    BY <1>1, <2>1, <2>2, <2>3, AnsweredOnce
<1>4. CASE AgentDecides(s)
  <2>1. PICK reply \in Verdict \cup {"error"} : Answered(s, reply, store[s].pending.type)
    BY <1>4 DEF AgentDecides, Verdict
  <2>2. store[s].canceled
    BY <1>4 DEF AgentDecides, PageInv, DecisionsCancel
  <2>3. Known(store[s])
    BY <2>2, NewIsNotEnded DEF CanceledStaysFenced, Known
  <2>4. \A r \in Session : working'[r] # "no" => working[r] # "no"
    BY <1>4 DEF AgentDecides
  <2>5. QED
    BY <2>1, <2>3, <2>4, AnsweredOnce
<1>5. CASE AgentCompletes(s)
  <2>1. Answered(s, "complete", "accept") /\ UNCHANGED working /\ "complete" \in Verdict
    BY <1>5 DEF AgentCompletes, Verdict
  <2>2. Known(store[s])
    BY <1>5 DEF AgentCompletes, Known
  <2>3. \A r \in Session : working'[r] # "no" => working[r] # "no"
    BY <2>1
  <2>4. QED
    BY <2>1, <2>2, <2>3, AnsweredOnce
<1>6. QED
  BY <1>2, <1>3, <1>4, <1>5 DEF Works

LEMMA HandlePostOnce ==
    ASSUME PageInv, CreatedOnce, CanceledStaysFenced, NEW req \in net, HandlePost(req)
    PROVE  CreatedOnce' /\ CanceledStaysFenced'
<1>1. /\ net' = net \ {req} /\ gated' = gated /\ page' = page
      /\ IF Unknown(req) THEN UNCHANGED serverVars ELSE Posted(req)
  BY DEF HandlePost
<1>2. /\ req \in Post /\ req.id \in Session /\ net \subseteq Post
      /\ page.capturing \subseteq Session
  BY PageStays DEF Post
<1>3. QuietPosts
  BY <1>1 DEF QuietPosts
<1>4. CASE Unknown(req)
  <2>1. UNCHANGED <<store, working>>
    BY <1>1, <1>4 DEF serverVars
  <2>2. QED
    BY <1>3, <2>1, ServerQuiet
<1>5. CASE ~Unknown(req)
  <2> DEFINE next == Journalled(store[req.id], req)
  <2>1. store \in [Session -> Snapshot] /\ \A r \in Session : Ended(store[r])
    BY DEF PageInv, TypeOK, CanceledStaysFenced, Ended
  <2>2. req.type = "generate" <=> ~Known(store[req.id])
    BY <1>5 DEF Unknown, CreatedOnce
  <2>3. Known(next) /\ Ended(next)
    BY <1>2, <2>1, <2>2, JournalledEnds
  <2>4. store' = [store EXCEPT ![req.id] = next]
    BY <1>1, <1>5 DEF Posted
  <2> HIDE DEF next
  <2>5. /\ \A r \in Session : Ended(store'[r])
        /\ \A r \in Session \ {req.id} : store'[r] = store[r]
        /\ Known(store'[req.id])
    BY <1>2, <2>1, <2>3, <2>4
  <2>6. CanceledStaysFenced'
    BY <2>5 DEF CanceledStaysFenced, Ended
  <2>7. CASE req.type # "generate"
    <3>1. working' = working
      BY <1>1, <1>5, <2>7 DEF Posted
    <3>2. \A r \in Session : Known(store'[r]) <=> Known(store[r])
      BY <2>2, <2>5, <2>7
    <3>3. CreatedOnce'
      BY <1>2, <1>3, <3>1, <3>2, QuietKeeps
    <3>4. QED
      BY <2>6, <3>3
  <2>8. CASE req.type = "generate"
    <3>1. working' = [working EXCEPT ![req.id] = "asked"]
      BY <1>1, <1>5, <2>8 DEF Posted
    <3>2. \A r \in Session \ {req.id} : working'[r] = working[r]
      BY <3>1 DEF PageInv, TypeOK
    <3>3. \A other \in net' : other.type = "generate" =>
            other \in net /\ other.id \in Session \ {req.id}
      BY <1>1, <1>2, <2>8 DEF CreatedOnce, Post
    <3>4. \A other \in net' : other.type = "generate" =>
            /\ ~Known(store'[other.id]) /\ other.id \notin page'.capturing
            /\ \A third \in net' : third.type = "generate" /\ third.id = other.id => third = other
      BY <1>1, <2>5, <3>3 DEF CreatedOnce
    <3>5. \A s \in page'.capturing : ~Known(store'[s])
      BY <1>1, <1>2, <2>5, <2>8 DEF CreatedOnce
    <3>6. \A s \in Session : working'[s] # "no" => Known(store'[s])
      BY <2>5, <3>2 DEF CreatedOnce
    <3>7. CreatedOnce'
      BY <1>1, <3>4, <3>5, <3>6 DEF CreatedOnce
    <3>8. QED
      BY <2>6, <3>7
  <2>9. QED
    BY <2>7, <2>8
<1>6. QED
  BY <1>4, <1>5

-----------------------------------------------------------------------------
(* The page's steps, as they create sessions *)

LEMMA TypesPosted ==
    ASSUME NEW type, NEW s, NEW behind
    PROVE  /\ Request(type, s).type = type /\ Request(type, s).id = s
           /\ Checkpoint(s, behind).type = "checkpoint"
BY DEF Request, Checkpoint

LEMMA SendQuiet ==
    ASSUME NEW p, NEW req, req.type # "generate", Send(p, req), page'.capturing = page.capturing
    PROVE  QuietPosts
<1>1. /\ net' = net \cup Sent(p, req) /\ gated' = gated \cup Held(p, req)
      /\ Sent(p, req) \subseteq {req} /\ \A held \in Held(p, req) : held.req = req
  BY DEF Send, Sent, Held
<1>2. QED
  BY <1>1 DEF QuietPosts

LEMMA StaysQuiet ==
    ASSUME net' = net, gated' = gated, page'.capturing = page.capturing
    PROVE  QuietPosts
BY DEF QuietPosts

LEMMA CheckpointsQuiet ==
    ASSUME NEW p, Checkpoints(p), p.capturing = page.capturing
    PROVE  QuietPosts
<1>1. page' = p /\ Send(p, Checkpoint(p.cur, ~p.arrived))
  BY DEF Checkpoints
<1>2. Checkpoint(p.cur, ~p.arrived).type # "generate"
  BY TypesPosted
<1>3. QED
  BY <1>1, <1>2, SendQuiet

LEMMA CapturingStays ==
    ASSUME NEW p \in Overlay, NEW s, NEW arrived, NEW file
    PROVE  /\ CleanedUp(p).capturing = p.capturing /\ Shown(p, s).capturing = p.capturing
           /\ [CleanedUp(p) EXCEPT !.anchor = p.anchor].capturing = p.capturing
           /\ RestoredPage(p, s, arrived, file).capturing = p.capturing
           /\ Searched(p, s).capturing = p.capturing
BY DEF CleanedUp, Shown, RestoredPage, Searched, Overlay

LEMMA EndsQuiet ==
    ASSUME NEW p \in Overlay, p.capturing = page.capturing, NEW id,
           Ends(p, id) \/ EndsAccepted(p, id), net' = net, gated' = gated
    PROVE  QuietPosts
BY CapturingStays, StaysQuiet DEF Ends, EndsAccepted

\* The event that creates s is posted, or will be once the screenshot is taken.
LEMMA PostedOnce ==
    ASSUME CreatedOnce, UNCHANGED <<store, working>>, NEW s \in Session, ~Known(store[s]),
           \A req \in net : req.type = "generate" => req.id # s,
           \A req \in net' : req \in net \/ req.type # "generate" \/ req = Request("generate", s),
           \A held \in gated' : held \in gated \/ held.req.type # "generate",
           page'.capturing \subseteq page.capturing \cup {s},
           s \notin page'.capturing \/ Request("generate", s) \notin net'
    PROVE  CreatedOnce'
<1>1. \A req \in net' : req.type = "generate" =>
        \/ req \in net /\ req.id # s
        \/ req = Request("generate", s) /\ req.id = s /\ s \notin page'.capturing
  BY TypesPosted
<1>2. \A req \in net' : req.type = "generate" =>
        /\ ~Known(store'[req.id]) /\ req.id \notin page'.capturing
        /\ \A other \in net' : other.type = "generate" /\ other.id = req.id => other = req
  BY <1>1 DEF CreatedOnce
<1>3. \A held \in gated' : held.req.type # "generate"
  BY DEF CreatedOnce
<1>4. \A r \in page'.capturing : ~Known(store'[r])
  BY DEF CreatedOnce
<1>5. \A r \in Session : working'[r] # "no" => Known(store'[r])
  BY DEF CreatedOnce
<1>6. QED
  BY <1>2, <1>3, <1>4, <1>5 DEF CreatedOnce

LEMMA GoOnce ==
    ASSUME PageInv, CreatedOnce, CanceledStaysFenced, NEW s \in Session, NEW annotated \in BOOLEAN,
           Go(s, annotated)
    PROVE  CreatedOnce' /\ CanceledStaysFenced'
<1> DEFINE started == Checkpoint(s, TRUE)
<1>1. /\ page' = [page EXCEPT !.st = "GENERATING", !.cur = s, !.arrived = FALSE,
                              !.saving = Nothing, !.result = Nothing,
                              !.gate = IF annotated THEN @ ELSE s,
                              !.capturing = IF annotated THEN @ \cup {s} ELSE @]
      /\ net' = net \cup Sent(page, started)
                   \cup (IF annotated THEN {} ELSE {Request("generate", s)})
      /\ gated' = gated \cup Held(page, started)
      /\ Unused(s) /\ UNCHANGED serverVars
  BY DEF Go
<1>2. page'.capturing = IF annotated THEN page.capturing \cup {s} ELSE page.capturing
  BY <1>1, PageStays DEF Overlay
<1>3. UNCHANGED <<store, working>>
  BY <1>1 DEF serverVars
<1>4. ~Known(store[s]) /\ s \notin page.capturing /\ \A req \in net : req.id # s
  BY <1>1 DEF Unused, Known, NewSession
<1>5. started.type # "generate" /\ Request("generate", s).type = "generate"
  BY TypesPosted
<1> HIDE DEF started
<1>6. /\ started # Request("generate", s)
      /\ Sent(page, started) \subseteq {started}
      /\ \A held \in Held(page, started) : held.req = started
  BY <1>5 DEF Sent, Held
<1>7. \A req \in net' : req \in net \/ req.type # "generate" \/ req = Request("generate", s)
  BY <1>1, <1>5, <1>6
<1>8. \A held \in gated' : held \in gated \/ held.req.type # "generate"
  BY <1>1, <1>5, <1>6
<1>9. s \notin page'.capturing \/ Request("generate", s) \notin net'
  <2>1. Request("generate", s) \notin net
    BY <1>4, TypesPosted
  <2>2. QED
    BY <1>1, <1>2, <1>4, <1>5, <1>6, <2>1
<1>10. CreatedOnce'
  BY <1>2, <1>3, <1>4, <1>7, <1>8, <1>9, PostedOnce
<1>11. QED
  BY <1>3, <1>10 DEF CanceledStaysFenced

LEMMA CapturedOnce ==
    ASSUME PageInv, CreatedOnce, CanceledStaysFenced, NEW s \in page.capturing, Captured(s)
    PROVE  CreatedOnce' /\ CanceledStaysFenced'
<1>1. /\ page' = [page EXCEPT !.capturing = @ \ {s}, !.gate = s]
      /\ net' = net \cup {Request("generate", s)} /\ gated' = gated /\ UNCHANGED serverVars
  BY DEF Captured
<1>2. page'.capturing = page.capturing \ {s} /\ s \in Session
  BY <1>1, PageStays DEF Overlay
<1>3. UNCHANGED <<store, working>>
  BY <1>1 DEF serverVars
<1>4. ~Known(store[s]) /\ \A req \in net : req.type = "generate" => req.id # s
  BY DEF CreatedOnce
<1>5. CreatedOnce'
  BY <1>1, <1>2, <1>3, <1>4, PostedOnce
<1>6. QED
  BY <1>3, <1>5 DEF CanceledStaysFenced

LEMMA ClicksQuiet ==
    ASSUME PageInv, ClicksAccept \/ ClicksDiscard
    PROVE  QuietPosts /\ UNCHANGED <<store, working>>
<1>1. UNCHANGED <<store, working>>
  BY DEF ClicksAccept, ClicksDiscard, serverVars
<1>2. CASE ClicksAccept
  <2> DEFINE p == [page EXCEPT !.st = "SAVING", !.saving = page.cur]
  <2>1. page' = p /\ Send(p, Request("accept", page.cur))
    BY <1>2 DEF ClicksAccept
  <2>2. p.capturing = page.capturing
    BY PageStays DEF Overlay
  <2> HIDE DEF p
  <2>3. QED
    BY <1>1, <2>1, <2>2, SendQuiet, TypesPosted
<1>3. CASE ClicksDiscard
  <2>1. page' = page /\ Send(page, Request("discard", page.cur))
    BY <1>3 DEF ClicksDiscard
  <2>2. QED
    BY <1>1, <2>1, SendQuiet, TypesPosted
<1>4. QED
  BY <1>2, <1>3

LEMMA ReceiveQuiet ==
    ASSUME PageInv, CreatedOnce, NEW r \in resp, Receive(r)
    PROVE  QuietPosts /\ UNCHANGED <<store, working>>
<1>1. UNCHANGED <<store, working>>
  BY DEF Receive, serverVars
<1>2. OpensGate(r) \/ AcceptAnswered(r) \/ DiscardAnswered(r) \/ Refused(r)
  BY DEF Receive
<1>3. page \in Overlay
  BY PageStays
<1>4. CASE OpensGate(r)
  <2>1. page'.capturing = page.capturing
    BY <1>3, <1>4 DEF OpensGate, Overlay
  <2>2. /\ \A req \in net' : req \in net \/ \E held \in gated : req = held.req
        /\ gated' \subseteq gated
    BY <1>4 DEF OpensGate
  <2>3. QED
    BY <1>1, <2>1, <2>2 DEF QuietPosts, CreatedOnce
<1>5. CASE AcceptAnswered(r)
  <2>1. net' = net /\ gated' = gated
    BY <1>5 DEF AcceptAnswered
  <2>2. \/ \E p \in Overlay : p.capturing = page.capturing /\ EndsAccepted(p, r.id)
        \/ page'.capturing = page.capturing
    <3> DEFINE p == [page EXCEPT !.saving = Nothing, !.result = r.id]
    <3>1. r.id \in Maybe
      BY DEF PageInv, TypeOK, Response, Maybe
    <3>2. p \in Overlay /\ p.capturing = page.capturing
      BY <1>3, <3>1 DEF Overlay, Maybe
    <3>3. CASE r.ok /\ page.saving = r.id
      <4>1. EndsAccepted(p, r.id)
        BY <1>5, <3>3 DEF AcceptAnswered
      <4> HIDE DEF p
      <4>2. QED
        BY <3>2, <4>1
    <3>4. CASE ~(r.ok /\ page.saving = r.id)
      BY <1>3, <1>5, <3>4 DEF AcceptAnswered, Overlay
    <3>5. QED
      BY <3>3, <3>4
  <2>3. QED
    BY <1>1, <2>1, <2>2, EndsQuiet, StaysQuiet
<1>6. CASE DiscardAnswered(r) \/ Refused(r)
  <2>1. /\ net' = net /\ gated' = gated
        /\ page' = page \/ \E id : Ends(page, id)
    BY <1>6 DEF DiscardAnswered, Refused
  <2>2. QED
    BY <1>1, <1>3, <2>1, EndsQuiet, StaysQuiet
<1>7. QED
  BY <1>2, <1>4, <1>5, <1>6

LEMMA ShowsQuiet ==
    ASSUME PageInv, NEW s \in Session, HotReload(s) \/ WrapperLeaves(s) \/ AnchorShows
    PROVE  QuietPosts /\ UNCHANGED <<store, working>>
<1> DEFINE p == Searched(page, s)
<1>1. UNCHANGED <<store, working>>
  BY DEF HotReload, WrapperLeaves, AnchorShows, serverVars
<1>2. page \in Overlay /\ p \in Overlay /\ p.capturing = page.capturing
  BY PageStays, SearchedFacts, CapturingStays
<1>3. \/ Checkpoints(Shown(p, s))
      \/ /\ net' = net /\ gated' = gated
         /\ page' \in {page, [p EXCEPT !.scout = FALSE], Searched(page, page.anchor)}
  BY DEF HotReload, WrapperLeaves, AnchorShows
<1> HIDE DEF p
<1>4. CASE Checkpoints(Shown(p, s))
  BY <1>1, <1>2, <1>4, CapturingStays, CheckpointsQuiet
<1>5. CASE /\ net' = net /\ gated' = gated
           /\ page' \in {page, [p EXCEPT !.scout = FALSE], Searched(page, page.anchor)}
  <2>1. page'.capturing = page.capturing
    BY <1>2, <1>5, CapturingStays DEF Overlay
  <2>2. QED
    BY <1>1, <1>5, <2>1, StaysQuiet
<1>6. QED
  BY <1>3, <1>4, <1>5

LEMMA PlacesQuiet ==
    ASSUME NEW p \in Overlay, p.capturing = page.capturing, NEW id, NEW kept, Places(p, id, kept)
    PROVE  QuietPosts
<1> DEFINE q == [p EXCEPT !.cur = id, !.scout = FALSE,
                          !.st = IF p.arrived THEN "CYCLING" ELSE "GENERATING"]
           r == [p EXCEPT !.scout = FALSE]
<1>1. q.capturing = page.capturing /\ r.capturing = page.capturing
  BY DEF Overlay
<1>2. Checkpoints(q) \/ (page' = r /\ UNCHANGED <<net, gated>>)
  BY DEF Places
<1> HIDE DEF q, r
<1>3. QED
  BY <1>1, <1>2, CheckpointsQuiet, StaysQuiet

LEMMA FetchedQuiet ==
    ASSUME PageInv, NEW f \in fetches, Fetched(f)
    PROVE  QuietPosts /\ UNCHANGED <<store, working>>
<1>1. UNCHANGED <<store, working>>
  BY FetchedFacts DEF serverVars
<1>2. page \in Overlay /\ f.id \in Session
  BY PageStays DEF Fetch
<1>3. CASE ReadInVain(f)
  BY <1>1, <1>3, StaysQuiet DEF ReadInVain
<1>4. CASE FindsOrphan(f)
  <2>1. Ends(page, f.id) /\ Send(page, Request("orphaned", f.id))
    BY <1>4 DEF FindsOrphan
  <2>2. page'.capturing = page.capturing
    BY <1>2, <2>1, CapturingStays DEF Ends
  <2>3. QED
    BY <1>1, <2>1, <2>2, SendQuiet, TypesPosted
<1>5. CASE FindsNoAnchor(f)
  <2> DEFINE p == [page EXCEPT !.st = "GENERATING", !.anchor = f.id]
  <2>1. Checkpoints(p) \/ (page' = p /\ UNCHANGED <<net, gated>>)
    BY <1>5 DEF FindsNoAnchor
  <2>2. p.capturing = page.capturing
    BY <1>2 DEF Overlay
  <2> HIDE DEF p
  <2>3. QED
    BY <1>1, <2>1, <2>2, CheckpointsQuiet, StaysQuiet
<1>6. CASE FindsVariants(f)
  <2> DEFINE p == [page EXCEPT !.st = "CYCLING", !.arrived = TRUE, !.anchor = Nothing]
  <2>1. \E kept : Places(p, f.id, kept)
    BY <1>6 DEF FindsVariants
  <2>2. p \in Overlay /\ p.capturing = page.capturing
    BY <1>2 DEF Overlay, State, Maybe
  <2> HIDE DEF p
  <2>3. QED
    BY <1>1, <2>1, <2>2, PlacesQuiet
<1>7. CASE FindsScaffold(f)
  <2> DEFINE p == [page EXCEPT !.arrived = FALSE, !.anchor = Nothing]
  <2>1. Places(p, f.id, saved) \/ Places(CleanedUp(p), f.id, Nothing)
    BY <1>7 DEF FindsScaffold
  <2>2. p \in Overlay /\ p.capturing = page.capturing
    BY <1>2 DEF Overlay, Maybe
  <2> HIDE DEF p
  <2>3. CleanedUp(p) \in Overlay /\ CleanedUp(p).capturing = page.capturing
    BY <2>2, CleanedUpFacts, CapturingStays
  <2>4. QED
    BY <1>1, <2>1, <2>2, <2>3, PlacesQuiet
<1>8. QED
  BY <1>3, <1>4, <1>5, <1>6, <1>7, FetchedFacts

LEMMA ToldQuiet ==
    ASSUME PageInv, NEW id, DoneTold(id) \/ AcceptTold(id) \/ DiscardTold(id) \/ ErrorTold(id)
    PROVE  QuietPosts
<1>1. page \in Overlay
  BY PageStays
<1>2. net' = net /\ gated' = gated
  BY DEF DoneTold, AcceptTold, DiscardTold, ErrorTold
<1>3. CASE DoneTold(id)
  <2> DEFINE p == [page EXCEPT !.file = @ \/ id \in named]
  <2>1. page' = p \/ page' = [p EXCEPT !.st = "CYCLING"]
    BY <1>3 DEF DoneTold
  <2>2. p \in Overlay /\ p.capturing = page.capturing
    <3>1. (page.file \/ id \in named) \in BOOLEAN
      OBVIOUS
    <3>2. QED
      BY <1>1, <3>1 DEF Overlay
  <2> HIDE DEF p
  <2>3. page'.capturing = page.capturing
    BY <2>1, <2>2 DEF Overlay
  <2>4. QED
    BY <1>2, <2>3, StaysQuiet
<1>4. CASE AcceptTold(id)
  <2> DEFINE p == [page EXCEPT !.saving = IF @ = id THEN Nothing ELSE @,
                               !.result = IF @ = id THEN Nothing ELSE @]
  <2>1. EndsAccepted(p, id) \/ page' = p
    BY <1>4 DEF AcceptTold
  <2>2. p \in Overlay /\ p.capturing = page.capturing
    BY <1>1 DEF Overlay, Maybe
  <2> HIDE DEF p
  <2>3. QED
    BY <1>2, <2>1, <2>2, EndsQuiet, StaysQuiet
<1>5. CASE DiscardTold(id)
  <2>1. page' = page \/ Ends(page, id)
    BY <1>5 DEF DiscardTold
  <2>2. QED
    BY <1>1, <1>2, <2>1, EndsQuiet, StaysQuiet
<1>6. CASE ErrorTold(id)
  <2>1. CASE Ends(page, id)
    BY <1>1, <1>2, <2>1, EndsQuiet
  <2>2. CASE page' \in {[page EXCEPT !.saving = Nothing, !.result = Nothing, !.st = "CYCLING"],
                        [page EXCEPT !.result = Nothing], [page EXCEPT !.st = "PICKING"]}
    <3>1. page'.capturing = page.capturing
      BY <1>1, <2>2 DEF Overlay
    <3>2. QED
      BY <1>2, <3>1, StaysQuiet
  <2>3. QED
    BY <1>6, <2>1, <2>2 DEF ErrorTold
<1>7. QED
  BY <1>3, <1>4, <1>5, <1>6

LEMMA StreamQuiet ==
    ASSUME PageInv, Deliver \/ Connect \/ Drop
    PROVE  QuietPosts /\ UNCHANGED <<store, working>>
<1>1. UNCHANGED <<store, working>>
  BY DEF Deliver, Connect, Drop
<1>2. page \in Overlay
  BY PageStays
<1>3. CASE Connect \/ Drop
  BY <1>1, <1>3, StaysQuiet DEF Connect, Drop, pageVars
<1>4. CASE Deliver
  <2> DEFINE msg == Head(sse)
  <2>1. CASE DoneTold(msg.id) \/ AcceptTold(msg.id) \/ DiscardTold(msg.id) \/ ErrorTold(msg.id)
    BY <1>1, <2>1, ToldQuiet
  <2>2. CASE page' = page /\ net' = net /\ gated' = gated
    BY <1>1, <2>2, StaysQuiet
  <2>3. CASE Connected(msg.sessions)
    <3>1. \/ \E id, arrived, file : Checkpoints(RestoredPage(page, id, arrived, file))
          \/ page' = Learns(page, msg.sessions) /\ net' = net /\ gated' = gated
      BY <2>3, Zenon DEF Connected
    <3>2. Learns(page, msg.sessions).capturing = page.capturing
      BY <1>2 DEF Learns, Overlay
    <3>3. QED
      BY <1>1, <1>2, <3>1, <3>2, CapturingStays, CheckpointsQuiet, StaysQuiet
  <2>4. QED
    BY <1>4, <2>1, <2>2, <2>3 DEF Deliver
<1>5. QED
  BY <1>3, <1>4

\* After a reload no creation is held back or yet to be posted, and what the
\* old page has posted is as it was, save that nobody awaits the answer.
LEMMA ReloadOnce ==
    ASSUME PageInv, CreatedOnce, CanceledStaysFenced, Reload
    PROVE  CreatedOnce' /\ CanceledStaysFenced'
<1> DEFINE Late(kept) == {[req EXCEPT !.awaited = FALSE] : req \in kept}
           none == [s \in {} |-> NewSession]
           Scanned(s) == [Shown(NewPage, s) EXCEPT !.file = saved # Nothing /\ saved.id = s /\ saved.file]
           Unscouted == [NewPage EXCEPT !.scout = FALSE]
<1>1. gated' = {} /\ UNCHANGED <<store, working>>
  BY DEF Reload
<1>2. PICK shown \in {{}, {s \in Session : source[s]}}, kept \in SUBSET net :
        Resumes(shown, Late(kept))
  BY DEF Reload
<1>3. /\ NewPage \in Overlay /\ NewPage.capturing = {}
      /\ \A s : Shown(NewPage, s).capturing = {} /\ Scanned(s).capturing = {}
      /\ \A s, arrived, file : RestoredPage(Unscouted, s, arrived, file).capturing = {}
  BY NewPageFacts DEF NewPage, Shown, RestoredPage
<1>4. /\ page'.capturing = {}
      /\ net' = Late(kept) \/ \E s, behind : net' = Late(kept) \cup {Checkpoint(s, behind)}
  <2>1. \/ /\ page' = NewPage \/ (\E s : page' = Scanned(s))
              \/ (\E s, arrived, file : page' = RestoredPage(Unscouted, s, arrived, file))
           /\ net' = Late(kept) \/ \E s, behind : net' = Late(kept) \cup {Checkpoint(s, behind)}
    <3> HIDE DEF Late
    <3>1. CASE shown \ {handled} # {}
      BY <1>2, <3>1, Zenon DEF Resumes
    <3>2. CASE shown = {} /\ RestoresSaved(none)
      BY <1>2, <3>2, Zenon DEF Resumes
    <3>3. CASE ~(shown \ {handled} # {}) /\ ~(shown = {} /\ RestoresSaved(none))
      BY <1>2, <3>3 DEF Resumes
    <3>4. QED
      BY <3>1, <3>2, <3>3
  <2> HIDE DEF Late, Scanned, Unscouted
  <2>2. QED
    BY <1>3, <2>1
<1>5. \A late \in Late(kept) : \E req \in net :
        late = [req EXCEPT !.awaited = FALSE] /\ late.type = req.type /\ late.id = req.id
  BY PageStays DEF Post
<1> HIDE DEF Late
<1>6. \A late \in net' : late.type = "generate" => \E req \in net :
        /\ late = [req EXCEPT !.awaited = FALSE]
        /\ req.type = "generate" /\ late.id = req.id /\ req.id \in Session
  BY <1>4, <1>5, TypesPosted, PageStays DEF Post
<1>7. \A late \in net' : late.type = "generate" =>
        /\ ~Known(store'[late.id]) /\ late.id \notin page'.capturing
        /\ \A other \in net' : other.type = "generate" /\ other.id = late.id => other = late
  <2> SUFFICES ASSUME NEW late \in net', late.type = "generate"
               PROVE  /\ ~Known(store'[late.id]) /\ late.id \notin page'.capturing
                      /\ \A other \in net' :
                           other.type = "generate" /\ other.id = late.id => other = late
    OBVIOUS
  <2>1. PICK req \in net : /\ late = [req EXCEPT !.awaited = FALSE]
                           /\ req.type = "generate" /\ late.id = req.id
    BY <1>6
  <2>2. ~Known(store'[late.id]) /\ late.id \notin page'.capturing
    BY <1>1, <1>4, <2>1 DEF CreatedOnce
  <2>3. ASSUME NEW other \in net', other.type = "generate", other.id = late.id
        PROVE  other = late
    <3>1. PICK orig \in net : /\ other = [orig EXCEPT !.awaited = FALSE]
                              /\ orig.type = "generate" /\ other.id = orig.id
      BY <1>6, <2>3
    <3>2. orig = req
      BY <2>1, <2>3, <3>1 DEF CreatedOnce
    <3>3. QED
      BY <2>1, <3>1, <3>2
  <2>4. QED
    BY <2>2, <2>3
<1>8. CreatedOnce'
  BY <1>1, <1>4, <1>7 DEF CreatedOnce
<1>9. QED
  BY <1>1, <1>8 DEF CanceledStaysFenced

LEMMA InitOnce == Init => CreatedOnce /\ CanceledStaysFenced
<1> SUFFICES ASSUME Init PROVE CreatedOnce /\ CanceledStaysFenced
  OBVIOUS
<1>1. /\ net = {} /\ gated = {} /\ page.capturing = {}
      /\ \A s \in Session : working[s] = "no" /\ ~store[s].canceled
  BY DEF Init, NewPage, NewSession
<1>2. QED
  BY <1>1 DEF CreatedOnce, CanceledStaysFenced

LEMMA StepOnce ==
    ASSUME PageInv, CreatedOnce, CanceledStaysFenced, [Next]_vars
    PROVE  CreatedOnce' /\ CanceledStaysFenced'
<1>1. CASE \E s \in Session, annotated \in BOOLEAN : Go(s, annotated)
  BY <1>1, GoOnce
<1>2. CASE \E s \in page.capturing : Captured(s)
  BY <1>2, CapturedOnce
<1>3. CASE ClicksAccept \/ ClicksDiscard
  BY <1>3, ClicksQuiet, ServerQuiet
<1>4. CASE \E req \in net : HandlePost(req)
  BY <1>4, HandlePostOnce
<1>5. CASE \E r \in resp : Receive(r)
  BY <1>5, ReceiveQuiet, ServerQuiet
<1>6. CASE \E f \in fetches : Fetched(f)
  BY <1>6, FetchedQuiet, ServerQuiet
<1>7. CASE (\E s \in Session : HotReload(s) \/ WrapperLeaves(s)) \/ AnchorShows
  <2>1. AnchorShows => page.anchor \in Session
    BY PageStays DEF AnchorShows, Maybe
  <2>2. QED
    BY <1>7, <2>1, ShowsQuiet, ServerQuiet
<1>8. CASE Deliver \/ Connect \/ Drop
  BY <1>8, StreamQuiet, ServerQuiet
<1>9. CASE Reload
  BY <1>9, ReloadOnce
<1>10. CASE \E s \in Session : Works(s) /\ UNCHANGED <<pageVars, faults, decisions>>
  BY <1>10, WorksOnce
<1>11. CASE UNCHANGED vars
  <2>1. UNCHANGED <<store, working>> /\ QuietPosts
    BY <1>11 DEF vars, serverVars, pageVars, QuietPosts
  <2>2. QED
    BY <2>1, ServerQuiet
<1>12. QED
  BY <1>1, <1>2, <1>3, <1>4, <1>5, <1>6, <1>7, <1>8, <1>9, <1>10, <1>11 DEF Next

-----------------------------------------------------------------------------
(* Nothing the page waits for is lost: the server's side *)

Agrees(snap) == (snap.phase \in Fenced => snap.canceled) /\ (snap.completed => Known(snap))

LEMMA EndAgrees ==
    ASSUME NEW snap \in Snapshot, NEW phase \in Closed \cup {"agent_error"},
           phase \in Closed => snap.canceled
    PROVE  Agrees(AfterEnd(snap, phase)) /\ AfterEnd(snap, phase).completed = snap.completed
<1>1. phase # "new" /\ "agent_error" \notin Fenced
  BY DEF Fenced, Closed
<1>2. /\ AfterEnd(snap, phase).phase = phase /\ AfterEnd(snap, phase).canceled = snap.canceled
      /\ AfterEnd(snap, phase).completed = snap.completed
  BY DEF AfterEnd, Snapshot
<1>3. QED
  BY <1>1, <1>2 DEF Agrees, Known

LEMMA ReplyAgrees ==
    ASSUME NEW snap \in Snapshot, Agrees(snap), NEW acked,
           NEW reply \in Verdict \cup {"done", "error"}, reply \in Verdict => snap.canceled
    PROVE  LET next == AfterReply(snap, reply, acked, reply = "carbonize") IN
           /\ Agrees(next)
           /\ next.completed => snap.completed \/ reply = "done" \/ snap.canceled
<1>1. CASE reply \in {"discarded", "complete"}
  BY <1>1, EndAgrees DEF AfterReply, Closed, Verdict
<1>2. CASE reply = "error"
  <2>1. AfterReply(snap, reply, acked, reply = "carbonize") \in {snap, AfterEnd(snap, "agent_error")}
    BY <1>2 DEF AfterReply, AfterError
  <2>2. "agent_error" \notin Closed
    BY DEF Closed
  <2>3. QED
    BY <2>1, <2>2, EndAgrees
<1>3. CASE reply \in {"done", "carbonize"}
  <2> DEFINE next == AfterDone(snap, reply = "carbonize")
             phase == IF reply = "carbonize" THEN "carbonize_required" ELSE "open"
  <2>1. AfterReply(snap, reply, acked, reply = "carbonize") = next
    BY <1>3 DEF AfterReply
  <2>2. CASE next = snap
    BY <2>1, <2>2
  <2>3. CASE next = [snap EXCEPT !.phase = phase, !.completed = TRUE, !.pending = Nothing]
    <3>1. next.phase = phase /\ next.canceled = snap.canceled /\ phase # "new"
      BY <2>3 DEF Snapshot
    <3>2. phase \in Fenced => snap.canceled
      BY DEF Fenced, Closed, Verdict
    <3> HIDE DEF next, phase
    <3>3. Agrees(next)
      BY <3>1, <3>2 DEF Agrees, Known
    <3>4. QED
      BY <1>3, <2>1, <3>3 DEF Verdict
  <2>4. QED
    BY <2>2, <2>3 DEF AfterDone
<1>4. QED
  BY <1>1, <1>2, <1>3 DEF Verdict

LEMMA JournalledAgrees ==
    ASSUME NEW snap \in Snapshot, Agrees(snap), NEW req \in Post
    PROVE  /\ Journalled(snap, req).phase \in Fenced => Journalled(snap, req).canceled
           /\ Journalled(snap, req).completed = snap.completed
<1>1. CASE req.type = "generate"
  <2>1. /\ AfterGenerate(snap, Generate(FALSE)).phase = "open"
        /\ AfterGenerate(snap, Generate(FALSE)).completed = snap.completed
    BY DEF AfterGenerate, Snapshot
  <2>2. Journalled(snap, req) = AfterGenerate(snap, Generate(FALSE)) /\ "open" \notin Fenced
    BY <1>1 DEF Journalled, Fenced, Closed
  <2>3. QED
    BY <2>1, <2>2
<1>2. CASE req.type = "checkpoint"
  <2>1. Journalled(snap, req) = AfterCheckpoint(snap)
    BY <1>2 DEF Journalled
  <2>2. CASE AfterCheckpoint(snap) = snap
    BY <2>1, <2>2 DEF Agrees
  <2>3. CASE AfterCheckpoint(snap) = [snap EXCEPT !.phase = "open"]
    <3>1. /\ AfterCheckpoint(snap).phase = "open" /\ "open" \notin Fenced
          /\ AfterCheckpoint(snap).completed = snap.completed
      BY <2>3 DEF Snapshot, Fenced, Closed
    <3>2. QED
      BY <2>1, <3>1
  <2>4. QED
    BY <2>2, <2>3 DEF AfterCheckpoint
<1>3. CASE req.type \in Decision \cup {"orphaned"}
  <2>1. \A type \in Decision : /\ AfterDecision(snap, type) \in Snapshot
                               /\ AfterDecision(snap, type).canceled
                               /\ AfterDecision(snap, type).completed = snap.completed
    BY DecisionFences DEF AfterDecision, Snapshot
  <2>2. CASE req.type = "orphaned"
    <3>1. Journalled(snap, req) = AfterEnd(AfterDecision(snap, "discard"), "discarded")
      BY <2>2 DEF Journalled
    <3>2. /\ AfterDecision(snap, "discard") \in Snapshot /\ AfterDecision(snap, "discard").canceled
          /\ AfterDecision(snap, "discard").completed = snap.completed
      BY <2>1 DEF Decision
    <3>3. QED
      BY <3>1, <3>2, EndAgrees, EndFences DEF Closed
  <2>3. CASE req.type \in Decision
    <3>1. Journalled(snap, req) = AfterDecision(snap, req.type)
      BY <2>3 DEF Journalled, Decision
    <3>2. QED
      BY <2>1, <2>3, <3>1
  <2>4. QED
    BY <1>3, <2>2, <2>3
<1>4. QED
  BY <1>1, <1>2, <1>3 DEF Post

LEMMA SnapshotsAgree ==
    ASSUME PageInv, NothingLost
    PROVE  \A s \in Session : Fences(store[s]) /\ Agrees(store[s])
<1>1. \A s \in Session : Fences(store[s])
  BY DEF PageInv, DecisionsCancel, Fences
<1>2. \A s \in Session : Agrees(store[s])
  BY DEF NothingLost, PhasesAgree, Agrees
<1>3. QED
  BY <1>1, <1>2

-----------------------------------------------------------------------------
(* The page's side *)

\* A step that leaves the page waiting for nothing new.
Moves ==
    /\ page'.gate = page.gate
    /\ page'.st = "SAVING" => page.st = "SAVING" /\ page'.saving = page.saving
    /\ page'.st = "GENERATING" /\ ~page'.arrived
         => page.st = "GENERATING" /\ ~page.arrived /\ page'.cur = page.cur

\* What is under way stays so, and what is newly held waits for the gate.
Holds ==
    /\ \A type \in {"generate", "accept"}, s \in Session : UnderWay(type, s) => UnderWay(type, s)'
    /\ gated \subseteq gated'
    /\ \A held \in gated' : held \in gated \/ (page.gate # Nothing /\ held.until = page.gate)

LEMMA RequestsAwaited ==
    ASSUME PageInv, NothingLost, Holds, page'.gate = page.gate,
           page'.st = "SAVING" => page.st = "SAVING" /\ page'.saving = page.saving
    PROVE  GateIsAwaited' /\ SavingIsAwaited'
<1>1. page.gate \in Maybe /\ page.saving \in Maybe /\ \A held \in gated : held.until \in Session
  BY PageStays DEF Waiting
<1>2. /\ \A s \in Session : s = page.gate => UnderWay("generate", s)'
      /\ \A s \in Session, held \in gated : s = held.until => UnderWay("generate", s)'
  BY PageOK DEF NothingLost, GateIsAwaited, Holds
<1>3. page'.gate # Nothing => page'.gate \in Session /\ page'.gate = page.gate
  BY <1>1 DEF Maybe
<1>4. \A held \in gated' : held.until \in Session /\ (held \in gated \/ held.until = page.gate)
  BY <1>1 DEF Holds, Maybe
<1>5. GateIsAwaited'
  <2>1. ASSUME page'.gate # Nothing PROVE UnderWay("generate", page.gate)'
    <3>1. PICK s \in Session : s = page'.gate /\ s = page.gate
      BY <1>3, <2>1
    <3>2. QED
      BY <1>2, <3>1 DEF UnderWay
  <2>2. ASSUME NEW held \in gated' PROVE UnderWay("generate", held.until)'
    <3>1. PICK s \in Session : s = held.until
      BY <1>4
    <3>2. QED
      BY <1>2, <1>4, <3>1 DEF UnderWay
  <2>3. QED
    BY <2>1, <2>2 DEF GateIsAwaited
<1>6. SavingIsAwaited'
  <2> SUFFICES ASSUME page'.st = "SAVING"
               PROVE  \/ UnderWay("accept", page.saving)'
                      \/ \E held \in gated' : held.req = Request("accept", page'.saving)
    BY DEF SavingIsAwaited
  <2>1. PICK s \in Session : s = page.saving /\ s = page'.saving /\ page.st = "SAVING"
    BY <1>1 DEF PageInv, SavesCurrent, Maybe
  <2>2. UnderWay("accept", s) \/ \E held \in gated : held.req = Request("accept", s)
    BY <2>1 DEF NothingLost, SavingIsAwaited, UnderWay
  <2>3. UnderWay("accept", s)' \/ \E held \in gated' : held.req = Request("accept", s)
    BY <2>2 DEF Holds
  <2>4. QED
    BY <2>1, <2>3 DEF UnderWay
<1>7. QED
  BY <1>5, <1>6

LEMMA RequestsKept ==
    ASSUME PageInv, NothingLost, Moves, Holds
    PROVE  GateIsAwaited' /\ SavingIsAwaited'
BY RequestsAwaited DEF Moves

LEMMA Grows ==
    ASSUME net \subseteq net', resp \subseteq resp', gated' = gated
    PROVE  Holds
BY DEF Holds, UnderWay

LEMMA HeldUntil ==
    ASSUME NEW p, NEW req
    PROVE  /\ \A held \in Held(p, req) : p.gate # Nothing /\ held.until = p.gate
           /\ p.gate # Nothing => \E held \in Held(p, req) : held.req = req
<1> DEFINE held == [until |-> p.gate, req |-> req]
<1>1. held.until = p.gate /\ held.req = req
  OBVIOUS
<1>2. Held(p, req) = IF p.gate = Nothing THEN {} ELSE {held}
  BY DEF Held
<1> HIDE DEF held
<1>3. QED
  BY <1>1, <1>2

LEMMA SendHolds ==
    ASSUME NEW p, NEW req, p.gate = page.gate, Send(p, req), resp \subseteq resp'
    PROVE  Holds
<1>1. /\ net \subseteq net' /\ gated \subseteq gated' /\ gated' = gated \cup Held(p, req)
      /\ \A held \in Held(p, req) : p.gate # Nothing /\ held.until = p.gate
  BY HeldUntil DEF Send
<1>2. QED
  BY <1>1 DEF Holds, UnderWay

\* The server, its agents and the stream stand still.
LEMMA StreamKept ==
    ASSUME PageInv, NothingLost, Moves, UNCHANGED <<store, source, named, working, connected, sse>>,
           fetches \subseteq fetches', tried \subseteq tried'
    PROVE  /\ PhasesAgree' /\ FinishedIsInSource' /\ GreetingIsCurrent' /\ WaitingIsNoticed'
<1>1. PhasesAgree' /\ FinishedIsInSource' /\ GreetingIsCurrent'
  BY DEF NothingLost, PhasesAgree, FinishedIsInSource, GreetingIsCurrent
<1>2. ASSUME NEW s \in named, Waits(s)', ~page'.arrived
      PROVE  \/ ~connected
             \/ \E f \in fetches' : f.id = s
             \/ \E i \in DOMAIN sse : Tells(sse[i], s)
             \/ s \in tried'
  <2>1. Waits(s) /\ ~page.arrived
    BY <1>2 DEF Waits, Moves, Canceled
  <2>2. QED
    BY <2>1 DEF NothingLost, WaitingIsNoticed
<1>3. WaitingIsNoticed'
  BY <1>2 DEF WaitingIsNoticed
<1>4. QED
  BY <1>1, <1>3

\* The page moves on.
LEMMA PageMoves ==
    ASSUME PageInv, NothingLost, Moves, Holds, UNCHANGED serverVars,
           fetches \subseteq fetches', tried \subseteq tried'
    PROVE  NothingLost'
<1>1. UNCHANGED <<store, source, named, working, connected, sse>>
  BY DEF serverVars
<1>2. QED
  BY <1>1, RequestsKept, StreamKept DEF NothingLost

LEMMA StaysMoved ==
    ASSUME page' = page
    PROVE  Moves
BY DEF Moves

LEMMA CleanedMoved ==
    ASSUME NEW p \in Overlay, p.gate = page.gate,
           page' = CleanedUp(p) \/ page' = [CleanedUp(p) EXCEPT !.anchor = p.anchor]
    PROVE  Moves
<1>1. page'.gate = p.gate /\ page'.st = "PICKING"
  BY DEF CleanedUp, Overlay
<1>2. QED
  BY <1>1 DEF Moves

LEMMA ShownMoved ==
    ASSUME NEW s, NEW p \in Overlay, p.gate = page.gate, page' = Shown(p, s)
    PROVE  Moves
<1>1. page'.gate = page.gate /\ page'.st = "CYCLING"
  BY DEF Shown, Overlay
<1>2. QED
  BY <1>1 DEF Moves

LEMMA GoNothingLost ==
    ASSUME PageInv, NothingLost, NEW s \in Session, NEW annotated \in BOOLEAN, Go(s, annotated)
    PROVE  NothingLost'
<1> DEFINE started == Checkpoint(s, TRUE)
<1>1. /\ page' = [page EXCEPT !.st = "GENERATING", !.cur = s, !.arrived = FALSE,
                              !.saving = Nothing, !.result = Nothing,
                              !.gate = IF annotated THEN @ ELSE s,
                              !.capturing = IF annotated THEN @ \cup {s} ELSE @]
      /\ net' = net \cup Sent(page, started)
                   \cup (IF annotated THEN {} ELSE {Request("generate", s)})
      /\ gated' = gated \cup Held(page, started) /\ resp' = resp /\ fetches' = fetches
      /\ store[s] = NewSession /\ UNCHANGED serverVars
  BY DEF Go, Unused
<1>2. /\ page'.st = "GENERATING" /\ page'.cur = s
      /\ page'.gate = page.gate \/ (page'.gate = s /\ Request("generate", s) \in net')
  <2>1. page'.st = "GENERATING" /\ page'.cur = s /\ page'.gate = IF annotated THEN page.gate ELSE s
    BY <1>1, PageStays DEF Overlay
  <2>2. QED
    BY <1>1, <2>1
<1>3. /\ net \subseteq net'
      /\ \A held \in gated' : held \in gated \/ (page.gate # Nothing /\ held.until = page.gate)
  BY <1>1, HeldUntil
<1> HIDE DEF started
<1>4. \A r : UnderWay("generate", r) => UnderWay("generate", r)'
  BY <1>1, <1>3 DEF UnderWay
<1>5. GateIsAwaited'
  <2>1. page.gate # Nothing => \A r : r = page.gate => UnderWay("generate", r)'
    BY <1>4 DEF NothingLost, GateIsAwaited
  <2>2. \A r : (\E held \in gated' : held.until = r) => UnderWay("generate", r)'
    BY <1>3, <1>4, <2>1 DEF NothingLost, GateIsAwaited
  <2>3. \A r : r = page'.gate /\ r # Nothing => UnderWay("generate", r)'
    BY <1>2, <2>1 DEF UnderWay
  <2>4. QED
    BY <2>2, <2>3 DEF GateIsAwaited, UnderWay
<1>6. SavingIsAwaited'
  BY <1>2 DEF SavingIsAwaited
<1>7. PhasesAgree' /\ FinishedIsInSource' /\ GreetingIsCurrent'
  BY <1>1 DEF serverVars, NothingLost, PhasesAgree, FinishedIsInSource, GreetingIsCurrent
<1>8. WaitingIsNoticed'
  <2>1. \A r \in named' : Waits(r)' => r = s /\ NewSession.completed
    BY <1>1, <1>2 DEF serverVars, Waits
  <2>2. QED
    BY <2>1 DEF WaitingIsNoticed, NewSession
<1>9. QED
  BY <1>5, <1>6, <1>7, <1>8 DEF NothingLost

LEMMA CapturedNothingLost ==
    ASSUME PageInv, NothingLost, NEW s \in page.capturing, Captured(s)
    PROVE  NothingLost'
<1>1. /\ page' = [page EXCEPT !.capturing = @ \ {s}, !.gate = s]
      /\ net' = net \cup {Request("generate", s)} /\ gated' = gated /\ resp' = resp
      /\ fetches' = fetches /\ UNCHANGED serverVars
  BY DEF Captured
<1>2. /\ page'.gate = s /\ page'.st = page.st /\ page'.saving = page.saving
      /\ page'.cur = page.cur /\ page'.arrived = page.arrived
  BY <1>1, PageStays DEF Overlay
<1>3. \A type, r : UnderWay(type, r) => UnderWay(type, r)'
  BY <1>1 DEF UnderWay
<1>4. GateIsAwaited'
  <2>1. \A r : (\E held \in gated' : held.until = r) => UnderWay("generate", r)'
    BY <1>1, <1>3 DEF NothingLost, GateIsAwaited
  <2>2. QED
    BY <1>1, <1>2, <2>1 DEF GateIsAwaited, UnderWay
<1>5. SavingIsAwaited'
  BY <1>1, <1>2 DEF NothingLost, SavingIsAwaited, UnderWay
<1>6. PhasesAgree' /\ FinishedIsInSource' /\ GreetingIsCurrent'
  BY <1>1 DEF serverVars, NothingLost, PhasesAgree, FinishedIsInSource, GreetingIsCurrent
<1>7. WaitingIsNoticed'
  <2>1. tried' = tried
    BY DEF Captured
  <2>2. QED
    BY <1>1, <1>2, <2>1 DEF serverVars, NothingLost, WaitingIsNoticed, Waits
<1>8. QED
  BY <1>4, <1>5, <1>6, <1>7 DEF NothingLost

LEMMA ClicksNothingLost ==
    ASSUME PageInv, NothingLost, ClicksAccept \/ ClicksDiscard
    PROVE  NothingLost'
<1>1. resp' = resp /\ fetches' = fetches /\ tried' = tried /\ UNCHANGED serverVars
  BY DEF ClicksAccept, ClicksDiscard
<1>2. CASE ClicksDiscard
  <2>1. Moves /\ Holds
    BY <1>1, <1>2, StaysMoved, SendHolds DEF ClicksDiscard
  <2>2. QED
    BY <1>1, <2>1, PageMoves
<1>3. CASE ClicksAccept
  <2> DEFINE p == [page EXCEPT !.st = "SAVING", !.saving = page.cur]
  <2>1. page' = p /\ Send(p, Request("accept", page.cur))
    BY <1>3 DEF ClicksAccept
  <2>2. p.gate = page.gate /\ p.st = "SAVING" /\ p.saving = page.cur
    BY PageStays DEF Overlay
  <2> HIDE DEF p
  <2>3. Holds
    BY <1>1, <2>1, <2>2, SendHolds
  <2>4. GateIsAwaited'
    <3>1. \A s \in Session : UnderWay("generate", s) => UnderWay("generate", s)'
      BY <2>3 DEF Holds
    <3>2. \A s \in Session : s = page'.gate \/ (\E held \in gated' : held.until = s)
            => UnderWay("generate", s)
      BY <2>1, <2>2, <2>3, PageOK DEF NothingLost, GateIsAwaited, Holds
    <3>3. page'.gate \in Maybe /\ \A held \in gated' : held.until \in Session
      <4>1. page.gate \in Maybe /\ \A held \in gated : held.until \in Session
        BY PageStays DEF Waiting
      <4>2. QED
        BY <2>1, <2>2, <2>3, <4>1 DEF Holds, Maybe
    <3>4. QED
      BY <3>1, <3>2, <3>3 DEF GateIsAwaited, UnderWay, Maybe
  <2>5. SavingIsAwaited'
    <3>1. net' = net \cup Sent(p, Request("accept", page.cur))
          /\ gated' = gated \cup Held(p, Request("accept", page.cur))
      BY <2>1 DEF Send
    <3>2. CASE p.gate = Nothing
      <4>1. Request("accept", page'.saving) \in net'
        BY <2>1, <2>2, <3>1, <3>2 DEF Sent
      <4>2. QED
        BY <4>1 DEF SavingIsAwaited, UnderWay
    <3>3. CASE p.gate # Nothing
      <4>1. \E held \in gated' : held.req = Request("accept", page'.saving)
        BY <2>1, <2>2, <3>1, <3>3, HeldUntil
      <4>2. QED
        BY <4>1 DEF SavingIsAwaited
    <3>4. QED
      BY <3>2, <3>3
  <2>6. PhasesAgree' /\ FinishedIsInSource' /\ GreetingIsCurrent'
    BY <1>1 DEF serverVars, NothingLost, PhasesAgree, FinishedIsInSource, GreetingIsCurrent
  <2>7. WaitingIsNoticed'
    BY <2>1, <2>2 DEF WaitingIsNoticed, Waits
  <2>8. QED
    BY <2>4, <2>5, <2>6, <2>7 DEF NothingLost
<1>4. QED
  BY <1>2, <1>3

LEMMA ShowsNothingLost ==
    ASSUME PageInv, NothingLost, NEW s \in Session,
           HotReload(s) \/ WrapperLeaves(s) \/ (AnchorShows /\ s = page.anchor)
    PROVE  NothingLost'
<1> DEFINE p == Searched(page, s)
<1>1. resp' = resp /\ fetches \subseteq fetches' /\ tried' = tried /\ UNCHANGED serverVars
  BY DEF HotReload, WrapperLeaves, AnchorShows, Rereads
<1>2. /\ page \in Overlay /\ p \in Overlay /\ p.gate = page.gate
      /\ p.st = page.st /\ p.cur = page.cur /\ p.saving = page.saving /\ p.arrived = page.arrived
  <2>1. p.gate = page.gate /\ p.arrived = page.arrived
    BY PageStays DEF Searched, Overlay
  <2>2. QED
    BY <2>1, PageStays, SearchedFacts
<1>3. \/ Checkpoints(Shown(p, s))
      \/ net' = net /\ gated' = gated /\ page' \in {page, p, [p EXCEPT !.scout = FALSE]}
  BY DEF HotReload, WrapperLeaves, AnchorShows
<1> HIDE DEF p
<1>4. CASE Checkpoints(Shown(p, s))
  <2> DEFINE q == Shown(p, s)
  <2>1. page' = q /\ Send(q, Checkpoint(q.cur, ~q.arrived))
    BY <1>4 DEF Checkpoints
  <2>2. q.gate = page.gate
    BY <1>2 DEF Shown, Overlay
  <2>3. Moves
    BY <1>2, <2>1, ShownMoved
  <2> HIDE DEF q
  <2>4. Holds
    BY <1>1, <2>1, <2>2, SendHolds
  <2>5. QED
    BY <1>1, <2>3, <2>4, PageMoves
<1>5. CASE net' = net /\ gated' = gated /\ page' \in {page, p, [p EXCEPT !.scout = FALSE]}
  <2>1. Moves
    BY <1>2, <1>5 DEF Moves, Overlay
  <2>2. Holds
    BY <1>1, <1>5, Grows
  <2>3. QED
    BY <1>1, <2>1, <2>2, PageMoves
<1>6. QED
  BY <1>3, <1>4, <1>5

\* What a read does to a page into whose document it puts a wrapper.
LEMMA PlacesHolds ==
    ASSUME NEW p \in Overlay, p.gate = page.gate, p.st # "SAVING", NEW id, NEW kept,
           Places(p, id, kept), resp' = resp
    PROVE  /\ Holds /\ page'.gate = page.gate /\ page'.st # "SAVING"
           /\ page'.arrived = p.arrived /\ page'.cur \in {p.cur, id}
<1> DEFINE q == [p EXCEPT !.cur = id, !.scout = FALSE,
                          !.st = IF p.arrived THEN "CYCLING" ELSE "GENERATING"]
           r == [p EXCEPT !.scout = FALSE]
<1>1. /\ q.gate = p.gate /\ q.st # "SAVING" /\ q.arrived = p.arrived /\ q.cur = id
      /\ r.gate = p.gate /\ r.st = p.st /\ r.arrived = p.arrived /\ r.cur = p.cur
  BY DEF Overlay
<1>2. Checkpoints(q) \/ (page' = r /\ UNCHANGED <<net, gated>>)
  BY DEF Places
<1> HIDE DEF q, r
<1>3. CASE Checkpoints(q)
  <2>1. page' = q /\ Send(q, Checkpoint(q.cur, ~q.arrived))
    BY <1>3 DEF Checkpoints
  <2>2. Holds
    BY <1>1, <2>1, SendHolds
  <2>3. QED
    BY <1>1, <2>1, <2>2
<1>4. CASE page' = r /\ UNCHANGED <<net, gated>>
  <2>1. Holds
    BY <1>4, Grows
  <2>2. QED
    BY <1>1, <1>4, <2>1
<1>5. QED
  BY <1>2, <1>3, <1>4

\* What each outcome of a read leaves the page waiting for: nothing, the same
\* as before, or variants for which it has now looked or looks again.
LEMMA FoundWaits ==
    ASSUME PageInv, NEW f \in fetches, Fetched(f)
    PROVE  /\ Holds /\ page'.gate = page.gate
           /\ page'.st = "SAVING" => page' = page
           /\ \/ page' = page /\ fetches' = fetches \ {f} /\ InVain({f.id})
              \/ page'.st # "GENERATING" \/ page'.arrived
              \/ /\ page'.cur \in {page.cur, f.id, Nothing}
                 /\ \E ids : /\ {f.id, page.cur} \ {g.id : g \in fetches'} \subseteq ids
                             /\ InVain(ids)
<1> DEFINE left == {f.id, page.cur} \ {g.id : g \in fetches'}
<1>1. page \in Overlay /\ f.id \in Session /\ resp' = resp
  BY PageStays, FetchedFacts DEF Fetch
<1>2. CASE ReadInVain(f) /\ InVain({f.id})
  <2>1. page' = page /\ fetches' = fetches \ {f} /\ UNCHANGED <<net, gated>>
    BY <1>2 DEF ReadInVain
  <2>2. Holds
    BY <1>1, <2>1, Grows
  <2>3. QED
    BY <1>2, <2>1, <2>2
<1>3. CASE FindsOrphan(f)
  <2>1. page' = CleanedUp(page) /\ Send(page, Request("orphaned", f.id))
    BY <1>3 DEF FindsOrphan, Ends
  <2>2. page'.gate = page.gate /\ page'.st = "PICKING"
    BY <1>1, <2>1 DEF CleanedUp, Overlay
  <2>3. Holds
    BY <1>1, <2>1, SendHolds
  <2>4. QED
    BY <2>2, <2>3
<1>4. CASE FindsNoAnchor(f) /\ InVain({f.id, page.cur})
  <2> DEFINE p == [page EXCEPT !.st = "GENERATING", !.anchor = f.id]
  <2>1. Checkpoints(p) \/ (page' = p /\ UNCHANGED <<net, gated>>)
    BY <1>4 DEF FindsNoAnchor
  <2>2. p.gate = page.gate /\ p.st = "GENERATING" /\ p.cur = page.cur
    BY <1>1 DEF Overlay
  <2> HIDE DEF p
  <2>3. page' = p /\ (Send(p, Checkpoint(p.cur, ~p.arrived)) \/ UNCHANGED <<net, gated>>)
    BY <2>1 DEF Checkpoints
  <2>4. Holds
    BY <1>1, <2>2, <2>3, SendHolds, Grows
  <2>5. left \subseteq {f.id, page.cur}
    OBVIOUS
  <2> HIDE DEF left
  <2>6. \E ids : left \subseteq ids /\ InVain(ids)
    BY <1>4, <2>5
  <2>7. QED
    BY <2>2, <2>3, <2>4, <2>6 DEF left
<1>5. CASE FindsVariants(f)
  <2> DEFINE p == [page EXCEPT !.st = "CYCLING", !.arrived = TRUE, !.anchor = Nothing]
  <2>1. \E kept : Places(p, f.id, kept)
    BY <1>5 DEF FindsVariants
  <2>2. p \in Overlay /\ p.gate = page.gate /\ p.st = "CYCLING" /\ p.arrived
    BY <1>1 DEF Overlay, State, Maybe
  <2> HIDE DEF p
  <2>3. Holds /\ page'.gate = page.gate /\ page'.st # "SAVING" /\ page'.arrived = p.arrived
    BY <1>1, <2>1, <2>2, PlacesHolds
  <2>4. QED
    BY <2>2, <2>3
<1>6. CASE FindsScaffold(f) /\ InVain(left)
  <2> DEFINE p == [page EXCEPT !.arrived = FALSE, !.anchor = Nothing]
  <2>1. \/ page.st = "GENERATING" /\ Places(p, f.id, saved)
        \/ Places(CleanedUp(p), f.id, Nothing)
    BY <1>6 DEF FindsScaffold
  <2>2. p \in Overlay /\ p.gate = page.gate /\ p.st = page.st /\ p.cur = page.cur
    BY <1>1 DEF Overlay, Maybe
  <2> HIDE DEF p
  <2>3. /\ CleanedUp(p) \in Overlay /\ CleanedUp(p).gate = page.gate
        /\ CleanedUp(p).st = "PICKING" /\ CleanedUp(p).cur = Nothing
    <3>1. CleanedUp(p) \in Overlay /\ CleanedUp(p).st = "PICKING"
      BY <2>2, CleanedUpFacts
    <3>2. CleanedUp(p).gate = p.gate /\ CleanedUp(p).cur = Nothing
      BY <2>2 DEF CleanedUp, Overlay
    <3>3. QED
      BY <2>2, <3>1, <3>2
  <2>4. /\ Holds /\ page'.gate = page.gate /\ page'.st # "SAVING"
        /\ page'.cur \in {page.cur, f.id, Nothing}
    <3>1. CASE page.st = "GENERATING" /\ Places(p, f.id, saved)
      BY <1>1, <2>2, <3>1, PlacesHolds
    <3>2. CASE Places(CleanedUp(p), f.id, Nothing)
      BY <1>1, <2>3, <3>2, PlacesHolds
    <3>3. QED
      BY <2>1, <3>1, <3>2
  <2>5. \E ids : left \subseteq ids /\ InVain(ids)
    BY <1>6
  <2>6. QED
    BY <2>4, <2>5
<1>7. QED
  BY <1>2, <1>3, <1>4, <1>5, <1>6 DEF Fetched

LEMMA FetchedNothingLost ==
    ASSUME PageInv, NothingLost, NEW f \in fetches, Fetched(f)
    PROVE  NothingLost'
<1>1. UNCHANGED <<store, source, named, working, connected, sse>> /\ resp' = resp
  BY FetchedFacts DEF serverVars
<1>2. GateIsAwaited' /\ SavingIsAwaited'
  <2>1. Holds /\ page'.gate = page.gate /\ (page'.st = "SAVING" => page' = page)
    BY FoundWaits
  <2>2. QED
    BY <2>1, RequestsAwaited
<1>3. PhasesAgree' /\ FinishedIsInSource' /\ GreetingIsCurrent'
  BY <1>1 DEF NothingLost, PhasesAgree, FinishedIsInSource, GreetingIsCurrent
<1>4. WaitingIsNoticed'
  <2> SUFFICES ASSUME NEW s \in named, Waits(s)', ~page'.arrived
               PROVE  \/ ~connected
                      \/ \E g \in fetches' : g.id = s
                      \/ \E i \in DOMAIN sse : Tells(sse[i], s)
                      \/ s \in tried'
    BY <1>1 DEF WaitingIsNoticed
  <2>1. s \in Session /\ s # Nothing /\ page'.cur = s /\ page'.st = "GENERATING"
    BY PageOK DEF PageInv, TypeOK, Waits
  <2>2. \A ids : InVain(ids) /\ s \in ids => s \in tried'
    BY <2>1 DEF InVain
  <2>3. CASE page' = page /\ fetches' = fetches \ {f} /\ InVain({f.id})
    <3>1. tried \subseteq tried'
      BY <2>3 DEF InVain
    <3>2. Waits(s) /\ ~page.arrived
      BY <1>1, <2>3 DEF Waits
    <3>3. s # f.id => \A g \in fetches : g.id = s => g \in fetches'
      BY <2>3
    <3>4. s = f.id => s \in tried'
      BY <2>2, <2>3
    <3>5. QED
      BY <3>1, <3>2, <3>3, <3>4 DEF NothingLost, WaitingIsNoticed
  <2>4. CASE \E ids : /\ {f.id, page.cur} \ {g.id : g \in fetches'} \subseteq ids
                      /\ InVain(ids) /\ page'.cur \in {page.cur, f.id, Nothing}
    BY <2>1, <2>2, <2>4
  <2>5. QED
    BY <2>1, <2>3, <2>4, FoundWaits
<1>5. QED
  BY <1>2, <1>3, <1>4 DEF NothingLost

-----------------------------------------------------------------------------
(* The page's answers *)

LEMMA OpensNothingLost ==
    ASSUME PageInv, NothingLost, NEW r \in resp, r.type = "generate", OpensGate(r),
           resp' = resp \ {r}, fetches' = fetches, tried' = tried, UNCHANGED serverVars
    PROVE  NothingLost'
<1>1. /\ page' = [page EXCEPT !.gate = IF @ = r.id THEN Nothing ELSE @]
      /\ net' = net \cup {held.req : held \in {h \in gated : h.until = r.id}}
      /\ gated' = {held \in gated : held.until # r.id}
  BY DEF OpensGate
<1>2. /\ page'.gate = IF page.gate = r.id THEN Nothing ELSE page.gate
      /\ page'.st = page.st /\ page'.saving = page.saving
      /\ page'.cur = page.cur /\ page'.arrived = page.arrived
  BY <1>1, PageStays DEF Overlay
<1>3. \A type, s : UnderWay(type, s) /\ (type # "generate" \/ s # r.id) => UnderWay(type, s)'
  BY <1>1 DEF UnderWay
<1>4. GateIsAwaited'
  <2>1. \A s : (s = page'.gate /\ s # Nothing) \/ (\E held \in gated' : held.until = s)
          => UnderWay("generate", s)'
    BY <1>1, <1>2, <1>3 DEF NothingLost, GateIsAwaited
  <2>2. QED
    BY <2>1 DEF GateIsAwaited, UnderWay
<1>5. SavingIsAwaited'
  <2> SUFFICES ASSUME page.st = "SAVING"
               PROVE  \/ UnderWay("accept", page.saving)'
                      \/ \E held \in gated' : held.req = Request("accept", page'.saving)
    BY <1>2 DEF SavingIsAwaited
  <2>1. CASE UnderWay("accept", page.saving)
    <3>1. \A s : s = page.saving => UnderWay("accept", s)'
      BY <1>3, <2>1
    <3>2. QED
      BY <1>2, <3>1 DEF UnderWay
  <2>2. CASE \E held \in gated : held.req = Request("accept", page.saving)
    <3>1. PICK held \in gated : held.req = Request("accept", page.saving)
      BY <2>2
    <3>2. held \in gated' \/ held.req \in net'
      BY <1>1
    <3>3. QED
      BY <1>2, <3>1, <3>2 DEF UnderWay
  <2>3. QED
    BY <2>1, <2>2 DEF NothingLost, SavingIsAwaited
<1>6. PhasesAgree' /\ FinishedIsInSource' /\ GreetingIsCurrent'
  BY DEF serverVars, NothingLost, PhasesAgree, FinishedIsInSource, GreetingIsCurrent
<1>7. WaitingIsNoticed'
  BY <1>2 DEF serverVars, NothingLost, WaitingIsNoticed, Waits
<1>8. QED
  BY <1>4, <1>5, <1>6, <1>7 DEF NothingLost

LEMMA ReceiveNothingLost ==
    ASSUME PageInv, NothingLost, NEW r \in resp, Receive(r)
    PROVE  NothingLost'
<1>1. resp' = resp \ {r} /\ fetches' = fetches /\ tried' = tried /\ UNCHANGED serverVars
  BY DEF Receive
<1>2. page \in Overlay
  BY PageStays
<1>3. CASE r.type = "generate"
  BY <1>1, <1>3, OpensNothingLost DEF Receive
<1>4. CASE r.type = "accept"
  <2>1. AcceptAnswered(r) /\ net' = net /\ gated' = gated
    BY <1>4 DEF Receive, AcceptAnswered
  <2>2. \A type, s : UnderWay(type, s) /\ (type # "accept" \/ s # r.id) => UnderWay(type, s)'
    BY <1>1, <1>4, <2>1 DEF UnderWay
  <2>3. Moves /\ (page'.st = "SAVING" => page.saving # r.id)
    <3>1. CASE r.ok /\ page.saving = r.id
      <4> DEFINE p == [page EXCEPT !.saving = Nothing, !.result = r.id]
      <4>1. page' = [CleanedUp(p) EXCEPT !.anchor = p.anchor]
        BY <2>1, <3>1 DEF AcceptAnswered, EndsAccepted
      <4>2. r.id \in Maybe
        BY DEF PageInv, TypeOK, Response, Maybe
      <4>3. p \in Overlay /\ p.gate = page.gate
        BY <1>2, <4>2 DEF Overlay, Maybe
      <4> HIDE DEF p
      <4>4. QED
        BY <4>1, <4>3, CleanedMoved, CleanedUpFacts
    <3>2. CASE r.ok /\ page.saving # r.id
      BY <2>1, <3>2, StaysMoved DEF AcceptAnswered
    <3>3. CASE ~r.ok
      <4>1. page' = [page EXCEPT !.st = "CYCLING", !.saving = IF @ = r.id THEN Nothing ELSE @]
        BY <2>1, <3>3 DEF AcceptAnswered
      <4>2. page'.st = "CYCLING" /\ page'.gate = page.gate
        BY <1>2, <4>1 DEF Overlay
      <4>3. QED
        BY <4>2 DEF Moves
    <3>4. QED
      BY <3>1, <3>2, <3>3
  <2>4. GateIsAwaited'
    <3>1. \A s : (s = page'.gate /\ s # Nothing) \/ (\E held \in gated' : held.until = s)
            => UnderWay("generate", s)'
      BY <2>1, <2>2, <2>3 DEF NothingLost, GateIsAwaited, Moves
    <3>2. QED
      BY <3>1 DEF GateIsAwaited, UnderWay
  <2>5. SavingIsAwaited'
    <3> SUFFICES ASSUME page'.st = "SAVING"
                 PROVE  \/ UnderWay("accept", page.saving)'
                        \/ \E held \in gated' : held.req = Request("accept", page'.saving)
      BY DEF SavingIsAwaited
    <3>1. page.st = "SAVING" /\ page'.saving = page.saving /\ page.saving # r.id
      BY <2>3 DEF Moves
    <3>2. \A s : s = page.saving /\ UnderWay("accept", s) => UnderWay("accept", s)'
      BY <2>2, <3>1
    <3>3. QED
      BY <2>1, <3>1, <3>2 DEF NothingLost, SavingIsAwaited, UnderWay
  <2>6. UNCHANGED <<store, source, named, working, connected, sse>>
    BY <1>1 DEF serverVars
  <2>7. QED
    BY <1>1, <2>3, <2>4, <2>5, <2>6, StreamKept DEF NothingLost
<1>5. CASE r.type \in {"discard", "checkpoint"}
  <2>1. /\ net' = net /\ gated' = gated
        /\ page' = page \/ page' = CleanedUp(page)
    BY <1>5 DEF Receive, DiscardAnswered, Refused, Ends
  <2>2. Moves
    BY <1>2, <2>1, StaysMoved, CleanedMoved
  <2>3. Holds
    BY <1>1, <1>5, <2>1 DEF Holds, UnderWay
  <2>4. QED
    BY <1>1, <2>2, <2>3, PageMoves
<1>6. QED
  BY <1>3, <1>4, <1>5 DEF PageInv, TypeOK, Response, Decision

-----------------------------------------------------------------------------
(* The stream *)

LEMMA ToldGrows ==
    ASSUME PageInv, NEW msg \in Answer, sse' = Told(msg)
    PROVE  /\ \A i \in DOMAIN sse : i \in DOMAIN sse' /\ sse'[i] = sse[i]
           /\ \A i \in DOMAIN sse' : i \in DOMAIN sse \/ sse'[i] = msg
           /\ connected => \E k \in DOMAIN sse' : sse'[k] = msg /\ \A i \in DOMAIN sse' : i <= k
<1>1. sse \in Seq(Answer \cup Greeting)
  BY DEF PageInv, TypeOK
<1>2. CASE connected
  <2>1. sse' = Append(sse, msg)
    BY <1>2 DEF Told
  <2>2. /\ sse' \in Seq(Answer \cup Greeting) /\ Len(sse') = Len(sse) + 1
        /\ sse'[Len(sse) + 1] = msg /\ \A i \in 1..Len(sse) : sse'[i] = sse[i]
    BY <1>1, <2>1, AppendProperties
  <2>3. DOMAIN sse' = 1..Len(sse) + 1 /\ DOMAIN sse = 1..Len(sse) /\ Len(sse) \in Nat
    BY <1>1, <2>2, LenProperties
  <2>4. \A i \in DOMAIN sse' : (i \in DOMAIN sse \/ i = Len(sse) + 1) /\ i <= Len(sse) + 1
    BY <2>3
  <2>5. Len(sse) + 1 \in DOMAIN sse' /\ \A i \in DOMAIN sse : i \in DOMAIN sse'
    BY <2>3
  <2>6. QED
    BY <2>2, <2>3, <2>4, <2>5
<1>3. CASE ~connected
  BY <1>3 DEF Told
<1>4. QED
  BY <1>2, <1>3

\* A step of the server: what the page waits for goes on being on its way, and
\* of what is newly finished the page is told.
LEMMA ServerTells ==
    ASSUME PageInv, NothingLost, UNCHANGED <<page, connected, fetches, tried>>,
           \A s \in named' : s \in Session,
           \A s \in named' : s \in named \/ sse' = Told(Message("done", s)),
           sse' = sse \/ \E msg \in Answer : sse' = Told(msg),
           \A s \in Session : store[s].canceled => store'[s].canceled,
           \A s \in Session : store'[s].completed /\ ~store'[s].canceled
                                => store[s].completed \/ sse' = Told(Message("done", s))
    PROVE  GreetingIsCurrent' /\ WaitingIsNoticed'
<1>1. \A i \in DOMAIN sse : i \in DOMAIN sse' /\ sse'[i] = sse[i]
  BY ToldGrows
<1>2. \A i \in DOMAIN sse' : i \in DOMAIN sse \/ sse'[i].type # "connected"
  <2>1. \A msg \in Answer : msg.type # "connected"
    BY DEF Answer, Verdict
  <2>2. QED
    BY <2>1, ToldGrows
<1>3. \A s \in Session : Message("done", s) \in Answer
  BY DEF Message, Answer
<1>4. ASSUME NEW s \in Session, store'[s].completed, ~store'[s].canceled, ~store[s].completed, connected
      PROVE  \E k \in DOMAIN sse' : Tells(sse'[k], s) /\ \A i \in DOMAIN sse' : i <= k
  <2>1. sse' = Told(Message("done", s))
    BY <1>4
  <2>2. QED
    BY <1>3, <1>4, <2>1, ToldGrows DEF Tells
<1>5. GreetingIsCurrent'
  <2> SUFFICES ASSUME NEW i \in DOMAIN sse', NEW s \in Session, sse'[i].type = "connected",
                      store'[s].completed, ~store'[s].canceled
               PROVE  \E j \in DOMAIN sse' : i <= j /\ Tells(sse'[j], s)
    BY DEF GreetingIsCurrent, Tells, Message, Terminal
  <2>1. i \in DOMAIN sse /\ sse[i].type = "connected" /\ connected
    <3>1. i \in DOMAIN sse /\ sse[i].type = "connected"
      BY <1>1, <1>2
    <3>2. QED
      BY <3>1 DEF PageInv, ClosedIsEmpty
  <2>2. CASE store[s].completed
    <3>1. PICK j \in DOMAIN sse : i <= j /\ Tells(sse[j], s)
      BY <2>1, <2>2 DEF NothingLost, GreetingIsCurrent
    <3>2. QED
      BY <1>1, <3>1
  <2>3. CASE ~store[s].completed
    BY <1>4, <2>1, <2>3
  <2>4. QED
    BY <2>2, <2>3
<1>6. WaitingIsNoticed'
  <2> SUFFICES ASSUME NEW s \in named', Waits(s)', ~page.arrived, connected
               PROVE  \/ \E f \in fetches : f.id = s
                      \/ \E i \in DOMAIN sse' : Tells(sse'[i], s)
                      \/ s \in tried
    BY DEF WaitingIsNoticed, Tells, Message, Terminal
  <2>1. s \in Session /\ page.cur = s /\ page.st = "GENERATING"
        /\ store'[s].completed /\ ~store'[s].canceled
    BY DEF Waits, Canceled
  <2>2. CASE store[s].completed /\ s \in named
    <3>1. ~store[s].canceled /\ store[s].phase \notin Fenced
      BY <2>1, SnapshotsAgree DEF Agrees
    <3>2. Waits(s)
      BY <2>1, <2>2, <3>1 DEF Waits, Canceled
    <3>3. QED
      BY <1>1, <2>2, <3>2 DEF NothingLost, WaitingIsNoticed
  <2>3. CASE ~store[s].completed
    BY <1>4, <2>1, <2>3
  <2>4. CASE s \notin named
    <3>1. sse' = Told(Message("done", s))
      BY <2>4
    <3>2. QED
      BY <1>3, <2>1, <3>1, ToldGrows DEF Tells
  <2>5. QED
    BY <2>2, <2>3, <2>4
<1>7. QED
  BY <1>5, <1>6

LEMMA HandlePostNothingLost ==
    ASSUME PageInv, CreatedOnce, CanceledStaysFenced, NothingLost, NEW req \in net, HandlePost(req)
    PROVE  NothingLost'
<1>1. /\ net' = net \ {req} /\ resp' = resp \cup Answers(req, ~Unknown(req))
      /\ page' = page /\ gated' = gated /\ fetches' = fetches /\ tried' = tried
      /\ IF Unknown(req) THEN UNCHANGED serverVars ELSE Posted(req)
  BY DEF HandlePost
<1>2. req \in Post /\ req.id \in Session /\ store \in [Session -> Snapshot]
      /\ \A r \in Session : Fences(store[r]) /\ Agrees(store[r]) /\ Ended(store[r])
  BY SnapshotsAgree DEF PageInv, TypeOK, Post, CanceledStaysFenced, Ended
<1>3. Holds
  <2>1. ASSUME NEW type \in {"generate", "accept"}, NEW s \in Session, req = Request(type, s)
        PROVE  \E r \in Answers(req, ~Unknown(req)) : r.type = type /\ r.id = s
    <3>1. /\ req.type = type /\ req.id = s /\ req.awaited
          /\ req.type # "checkpoint" /\ req.type # "orphaned"
      BY <2>1 DEF Request
    <3> DEFINE r == [type |-> req.type, id |-> req.id, ok |-> ~Unknown(req)]
    <3>2. r.type = type /\ r.id = s
      BY <3>1
    <3>3. r \in Answers(req, ~Unknown(req))
      BY <3>1 DEF Answers
    <3>4. QED
      BY <3>2, <3>3
  <2>2. QED
    BY <1>1, <2>1 DEF Holds, UnderWay
<1>4. GateIsAwaited' /\ SavingIsAwaited'
  BY <1>1, <1>3, StaysMoved, RequestsKept
<1>5. CASE Unknown(req)
  <2>1. UNCHANGED <<store, source, named, working, connected, sse>>
    BY <1>1, <1>5 DEF serverVars
  <2>2. QED
    BY <1>1, <1>4, <2>1, StaysMoved, StreamKept DEF NothingLost
<1>6. CASE ~Unknown(req)
  <2> DEFINE next == Journalled(store[req.id], req)
  <2>1. /\ next.phase \in Fenced => next.canceled
        /\ next.completed = store[req.id].completed
        /\ store[req.id].canceled => next.canceled
    BY <1>2, JournalledAgrees, JournalledFences
  <2>2. Known(next)
    <3>1. req.type = "generate" <=> ~Known(store[req.id])
      BY <1>6 DEF Unknown, CreatedOnce
    <3>2. QED
      BY <1>2, <3>1, JournalledEnds
  <2>3. store' = [store EXCEPT ![req.id] = next] /\ UNCHANGED <<source, named, connected>>
    BY <1>1, <1>6 DEF Posted
  <2> HIDE DEF next
  <2>4. /\ \A s \in Session : Agrees(store'[s])
        /\ \A s \in Session : store'[s].completed = store[s].completed
        /\ \A s \in Session : store[s].canceled => store'[s].canceled
    BY <1>2, <2>1, <2>2, <2>3 DEF Agrees
  <2>5. PhasesAgree'
    BY <2>4 DEF PhasesAgree, Agrees
  <2>6. FinishedIsInSource'
    <3>1. \A s \in Session : working'[s] = "written" => working[s] = "written"
      BY <1>1, <1>6 DEF Posted, PageInv, TypeOK
    <3>2. QED
      BY <2>3, <2>4, <3>1 DEF NothingLost, FinishedIsInSource
  <2>7. sse' = sse \/ \E msg \in Answer : sse' = Told(msg)
    <3>1. Message("done", req.id) \in Answer
      BY <1>2 DEF Message, Answer
    <3>2. QED
      BY <1>1, <1>6, <3>1 DEF Posted
  <2>8. GreetingIsCurrent' /\ WaitingIsNoticed'
    <3>1. \A s \in named' : s \in named /\ s \in Session
      BY <2>3 DEF PageInv, TypeOK
    <3>2. QED
      BY <1>1, <2>3, <2>4, <2>7, <3>1, ServerTells
  <2>9. QED
    BY <1>4, <2>5, <2>6, <2>8 DEF NothingLost
<1>7. QED
  BY <1>5, <1>6

\* An answer of an agent.
LEMMA AnsweredNothingLost ==
    ASSUME PageInv, CanceledStaysFenced, NothingLost, NEW s \in Session,
           NEW reply \in Verdict \cup {"done", "error"}, NEW acked, Answered(s, reply, acked),
           Known(store[s]), reply \in Verdict => store[s].canceled,
           reply = "done" => source[s] \/ store[s].canceled,
           \A r \in Session : working'[r] = "written" => working[r] = "written",
           \A r \in Session : source[r] => source'[r] \/ store[r].canceled,
           \A r \in named' : r \in named \/ (r = s /\ reply = "done"),
           UNCHANGED <<pageVars, connected>>
    PROVE  NothingLost'
<1> DEFINE next == AfterReply(store[s], reply, acked, reply = "carbonize")
<1>1. store \in [Session -> Snapshot]
      /\ \A r \in Session : Fences(store[r]) /\ Agrees(store[r])
  BY SnapshotsAgree DEF PageInv, TypeOK
<1>2. /\ Agrees(next) /\ next.canceled = store[s].canceled
      /\ next.completed => store[s].completed \/ reply = "done" \/ store[s].canceled
  <2>1. reply = "carbonize" => store[s].canceled
    BY DEF Verdict
  <2>2. QED
    BY <1>1, <2>1, ReplyAgrees, ReplyFences
<1>3. store' = [store EXCEPT ![s] = next] /\ sse' = Told(Message(reply, s))
  BY DEF Answered
<1> HIDE DEF next
<1>4. /\ \A r \in Session : Agrees(store'[r]) /\ store'[r].canceled = store[r].canceled
      /\ \A r \in Session : store'[r].completed
           => store[r].completed \/ store[r].canceled \/ (r = s /\ reply = "done")
  BY <1>1, <1>2, <1>3
<1>5. /\ page' = page /\ net' = net /\ gated' = gated /\ resp' = resp /\ fetches' = fetches
      /\ tried' = tried /\ connected' = connected
  BY DEF pageVars
<1>6. GateIsAwaited' /\ SavingIsAwaited'
  BY <1>5, StaysMoved, Grows, RequestsKept
<1>7. PhasesAgree'
  BY <1>4 DEF PhasesAgree, Agrees
<1>8. FinishedIsInSource'
  BY <1>4 DEF NothingLost, FinishedIsInSource
<1>9. GreetingIsCurrent' /\ WaitingIsNoticed'
  <2>1. Message(reply, s) \in Answer
    BY DEF Message, Answer
  <2>2. \A r \in Session : store'[r].completed /\ ~store'[r].canceled
          => store[r].completed \/ sse' = Told(Message("done", r))
    BY <1>3, <1>4
  <2>3. \A r \in named' : r \in Session /\ (r \in named \/ sse' = Told(Message("done", r)))
    <3>1. named \subseteq Session
      BY DEF PageInv, TypeOK
    <3>2. QED
      BY <1>3, <3>1
  <2>4. QED
    BY <1>3, <1>4, <1>5, <2>1, <2>2, <2>3, ServerTells
<1>10. QED
  BY <1>6, <1>7, <1>8, <1>9 DEF NothingLost

LEMMA WorksNothingLost ==
    ASSUME PageInv, CreatedOnce, CanceledStaysFenced, NothingLost, NEW s \in Session, Works(s),
           UNCHANGED pageVars
    PROVE  NothingLost'
<1>1. /\ working \in [Session -> {"no", "asked", "written"}] /\ source \in [Session -> BOOLEAN]
      /\ working[s] # "no" => Known(store[s])
  BY DEF PageInv, TypeOK, CreatedOnce
<1>2. "done" \notin Verdict /\ "error" \notin Verdict
  BY DEF Verdict
<1>3. CASE AgentWrites(s)
  <2>1. /\ source' = [source EXCEPT ![s] = TRUE] /\ working' = [working EXCEPT ![s] = "written"]
        /\ UNCHANGED <<store, named, connected, sse>>
    BY <1>3 DEF AgentWrites
  <2>2. /\ page' = page /\ net' = net /\ gated' = gated /\ resp' = resp /\ fetches' = fetches
        /\ tried' = tried
    BY DEF pageVars
  <2>3. GateIsAwaited' /\ SavingIsAwaited'
    BY <2>2, StaysMoved, Grows, RequestsKept
  <2>4. PhasesAgree' /\ FinishedIsInSource'
    BY <1>1, <2>1 DEF NothingLost, PhasesAgree, FinishedIsInSource
  <2>5. GreetingIsCurrent' /\ WaitingIsNoticed'
    <3>1. \A r \in named' : r \in named /\ r \in Session
      BY <2>1 DEF PageInv, TypeOK
    <3>2. QED
      BY <2>1, <2>2, <3>1, ServerTells
  <2>6. QED
    BY <2>3, <2>4, <2>5 DEF NothingLost
<1>4. CASE AgentReports(s)
  <2>1. PICK reply \in {"done", "error"} :
          /\ Answered(s, reply, "generate") /\ (reply = "done" => working[s] = "written")
          /\ \A r \in named' : r \in named \/ (r = s /\ reply = "done")
    BY <1>4 DEF AgentReports
  <2>2. /\ working' = [working EXCEPT ![s] = "no"] /\ working[s] # "no"
        /\ UNCHANGED <<source, connected>>
    BY <1>4 DEF AgentReports
  <2>3. reply = "done" => source[s] \/ store[s].canceled
    BY <2>1 DEF NothingLost, FinishedIsInSource
  <2>4. \A r \in Session : working'[r] = "written" => working[r] = "written"
    BY <1>1, <2>2
  <2>5. QED
    BY <1>1, <1>2, <2>1, <2>2, <2>3, <2>4, AnsweredNothingLost
<1>5. CASE AgentDecides(s)
  <2>1. PICK reply \in Verdict \cup {"error"} : Answered(s, reply, store[s].pending.type)
    BY <1>5 DEF AgentDecides, Verdict
  <2>2. store[s].canceled
    BY <1>5 DEF AgentDecides, PageInv, DecisionsCancel
  <2>3. Known(store[s])
    BY <2>2, NewIsNotEnded DEF CanceledStaysFenced, Known
  <2>4. /\ UNCHANGED <<named, working, connected>>
        /\ \A r \in Session : source[r] => source'[r] \/ store[r].canceled
    BY <1>1, <1>5, <2>2 DEF AgentDecides
  <2>5. QED
    BY <1>2, <2>1, <2>2, <2>3, <2>4, AnsweredNothingLost
<1>6. CASE AgentCompletes(s)
  <2>1. Answered(s, "complete", "accept") /\ UNCHANGED <<source, named, working, connected>>
    BY <1>6 DEF AgentCompletes
  <2>2. store[s].canceled /\ Known(store[s]) /\ "complete" \in Verdict
    BY <1>6 DEF AgentCompletes, PageInv, DecisionsCancel, Known, Verdict
  <2>3. QED
    BY <2>1, <2>2, AnsweredNothingLost
<1>7. QED
  BY <1>3, <1>4, <1>5, <1>6 DEF Works

\* Every message but the first is still to come.
LEMMA TailFacts ==
    ASSUME PageInv, sse # <<>>, sse' = Tail(sse)
    PROVE  /\ 1 \in DOMAIN sse /\ Head(sse) = sse[1] /\ Head(sse) \in Answer \cup Greeting
           /\ \A i \in DOMAIN sse : i = 1 \/ (i - 1 \in DOMAIN sse' /\ sse'[i - 1] = sse[i])
           /\ \A i \in DOMAIN sse' : i + 1 \in DOMAIN sse /\ sse'[i] = sse[i + 1]
           /\ DOMAIN sse \subseteq Nat /\ DOMAIN sse' \subseteq Nat \ {0}
<1>1. sse \in Seq(Answer \cup Greeting)
  BY DEF PageInv, TypeOK
<1>2. /\ Head(sse) \in Answer \cup Greeting /\ Head(sse) = sse[1]
      /\ sse' \in Seq(Answer \cup Greeting) /\ Len(sse') = Len(sse) - 1
      /\ \A i \in 1..Len(sse') : sse'[i] = sse[i + 1]
  BY <1>1, HeadTailProperties
<1>3. /\ DOMAIN sse' = 1..Len(sse') /\ DOMAIN sse = 1..Len(sse)
      /\ Len(sse) \in Nat /\ Len(sse) # 0
  BY <1>1, <1>2, LenProperties, EmptySeq
<1>4. \A i \in 1..Len(sse) : i = 1 \/ i - 1 \in 1..Len(sse')
  BY <1>2, <1>3
<1>5. \A i \in 1..Len(sse) : i = 1 \/ sse'[i - 1] = sse[i]
  <2> SUFFICES ASSUME NEW i \in 1..Len(sse), i # 1
               PROVE  sse'[i - 1] = sse[i]
    OBVIOUS
  <2>1. i - 1 \in 1..Len(sse') /\ (i - 1) + 1 = i
    BY <1>4, <1>3
  <2>2. QED
    BY <1>2, <2>1
<1>6. QED
  BY <1>2, <1>3, <1>4, <1>5

\* What the first message of a stream sets off.
LEMMA GreetedWaits ==
    ASSUME PageInv, NothingLost, Deliver, Head(sse).type = "connected",
           NEW sessions, sessions = Head(sse).sessions,
           NEW s \in named, Waits(s)', ~page'.arrived
    PROVE  \/ \E f \in fetches' : f.id = s
           \/ \E i \in DOMAIN sse : i # 1 /\ Tells(sse[i], s)
<1> DEFINE Tell(id) == id \in DOMAIN sessions /\ sessions[id].completed
           Saved == RestoredPage(page, saved.id, saved.arrived \/ Tell(saved.id),
                                 saved.file \/ (Tell(saved.id) /\ saved.id \in named))
<1>1. /\ sse # <<>> /\ sse' = Tail(sse) /\ Connected(sessions)
      /\ UNCHANGED <<store, connected>>
  BY DEF Deliver
<1>2. /\ 1 \in DOMAIN sse /\ sse[1].type = "connected" /\ connected
      /\ DOMAIN sse \subseteq Nat
  BY <1>1, TailFacts DEF PageInv, ClosedIsEmpty
<1>3. /\ page'.cur = s /\ page'.st = "GENERATING" /\ store[s].completed /\ ~store[s].canceled
      /\ s \in Session
  BY <1>1 DEF Waits, Canceled, PageInv, TypeOK
<1>4. \E i \in DOMAIN sse : 1 <= i /\ Tells(sse[i], s)
  BY <1>2, <1>3 DEF NothingLost, GreetingIsCurrent
<1>5. Tells(sse[1], s) => /\ s \in DOMAIN sessions /\ sessions[s].completed
                          /\ ~sessions[s].canceled /\ ~Terminal(sessions[s])
  <2>1. Message("done", s).type = "done" /\ Head(sse) = sse[1]
    BY <1>1, TailFacts DEF Message
  <2>2. QED
    BY <1>2, <2>1 DEF Tells
<1>6. page \in Overlay
  BY PageStays
<1>7. CASE dom = {} /\ RestoresSaved(sessions)
  <2>1. Connected(sessions) /\ saved # Nothing
    BY <1>1, <1>7 DEF RestoresSaved
  <2>2. Checkpoints(Saved)
    BY <1>7, <2>1, Zenon DEF Connected
  <2>3. page' = Saved
    BY <2>2 DEF Checkpoints
  <2>4. Saved.cur = saved.id /\ Saved.arrived = (saved.arrived \/ Tell(saved.id))
    BY <1>6 DEF RestoredPage, Overlay
  <2> HIDE DEF Saved
  <2>5. ~Tell(s)
    BY <1>3, <2>3, <2>4
  <2>6. QED
    BY <1>4, <1>5, <2>5
<1>8. CASE dom = {} /\ saved = Nothing /\ Adoptable(sessions) # {}
  <2>1. ~RestoresSaved(sessions)
    BY <1>8 DEF RestoresSaved
  <2>2. PICK r \in Adoptable(sessions) : Checkpoints(RestoredPage(page, r, TRUE, TRUE))
    BY <1>1, <1>8, <2>1, Zenon DEF Connected
  <2>3. page' = RestoredPage(page, r, TRUE, TRUE)
    BY <2>2 DEF Checkpoints
  <2>4. page'.arrived
    BY <1>6, <2>3 DEF RestoredPage, Overlay
  <2>5. QED
    BY <2>4
<1>9. CASE /\ ~(dom = {} /\ RestoresSaved(sessions))
           /\ ~(dom = {} /\ saved = Nothing /\ Adoptable(sessions) # {})
  <2>1. fetches' = fetches \cup Missed(page, sessions) /\ page' = Learns(page, sessions)
    BY <1>1, <1>9 DEF Connected
  <2>2. page.cur = s /\ page.st = "GENERATING" /\ ~page.arrived
    BY <1>3, <1>6, <2>1 DEF Learns, Overlay
  <2>3. CASE Tells(sse[1], s)
    <3>1. Missed(page, sessions) = {Read(s, "done")}
      BY <1>5, <2>2, <2>3 DEF Missed, Behind
    <3>2. Read(s, "done") \in fetches' /\ Read(s, "done").id = s
      BY <2>1, <3>1 DEF Read
    <3>3. QED
      BY <3>2
  <2>4. CASE ~Tells(sse[1], s)
    BY <1>4, <2>4
  <2>5. QED
    BY <2>3, <2>4
<1>10. QED
  BY <1>7, <1>8, <1>9

\* What any other message does to the page, and to its reads.
LEMMA ToldMoves ==
    ASSUME PageInv, NEW id \in Session,
           DoneTold(id) \/ AcceptTold(id) \/ DiscardTold(id) \/ ErrorTold(id)
    PROVE  /\ Moves /\ net' = net /\ gated' = gated /\ fetches \subseteq fetches'
<1>1. page \in Overlay
  BY PageStays
<1>2. net' = net /\ gated' = gated /\ fetches \subseteq fetches'
  BY DEF DoneTold, AcceptTold, DiscardTold, ErrorTold
<1>3. CASE DoneTold(id)
  <2> DEFINE p == [page EXCEPT !.file = @ \/ id \in named]
  <2>1. page' = p \/ page' = [p EXCEPT !.st = "CYCLING"]
    BY <1>3 DEF DoneTold
  <2>2. /\ p \in Overlay /\ p.gate = page.gate /\ p.saving = page.saving /\ p.cur = page.cur
        /\ p.arrived = page.arrived /\ p.st = page.st
    <3>1. (page.file \/ id \in named) \in BOOLEAN
      OBVIOUS
    <3>2. QED
      BY <1>1, <3>1 DEF Overlay
  <2> HIDE DEF p
  <2>3. /\ page'.gate = page.gate /\ page'.saving = page.saving /\ page'.cur = page.cur
        /\ page'.arrived = page.arrived /\ page'.st \in {page.st, "CYCLING"}
    BY <2>1, <2>2 DEF Overlay
  <2>4. QED
    BY <1>2, <2>3 DEF Moves
<1>4. CASE AcceptTold(id)
  <2> DEFINE p == [page EXCEPT !.saving = IF @ = id THEN Nothing ELSE @,
                               !.result = IF @ = id THEN Nothing ELSE @]
  <2>1. IF page.saving = id /\ page.cur \in {id, Nothing}
        THEN page' = [CleanedUp(p) EXCEPT !.anchor = p.anchor] ELSE page' = p
    BY <1>4 DEF AcceptTold, EndsAccepted
  <2>2. /\ p \in Overlay /\ p.gate = page.gate /\ p.st = page.st /\ p.cur = page.cur
        /\ p.arrived = page.arrived
        /\ page.saving # id => p.saving = page.saving
    BY <1>1 DEF Overlay, Maybe
  <2> HIDE DEF p
  <2>3. CASE page' = [CleanedUp(p) EXCEPT !.anchor = p.anchor]
    BY <1>2, <2>2, <2>3, CleanedMoved
  <2>4. CASE page' = p /\ ~(page.saving = id /\ page.cur \in {id, Nothing})
    BY <1>2, <2>2, <2>4 DEF Moves, PageInv, SavesCurrent
  <2>5. QED
    BY <2>1, <2>3, <2>4
<1>5. CASE DiscardTold(id)
  <2>1. page' = page \/ page' = CleanedUp(page)
    BY <1>5 DEF DiscardTold, Ends
  <2>2. QED
    BY <1>1, <1>2, <2>1, StaysMoved, CleanedMoved
<1>6. CASE ErrorTold(id)
  <2>1. CASE page' = CleanedUp(page)
    BY <1>1, <1>2, <2>1, CleanedMoved
  <2>2. CASE page' \in {[page EXCEPT !.saving = Nothing, !.result = Nothing, !.st = "CYCLING"],
                        [page EXCEPT !.result = Nothing], [page EXCEPT !.st = "PICKING"]}
    <3>1. /\ page'.gate = page.gate /\ page'.cur = page.cur /\ page'.arrived = page.arrived
          /\ page'.st \in {"CYCLING", "PICKING"}
               \/ (page'.st = page.st /\ page'.saving = page.saving)
      BY <1>1, <2>2 DEF Overlay
    <3>2. QED
      BY <1>2, <3>1 DEF Moves
  <2>3. QED
    BY <1>6, <2>1, <2>2 DEF ErrorTold, Ends
<1>7. QED
  BY <1>3, <1>4, <1>5, <1>6

\* The first message of a stream may restore the session the page had.
LEMMA GreetedSends ==
    ASSUME PageInv, NEW sessions, Connected(sessions), resp' = resp
    PROVE  /\ Holds /\ page'.gate = page.gate
           /\ (page'.st = page.st /\ page'.saving = page.saving) \/ page'.st = "GENERATING"
<1>1. page \in Overlay
  BY PageStays
<1>2. ASSUME NEW id, NEW arrived, NEW file, Checkpoints(RestoredPage(page, id, arrived, file))
      PROVE  Holds /\ page'.gate = page.gate /\ page'.st = "GENERATING"
  <2> DEFINE p == RestoredPage(page, id, arrived, file)
  <2>1. p.gate = page.gate /\ p.st = "GENERATING"
    BY <1>1 DEF RestoredPage, Overlay
  <2>2. page' = p /\ Send(p, Checkpoint(p.cur, ~p.arrived))
    BY <1>2 DEF Checkpoints
  <2> HIDE DEF p
  <2>3. QED
    BY <2>1, <2>2, SendHolds
<1>3. CASE dom = {} /\ RestoresSaved(sessions)
  <2>1. saved # Nothing
    BY <1>3 DEF RestoresSaved
  <2>2. \E arrived, file : Checkpoints(RestoredPage(page, saved.id, arrived, file))
    BY <1>3, <2>1, Zenon DEF Connected
  <2>3. QED
    BY <1>2, <2>2
<1>4. CASE dom = {} /\ saved = Nothing /\ Adoptable(sessions) # {}
  <2>1. ~RestoresSaved(sessions)
    BY <1>4 DEF RestoresSaved
  <2>2. \E s \in Adoptable(sessions) : Checkpoints(RestoredPage(page, s, TRUE, TRUE))
    BY <1>4, <2>1, Zenon DEF Connected
  <2>3. QED
    BY <1>2, <2>2
<1>5. CASE /\ ~(dom = {} /\ RestoresSaved(sessions))
           /\ ~(dom = {} /\ saved = Nothing /\ Adoptable(sessions) # {})
  <2>1. page' = Learns(page, sessions) /\ UNCHANGED <<saved, net, gated>>
    BY <1>5 DEF Connected
  <2>2. page'.gate = page.gate /\ page'.st = page.st /\ page'.saving = page.saving
    BY <1>1, <2>1 DEF Learns, Overlay
  <2>3. QED
    BY <2>1, <2>2, Grows
<1>6. QED
  BY <1>3, <1>4, <1>5

LEMMA DeliverNothingLost ==
    ASSUME PageInv, NothingLost, Deliver
    PROVE  NothingLost'
<1> DEFINE msg == Head(sse)
<1>1. /\ sse # <<>> /\ sse' = Tail(sse)
      /\ UNCHANGED <<store, source, named, working, connected, resp>>
  BY DEF Deliver
<1>2. /\ 1 \in DOMAIN sse /\ msg = sse[1] /\ msg \in Answer \cup Greeting
      /\ \A i \in DOMAIN sse : i = 1 \/ (i - 1 \in DOMAIN sse' /\ sse'[i - 1] = sse[i])
      /\ \A i \in DOMAIN sse' : i + 1 \in DOMAIN sse /\ sse'[i] = sse[i + 1]
      /\ DOMAIN sse \subseteq Nat /\ DOMAIN sse' \subseteq Nat \ {0}
  BY <1>1, TailFacts
<1>3. IF msg.type = "connected" THEN Connected(msg.sessions) ELSE tried' = tried
  BY DEF Deliver
<1>4. msg.type # "connected"
        => /\ msg.type \in Verdict \cup {"done", "error"} /\ msg.id \in Session
           /\ DoneTold(msg.id) \/ AcceptTold(msg.id) \/ DiscardTold(msg.id) \/ ErrorTold(msg.id)
           /\ msg.type = "done" => DoneTold(msg.id)
  <2>1. ASSUME msg.type # "connected"
        PROVE  msg.type \in Verdict \cup {"done", "error"} /\ msg.id \in Session
    BY <1>2, <2>1 DEF Answer, Greeting
  <2>2. ASSUME msg.type \in Verdict \cup {"done", "error"}
        PROVE  /\ DoneTold(msg.id) \/ AcceptTold(msg.id) \/ DiscardTold(msg.id) \/ ErrorTold(msg.id)
               /\ msg.type = "done" => DoneTold(msg.id)
    BY <2>2 DEF Deliver, Verdict
  <2>3. QED
    BY <2>1, <2>2
<1> HIDE DEF msg
<1>5. msg.type # "connected" => Moves /\ Holds /\ fetches \subseteq fetches'
  BY <1>1, <1>4, ToldMoves, Grows
<1>6. GateIsAwaited' /\ SavingIsAwaited'
  <2>1. CASE msg.type = "connected"
    BY <1>1, <1>3, <2>1, GreetedSends, RequestsAwaited
  <2>2. CASE msg.type # "connected"
    BY <1>5, <2>2, RequestsKept
  <2>3. QED
    BY <2>1, <2>2
<1>7. PhasesAgree' /\ FinishedIsInSource'
  BY <1>1 DEF NothingLost, PhasesAgree, FinishedIsInSource
<1>8. GreetingIsCurrent'
  <2> SUFFICES ASSUME NEW i \in DOMAIN sse', NEW s \in Session, sse'[i].type = "connected",
                      store[s].completed, ~store[s].canceled
               PROVE  \E j \in DOMAIN sse' : i <= j /\ Tells(sse'[j], s)
    BY <1>1 DEF GreetingIsCurrent, Tells, Message, Terminal
  <2>1. i + 1 \in DOMAIN sse /\ sse[i + 1].type = "connected"
    BY <1>2
  <2>2. PICK j \in DOMAIN sse : i + 1 <= j /\ Tells(sse[j], s)
    BY <2>1 DEF NothingLost, GreetingIsCurrent
  <2>3. i \in Nat \ {0} /\ j \in Nat
    BY <1>2
  <2>4. j # 1 /\ i <= j - 1
    BY <2>2, <2>3
  <2>5. QED
    BY <1>2, <2>2, <2>4
<1>9. WaitingIsNoticed'
  <2> SUFFICES ASSUME NEW s \in named, Waits(s)', ~page'.arrived
               PROVE  \/ \E f \in fetches' : f.id = s
                      \/ \E i \in DOMAIN sse' : Tells(sse'[i], s)
                      \/ s \in tried'
    BY <1>1 DEF WaitingIsNoticed, Tells, Message, Terminal
  <2>1. (\E i \in DOMAIN sse : i # 1 /\ Tells(sse[i], s)) => \E i \in DOMAIN sse' : Tells(sse'[i], s)
    BY <1>2
  <2>2. CASE msg.type = "connected"
    <3>1. \/ \E f \in fetches' : f.id = s
          \/ \E i \in DOMAIN sse : i # 1 /\ Tells(sse[i], s)
      BY <2>2, GreetedWaits DEF msg
    <3>2. QED
      BY <2>1, <3>1
  <2>3. CASE msg.type # "connected"
    <3>1. Waits(s) /\ ~page.arrived
      BY <1>1, <1>5, <2>3 DEF Moves, Waits
    <3>2. \/ \E f \in fetches : f.id = s
          \/ \E i \in DOMAIN sse : Tells(sse[i], s)
          \/ s \in tried
      <4>1. connected
        BY <1>1 DEF PageInv, ClosedIsEmpty
      <4>2. QED
        BY <3>1, <4>1 DEF NothingLost, WaitingIsNoticed
    <3>3. CASE Tells(sse[1], s)
      <4>1. DoneTold(s)
        <5>1. msg = Message("done", s)
          BY <1>2, <2>3, <3>3 DEF Tells
        <5>2. msg.type = "done" /\ msg.id = s
          BY <5>1 DEF Message
        <5>3. QED
          BY <1>4, <5>2
      <4>2. Read(s, "done") \in fetches' /\ Read(s, "done").id = s
        BY <3>1, <4>1 DEF DoneTold, Waits, Read
      <4>3. QED
        BY <4>2
    <3>4. QED
      BY <1>3, <1>5, <2>1, <2>3, <3>2, <3>3
  <2>4. QED
    BY <2>2, <2>3
<1>10. QED
  BY <1>6, <1>7, <1>8, <1>9 DEF NothingLost

LEMMA ConnectNothingLost ==
    ASSUME PageInv, NothingLost, Connect
    PROVE  NothingLost'
<1> DEFINE known == {s \in Session : Active(store[s])}
           greeting == [type |-> "connected", sessions |-> [s \in known |-> store[s]]]
<1>1. /\ connected' /\ sse' = <<greeting>> /\ UNCHANGED <<store, source, named, working>>
      /\ page' = page /\ net' = net /\ gated' = gated /\ resp' = resp /\ fetches' = fetches
  BY DEF Connect, pageVars
<1>2. GateIsAwaited' /\ SavingIsAwaited'
  BY <1>1, StaysMoved, Grows, RequestsKept
<1>3. PhasesAgree' /\ FinishedIsInSource'
  BY <1>1 DEF NothingLost, PhasesAgree, FinishedIsInSource
<1>4. ASSUME NEW s \in Session, store[s].completed, ~store[s].canceled
      PROVE  Tells(greeting, s)
  <2>1. s \in known /\ ~Terminal(store[s])
    BY <1>4, SnapshotsAgree DEF Agrees, Active, Fenced, Terminal
  <2>2. /\ greeting.type = "connected" /\ s \in DOMAIN greeting.sessions
        /\ greeting.sessions[s] = store[s]
    BY <2>1
  <2> HIDE DEF greeting
  <2>3. QED
    BY <1>4, <2>1, <2>2 DEF Tells
<1> HIDE DEF greeting
<1>5. DOMAIN sse' = {1} /\ sse'[1] = greeting
  BY <1>1
<1>6. GreetingIsCurrent' /\ WaitingIsNoticed'
  <2>1. ASSUME NEW s \in Session, store'[s].completed, ~store'[s].canceled
        PROVE  \A i \in DOMAIN sse' : i <= i /\ Tells(sse'[i], s)
    BY <1>1, <1>4, <1>5, <2>1
  <2>2. GreetingIsCurrent'
    BY <2>1 DEF GreetingIsCurrent, Tells, Message, Terminal
  <2>3. WaitingIsNoticed'
    <3>1. named' \subseteq Session
      BY <1>1 DEF PageInv, TypeOK
    <3>2. QED
      BY <1>5, <2>1, <3>1 DEF WaitingIsNoticed, Waits, Canceled, Tells, Message, Terminal
  <2>4. QED
    BY <2>2, <2>3
<1>7. QED
  BY <1>2, <1>3, <1>6 DEF NothingLost

\* The next stream begins with a greeting.
LEMMA ClosedStream ==
    ASSUME NothingLost, ~connected', sse' = <<>>, UNCHANGED <<store, source, named, working>>
    PROVE  PhasesAgree' /\ FinishedIsInSource' /\ GreetingIsCurrent' /\ WaitingIsNoticed'
<1>1. PhasesAgree' /\ FinishedIsInSource'
  BY DEF NothingLost, PhasesAgree, FinishedIsInSource
<1>2. DOMAIN sse' = {}
  OBVIOUS
<1>3. GreetingIsCurrent' /\ WaitingIsNoticed'
  BY <1>2 DEF GreetingIsCurrent, WaitingIsNoticed
<1>4. QED
  BY <1>1, <1>3

LEMMA DropNothingLost ==
    ASSUME PageInv, NothingLost, Drop
    PROVE  NothingLost'
<1>1. /\ ~connected' /\ sse' = <<>> /\ UNCHANGED <<store, source, named, working>>
      /\ page' = page /\ net' = net /\ gated' = gated /\ resp' = resp
  BY DEF Drop, pageVars
<1>2. GateIsAwaited' /\ SavingIsAwaited'
  BY <1>1, StaysMoved, Grows, RequestsKept
<1>3. QED
  BY <1>1, <1>2, ClosedStream DEF NothingLost

LEMMA ResumedWaits ==
    ASSUME PageInv, NEW shown, NEW late, Resumes(shown, late)
    PROVE  page'.gate = Nothing /\ page'.st # "SAVING"
<1> DEFINE none == [s \in {} |-> NewSession]
           Scanned(s) == [Shown(NewPage, s) EXCEPT !.file = saved # Nothing /\ saved.id = s /\ saved.file]
           Unscouted == [NewPage EXCEPT !.scout = FALSE]
           Restored == RestoredPage(Unscouted, saved.id, saved.arrived, saved.file)
<1>1. NewPage.gate = Nothing /\ NewPage.st = "PICKING"
  BY DEF NewPage
<1>2. CASE shown \ {handled} # {}
  <2>1. PICK s \in shown \ {handled} : page' = Scanned(s)
    BY <1>2, Zenon DEF Resumes
  <2>2. Scanned(s).gate = Nothing /\ Scanned(s).st = "CYCLING"
    BY DEF Shown, NewPage
  <2>3. QED
    BY <2>1, <2>2
<1>3. CASE shown = {} /\ RestoresSaved(none)
  <2>1. page' = Restored
    BY <1>3, Zenon DEF Resumes
  <2>2. Restored.gate = Nothing /\ Restored.st = "GENERATING"
    BY DEF RestoredPage, NewPage
  <2>3. QED
    BY <2>1, <2>2
<1>4. CASE shown # {} /\ shown \subseteq {handled}
  BY <1>1, <1>4 DEF Resumes
<1>5. CASE shown = {} /\ ~RestoresSaved(none)
  BY <1>1, <1>5 DEF Resumes
<1>6. QED
  BY <1>2, <1>3, <1>4, <1>5

LEMMA ReloadNothingLost ==
    ASSUME PageInv, NothingLost, Reload
    PROVE  NothingLost'
<1>1. \E shown, late : Resumes(shown, late)
  BY DEF Reload
<1>2. page'.gate = Nothing /\ page'.st # "SAVING"
  BY <1>1, ResumedWaits
<1>3. gated' = {} /\ ~connected' /\ sse' = <<>> /\ UNCHANGED <<store, source, named, working>>
  BY DEF Reload
<1>4. GateIsAwaited' /\ SavingIsAwaited'
  BY <1>2, <1>3 DEF GateIsAwaited, SavingIsAwaited
<1>5. QED
  BY <1>3, <1>4, ClosedStream DEF NothingLost

LEMMA InitNothingLost == Init => NothingLost
<1> SUFFICES ASSUME Init PROVE NothingLost
  OBVIOUS
<1>1. /\ store = [s \in Session |-> NewSession] /\ source = [s \in Session |-> FALSE]
      /\ named = {} /\ working = [s \in Session |-> "no"] /\ ~connected /\ sse = <<>>
      /\ page = NewPage /\ gated = {}
  BY DEF Init
<1>2. GateIsAwaited /\ SavingIsAwaited
  BY <1>1 DEF GateIsAwaited, SavingIsAwaited, NewPage
<1>3. NewSession.phase \notin Fenced /\ ~NewSession.completed
  BY DEF NewSession, Fenced, Closed
<1>4. PhasesAgree /\ FinishedIsInSource
  BY <1>1, <1>3 DEF PhasesAgree, FinishedIsInSource
<1>5. DOMAIN sse = {}
  BY <1>1
<1>6. GreetingIsCurrent /\ WaitingIsNoticed
  BY <1>1, <1>5 DEF GreetingIsCurrent, WaitingIsNoticed
<1>7. QED
  BY <1>2, <1>4, <1>6 DEF NothingLost

LEMMA StepNothingLost ==
    ASSUME PageInv, CreatedOnce, CanceledStaysFenced, NothingLost, [Next]_vars
    PROVE  NothingLost'
<1>1. CASE \E s \in Session, annotated \in BOOLEAN : Go(s, annotated)
  BY <1>1, GoNothingLost
<1>2. CASE \E s \in page.capturing : Captured(s)
  BY <1>2, CapturedNothingLost
<1>3. CASE ClicksAccept \/ ClicksDiscard
  BY <1>3, ClicksNothingLost
<1>4. CASE \E req \in net : HandlePost(req)
  BY <1>4, HandlePostNothingLost
<1>5. CASE \E r \in resp : Receive(r)
  BY <1>5, ReceiveNothingLost
<1>6. CASE \E f \in fetches : Fetched(f)
  BY <1>6, FetchedNothingLost
<1>7. CASE (\E s \in Session : HotReload(s) \/ WrapperLeaves(s)) \/ AnchorShows
  <2>1. AnchorShows => page.anchor \in Session
    BY PageStays DEF AnchorShows, Maybe
  <2>2. QED
    BY <1>7, <2>1, ShowsNothingLost
<1>8. CASE Deliver \/ Connect \/ Drop
  BY <1>8, DeliverNothingLost, ConnectNothingLost, DropNothingLost
<1>9. CASE Reload
  BY <1>9, ReloadNothingLost
<1>10. CASE \E s \in Session : Works(s) /\ UNCHANGED <<pageVars, faults, decisions>>
  BY <1>10, WorksNothingLost
<1>11. CASE UNCHANGED vars
  <2>1. /\ UNCHANGED serverVars /\ fetches' = fetches /\ net' = net /\ gated' = gated
        /\ tried' = tried /\ resp' = resp /\ page' = page
    BY <1>11 DEF vars, pageVars
  <2>2. QED
    BY <2>1, StaysMoved, Grows, PageMoves
<1>12. QED
  BY <1>1, <1>2, <1>3, <1>4, <1>5, <1>6, <1>7, <1>8, <1>9, <1>10, <1>11 DEF Next

-----------------------------------------------------------------------------
(* The theorems *)

\* What the page is told is true, each session is created by one event that
\* finds it unknown, what the user has ended stays ended, and nothing that the
\* page waits for is lost.
\* live-browser.js, handleGo and captureAndEmit; live-server.mjs, POST /events.
THEOREM InvariantHolds == Spec => []IInv
<1>1. IInv /\ [Next]_vars => IInv'
  BY StepKeeps, StepOnce, StepNothingLost DEF IInv
<1>2. Init => IInv
  BY InitHolds, InitOnce, InitNothingLost DEF IInv
<1>3. QED
  BY <1>1, <1>2, PTL DEF Spec

\* What the user has ended stays ended, whatever the page posts and whenever
\* it arrives: a reloaded page, a late post, a page that waits behind its
\* gate.  live/session-store.mjs, generationCanceled.
THEOREM EndedStaysEnded == Spec => []CanceledStaysFenced
<1>1. IInv => CanceledStaysFenced
  BY DEF IInv
<1>2. QED
  BY <1>1, InvariantHolds, PTL

\* A page in SAVING has its answer coming, what waits for a session's creation
\* will be let go, and a page that waits at 0/N for a finished generation whose
\* "done" named the file will look for its variants: the source is being read,
\* a message tells the page, or the next stream will; or it has looked since
\* this stream opened, and the read failed or found none.  It is what
\* SavingEnds and StrandedRecovers rest on.  live-browser.js, sessionCreationGate, handleAccept and
\* recoverMissedGenerationCompletion.
THEOREM NothingIsLost == Spec => []NothingLost
<1>1. IInv => NothingLost
  BY DEF IInv
<1>2. QED
  BY <1>1, InvariantHolds, PTL
=============================================================================
