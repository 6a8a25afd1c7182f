------------------------------ MODULE LivePage ------------------------------
(***************************************************************************)
(* The page of live mode, over the sessions as the server keeps them.  The *)
(* page posts its events with concurrent fetches, which the server may     *)
(* take in any order, and learns of the agents' answers from an event      *)
(* stream, which loses what is sent while it is closed.  A reload keeps    *)
(* what is in localStorage and what the dev server serves.  Variants reach *)
(* the page by hot reload, or are read from the source when the page knows *)
(* that the generation is finished.  The queue, the leases and the agents  *)
(* are LiveServer's; here an agent takes an event and answers it.          *)
(***************************************************************************)
EXTENDS LiveStore, Naturals, Sequences, FiniteSets

CONSTANTS
    Session,
    MaxFaults,    \* bound: lost connections, reloads and elements revealed
    MaxDecisions  \* bound: clicks on Accept and Discard

ASSUME PageOK == MaxFaults \in Nat /\ MaxDecisions \in Nat /\ Nothing \notin Session

VARIABLES
    store,     \* the snapshot of each session
    source,    \* whether the source holds the session's variants
    named,     \* the sessions whose "done" named the source file
    working,   \* the sessions whose generation an agent has in hand
    connected, \* the page's event stream is open
    sse,       \* messages on it
    page,      \* the overlay's variables
    dom,       \* the sessions whose wrapper is in the document
    bare,      \* those of them whose wrapper there has no variants
    saved,     \* localStorage: the saved session
    handled,   \* localStorage: the last session accepted or discarded here
    net,       \* posted events on their way to the server
    gated,     \* posted events that wait for the creation of a session
    resp,      \* answers on their way to the page
    fetches,   \* reads of the source on their way to the page
    tried,     \* history: what the page still waited for after a read
    faults, decisions

serverVars == <<store, source, named, working, connected, sse>>
pageVars == <<page, dom, bare, saved, handled, net, gated, resp, fetches, tried>>
vars == <<serverVars, pageVars, faults, decisions>>

Decision == {"accept", "discard"}

\* behind: a checkpoint of a page that still waits for variants; awaited: the
\* page that sent it is still there.
Request(type, id) == [type |-> type, id |-> id, behind |-> FALSE, awaited |-> TRUE]
Checkpoint(id, behind) == [Request("checkpoint", id) EXCEPT !.behind = behind]

\* st: the overlay's state; cur: currentSessionId; arrived: all variants are
\* here; file: a source file is known; saving: pendingAcceptedSession; result:
\* awaitingAcceptResult, the session let go before its agent has answered;
\* capturing: sessions whose generate waits for its screenshot; gate: the last
\* session whose generate was sent, until it is answered; anchor: the session
\* whose variants wait for the element they replace; scout: a page that found
\* nothing to resume has not seen a wrapper yet.
NewPage ==
    [st |-> "PICKING", cur |-> Nothing, arrived |-> FALSE, file |-> FALSE, saving |-> Nothing,
     result |-> Nothing, capturing |-> {}, gate |-> Nothing, anchor |-> Nothing, scout |-> TRUE]

Maybe == Session \cup {Nothing}

Init ==
    /\ store = [s \in Session |-> NewSession]
    /\ source = [s \in Session |-> FALSE] /\ named = {}
    /\ working = [s \in Session |-> "no"]
    /\ connected = FALSE /\ sse = <<>>
    /\ page = NewPage
    /\ dom = {} /\ bare = {} /\ saved = Nothing /\ handled = Nothing
    /\ net = {} /\ gated = {} /\ resp = {} /\ fetches = {} /\ tried = {}
    /\ faults = 0 /\ decisions = 0

-----------------------------------------------------------------------------
(* The server and its agents, as the page sees them *)

Message(type, id) == [type |-> type, id |-> id]

\* Fault: what is sent while the stream is closed is kept for the next one.
ToldAlways(msg) == Append(sse, msg)

\* broadcast: only the open stream gets the message.
Told(msg) == IF connected THEN Append(sse, msg) ELSE sse

\* The answer of an agent is journalled and sent to the page.
Answered(s, reply, acked) ==
    /\ store' = [store EXCEPT ![s] = AfterReply(@, reply, acked, reply = "carbonize")]
    /\ sse' = Told(Message(reply, s))

AgentWrites(s) ==
    /\ working[s] = "asked"
    /\ source' = [source EXCEPT ![s] = TRUE]
    /\ working' = [working EXCEPT ![s] = "written"]
    /\ UNCHANGED <<store, named, connected, sse>>

\* done, which may name the file, or an error with or without variants in the
\* source; the answer comes too late when the user has decided on what hot
\* reload has shown.
AgentReports(s) ==
    /\ \/ /\ working[s] = "written" /\ Answered(s, "done", "generate")
          /\ named' \in {named, named \cup {s}}
       \/ working[s] # "no" /\ Answered(s, "error", "generate") /\ UNCHANGED named
    /\ working' = [working EXCEPT ![s] = "no"]
    /\ UNCHANGED <<source, connected>>

\* Without variants in the source the receipt of an earlier decision answers.
AgentDecides(s) ==
    /\ store[s].pending # Nothing
    /\ LET type == store[s].pending.type IN
         /\ type \in Decision
         /\ \/ Answered(s, "error", type) /\ UNCHANGED source
            \/ /\ \E reply \in IF type = "accept" THEN {"complete", "carbonize"} ELSE {"discarded"} :
                     Answered(s, reply, type)
               /\ source' = [source EXCEPT ![s] = FALSE]
    /\ UNCHANGED <<named, working, connected>>

AgentCompletes(s) ==
    /\ store[s].phase = "carbonize_required"
    /\ Answered(s, "complete", "accept")
    /\ UNCHANGED <<source, named, working, connected>>

Works(s) == AgentWrites(s) \/ AgentReports(s) \/ AgentDecides(s) \/ AgentCompletes(s)

Unknown(req) == req.type # "generate" /\ ~Known(store[req.id])

\* A page that still waits for a finished generation has missed its "done".
MissedDone(req) ==
    /\ req.type = "checkpoint" /\ req.behind /\ req.id \in named
    /\ store[req.id].completed /\ ~Canceled(store[req.id])

\* Fault: a decision is only queued for the agents.
JournalledLate(snap, req) ==
    CASE req.type = "generate" -> AfterGenerate(snap, Generate(FALSE))
      [] req.type = "checkpoint" -> AfterCheckpoint(snap)
      [] OTHER -> snap

Journalled(snap, req) ==
    CASE req.type = "generate" -> AfterGenerate(snap, Generate(FALSE))
      [] req.type = "checkpoint" -> AfterCheckpoint(snap)
      [] req.type = "orphaned" -> AfterEnd(AfterDecision(snap, "discard"), "discarded")
      [] OTHER -> AfterDecision(snap, req.type)

Posted(req) ==
    /\ store' = [store EXCEPT ![req.id] = Journalled(@, req)]
    /\ working' = IF req.type = "generate" THEN [working EXCEPT ![req.id] = "asked"] ELSE working
    /\ sse' = IF MissedDone(req) THEN Told(Message("done", req.id)) ELSE sse
    /\ UNCHANGED <<source, named, connected>>

-----------------------------------------------------------------------------
(* Sending *)

Saves(p) == [id |-> p.cur, st |-> p.st, arrived |-> p.arrived, file |-> p.file]

\* Behind a generate that has no answer yet, an event waits.
Sent(p, req) == IF p.gate = Nothing THEN {req} ELSE {}
Held(p, req) == IF p.gate = Nothing THEN {} ELSE {[until |-> p.gate, req |-> req]}

Send(p, req) == net' = net \cup Sent(p, req) /\ gated' = gated \cup Held(p, req)

\* The page at p, saved and reported by a checkpoint.
Checkpoints(p) ==
    /\ page' = p
    /\ saved' = Saves(p)
    /\ Send(p, Checkpoint(p.cur, ~p.arrived))

\* cleanup: nothing of the session stays but that it was handled.
CleanedUp(p) == [p EXCEPT !.st = "PICKING", !.cur = Nothing, !.arrived = FALSE,
                          !.file = FALSE, !.anchor = Nothing]

Ends(p, id) == page' = CleanedUp(p) /\ saved' = Nothing /\ handled' = id

\* cleanupAcceptedSession leaves the search for the element alone.
EndsAccepted(p, id) ==
    /\ page' = [CleanedUp(p) EXCEPT !.anchor = p.anchor]
    /\ saved' = Nothing /\ handled' = id

-----------------------------------------------------------------------------
(* What the user does *)

\* A session id is drawn afresh.
Unused(s) ==
    /\ store[s] = NewSession /\ s \notin {page.cur, handled} \cup page.capturing
    /\ \A req \in net \cup resp \cup {held.req : held \in gated} : req.id # s

\* handleGo.  The checkpoint is not held back, as the generate that creates
\* the session is only sent now, or after the screenshot was taken.
Go(s, annotated) ==
    LET p == [page EXCEPT !.st = "GENERATING", !.cur = s, !.arrived = FALSE, !.saving = Nothing,
                          !.result = Nothing, !.gate = IF annotated THEN @ ELSE s,
                          !.capturing = IF annotated THEN @ \cup {s} ELSE @]
        started == Checkpoint(s, TRUE)
    IN /\ page.st = "PICKING" /\ Unused(s)
       /\ page' = p
       /\ saved' = Saves(p)
       /\ net' = net \cup Sent(page, started)
                    \cup (IF annotated THEN {} ELSE {Request("generate", s)})
       /\ gated' = gated \cup Held(page, started)
       /\ UNCHANGED <<serverVars, dom, bare, handled, resp, fetches, tried, faults, decisions>>

\* captureAndEmit sends the generate, whatever has become of the session.
Captured(s) ==
    /\ s \in page.capturing
    /\ page' = [page EXCEPT !.capturing = @ \ {s}, !.gate = s]
    /\ net' = net \cup {Request("generate", s)}
    /\ UNCHANGED <<serverVars, dom, bare, saved, handled, gated, resp, fetches, tried, faults, decisions>>

ClicksAccept ==
    LET p == [page EXCEPT !.st = "SAVING", !.saving = page.cur] IN
    /\ page.st = "CYCLING" /\ page.cur # Nothing /\ page.arrived /\ page.saving = Nothing
    /\ decisions < MaxDecisions /\ decisions' = decisions + 1
    /\ page' = p
    /\ saved' = Saves(p)
    /\ Send(p, Request("accept", page.cur))
    /\ UNCHANGED <<serverVars, dom, bare, handled, resp, fetches, tried, faults>>

ClicksDiscard ==
    /\ page.st = "CYCLING" /\ page.cur # Nothing
    /\ decisions < MaxDecisions /\ decisions' = decisions + 1
    /\ Send(page, Request("discard", page.cur))
    /\ UNCHANGED <<serverVars, page, dom, bare, saved, handled, resp, fetches, tried, faults>>

-----------------------------------------------------------------------------
(* Requests and their answers *)

\* What the page does not look at is not answered.
Answers(req, ok) ==
    IF (req.type = "checkpoint" /\ ok) \/ req.type = "orphaned" \/ ~req.awaited THEN {}
    ELSE {[type |-> req.type, id |-> req.id, ok |-> ok]}

\* POST /events
HandlePost(req) ==
    /\ req \in net
    /\ net' = net \ {req}
    /\ resp' = resp \cup Answers(req, ~Unknown(req))
    /\ IF Unknown(req) THEN UNCHANGED serverVars ELSE Posted(req)
    /\ UNCHANGED <<page, dom, bare, saved, handled, gated, fetches, tried, faults, decisions>>

\* Fault: what waited for the creation stays behind.
OpensOnly(r) ==
    /\ page' = [page EXCEPT !.gate = IF @ = r.id THEN Nothing ELSE @]
    /\ UNCHANGED <<net, gated, saved, handled>>

\* The creation is answered: what waited for it goes out.
OpensGate(r) ==
    /\ page' = [page EXCEPT !.gate = IF @ = r.id THEN Nothing ELSE @]
    /\ net' = net \cup {held.req : held \in {h \in gated : h.until = r.id}}
    /\ gated' = {held \in gated : held.until # r.id}
    /\ UNCHANGED <<saved, handled>>

AcceptAnswered(r) ==
    /\ IF r.ok
       THEN IF page.saving = r.id
            THEN EndsAccepted([page EXCEPT !.saving = Nothing, !.result = r.id], r.id)
            ELSE UNCHANGED <<page, saved, handled>>
       ELSE /\ page' = [page EXCEPT !.st = "CYCLING",
                                    !.saving = IF @ = r.id THEN Nothing ELSE @]
            /\ UNCHANGED <<saved, handled>>
    /\ UNCHANGED <<net, gated>>

\* The session of the answer is not looked at, but the current one.
DiscardAnswered(r) ==
    /\ IF r.ok THEN Ends(page, IF page.cur = Nothing THEN handled ELSE page.cur)
       ELSE UNCHANGED <<page, saved, handled>>
    /\ UNCHANGED <<net, gated>>

\* unknown_session: the page takes the session for another project's.
Refused(r) ==
    /\ IF r.id = page.cur THEN Ends(page, r.id) ELSE UNCHANGED <<page, saved, handled>>
    /\ UNCHANGED <<net, gated>>

Receive(r) ==
    /\ r \in resp
    /\ resp' = resp \ {r}
    /\ CASE r.type = "generate" -> OpensGate(r)
         [] r.type = "accept" -> AcceptAnswered(r)
         [] r.type = "discard" -> DiscardAnswered(r)
         [] OTHER -> Refused(r)
    /\ UNCHANGED <<serverVars, dom, bare, fetches, tried, faults, decisions>>

-----------------------------------------------------------------------------
(* Variants in the page *)

Shown(p, id) == [p EXCEPT !.st = "CYCLING", !.cur = id, !.arrived = TRUE, !.scout = FALSE]

\* Why the source is read, in the code's options: a session is restored that
\* had shown its variants (orphanDiscard), its generation is known to be
\* finished (generationCompleted), or neither.
Read(id, kind) == [id |-> id, kind |-> kind]

\* The element that variants replace is there, or they are: they are read anew.
Rereads(s) ==
    IF page.anchor = s THEN fetches \cup {Read(s, "resume")} ELSE fetches
Searched(p, s) ==
    IF p.anchor = s THEN [p EXCEPT !.anchor = Nothing, !.file = TRUE] ELSE p

\* Hot reload brings the wrapper: the observer of the session sees it, and a
\* page that found nothing to resume resumes now.
HotReload(s) ==
    LET p == Searched(page, s) IN
    /\ source[s] /\ s \notin dom \ bare
    /\ dom' = dom \cup {s} /\ bare' = bare \ {s}
    /\ fetches' = Rereads(s)
    /\ IF (page.cur = s /\ ~page.arrived) \/ (page.scout /\ handled # s)
       THEN Checkpoints(Shown(p, s)) /\ UNCHANGED handled
       ELSE page' = [p EXCEPT !.scout = FALSE] /\ UNCHANGED <<saved, handled, net, gated>>
    /\ UNCHANGED <<serverVars, resp, tried, faults, decisions>>

\* The wrapper goes with the variants in the source, or is taken out two
\* seconds after the page has let the session go.
WrapperLeaves(s) ==
    /\ s \in dom /\ (~source[s] \/ (s \in bare /\ page.cur # s))
    /\ dom' = dom \ {s} /\ bare' = bare \ {s}
    /\ UNCHANGED <<serverVars, page, saved, handled, net, gated, resp, fetches, tried, faults, decisions>>

\* The user reveals the element that variants wait for.
AnchorShows ==
    /\ page.anchor # Nothing /\ faults < MaxFaults
    /\ faults' = faults + 1
    /\ page' = Searched(page, page.anchor) /\ fetches' = Rereads(page.anchor)
    /\ UNCHANGED <<serverVars, dom, bare, saved, handled, net, gated, resp, tried, decisions>>

-----------------------------------------------------------------------------
(* injectVariantsFromSource has its answer *)

Waits(s) ==
    /\ page.cur = s /\ page.st = "GENERATING"
    /\ store[s].completed /\ ~Canceled(store[s])

\* After a read without variants the page may still wait, with no other read
\* to come.
InVain(ids) == tried' = tried \cup {s \in ids \cap Session : Waits(s)'}

\* A read puts a wrapper into the document of the page at p; a page that found
\* nothing to resume resumes now.
Places(p, id, kept) ==
    /\ dom' = dom \cup {id}
    /\ IF page.scout /\ handled # id
       THEN Checkpoints([p EXCEPT !.cur = id, !.scout = FALSE,
                                  !.st = IF p.arrived THEN "CYCLING" ELSE "GENERATING"])
       ELSE page' = [p EXCEPT !.scout = FALSE] /\ saved' = kept /\ UNCHANGED <<net, gated>>
    /\ UNCHANGED handled

\* The fetch fails, there is no wrapper or no original in it, or the page had
\* moved on when its timer went off.
ReadInVain(f) ==
    /\ fetches' = fetches \ {f}
    /\ UNCHANGED <<page, dom, bare, saved, handled, net, gated>>

\* A page that promised variants which are gone (as three more reads agree)
\* discards the session.
FindsOrphan(f) ==
    /\ ~source[f.id] /\ f.kind = "orphan"
    /\ page.cur = f.id /\ page.st \in {"GENERATING", "CYCLING"}
    /\ Ends(page, f.id) /\ Send(page, Request("orphaned", f.id))
    /\ fetches' = fetches \ {f}
    /\ UNCHANGED <<dom, bare>>

\* The element that the variants replace is not shown: the page, in whatever
\* state it is, waits until it is.
FindsNoAnchor(f) ==
    LET p == [page EXCEPT !.st = "GENERATING", !.anchor = f.id] IN
    /\ source[f.id] \/ working[f.id] = "asked"
    /\ f.id \notin dom
    /\ IF page.cur # Nothing THEN Checkpoints(p)
       ELSE page' = p /\ UNCHANGED <<saved, net, gated>>
    /\ fetches' = fetches \ {f}
    /\ UNCHANGED <<dom, bare, handled>>

FindsVariants(f) ==
    LET p == [page EXCEPT !.st = "CYCLING", !.arrived = TRUE, !.anchor = Nothing] IN
    /\ source[f.id]
    /\ Places(p, f.id, IF page.cur = Nothing THEN saved ELSE Saves(p))
    /\ bare' = bare \ {f.id}
    /\ fetches' = fetches \ {f}

\* A view of the source that has the wrapper only: the page waits on, unless
\* it should have had variants.  It reads on (three times) when the generation
\* is known to be finished; recoverEmptyCycling is a cleanup.
FindsScaffold(f) ==
    LET p == [page EXCEPT !.arrived = FALSE, !.anchor = Nothing]
        waits == page.st = "GENERATING"
        again == waits /\ f.kind = "done" /\ f.id \notin bare
    IN /\ source[f.id] \/ working[f.id] = "asked"
       /\ IF again \/ (waits /\ f.kind # "done") THEN Places(p, f.id, saved)
          ELSE Places(CleanedUp(p), f.id, Nothing)
       /\ bare' = bare \cup {f.id}
       /\ fetches' = IF again THEN fetches ELSE fetches \ {f}

Fetched(f) ==
    /\ f \in fetches
    /\ UNCHANGED <<serverVars, resp, faults, decisions>>
    /\ \/ (ReadInVain(f) \/ FindsOrphan(f)) /\ InVain({f.id})
       \/ FindsNoAnchor(f) /\ InVain({f.id, page.cur})
       \/ FindsVariants(f) /\ UNCHANGED tried
       \/ FindsScaffold(f) /\ InVain({f.id, page.cur} \ {g.id : g \in fetches'})

-----------------------------------------------------------------------------
(* The stream *)

Terminal(snap) == snap.phase \in Closed \cup {"accept_requested", "discard_requested"}

Adoptable(sessions) ==
    {s \in DOMAIN sessions :
        /\ sessions[s].phase = "open" /\ sessions[s].completed
        /\ s \in named /\ handled # s}

\* restoreSessionWithoutWrapper, for a session found in localStorage or told
\* by the server: the page waits for variants and looks into the source.
RestoredPage(p, id, arrived, file) ==
    [p EXCEPT !.st = "GENERATING", !.cur = id, !.arrived = arrived, !.file = file]

RestoresSaved(sessions) ==
    /\ saved # Nothing /\ handled # saved.id
    /\ saved.st \in {"GENERATING", "CYCLING"}
    /\ DOMAIN sessions # {} => saved.id \in DOMAIN sessions /\ ~Terminal(sessions[saved.id])

\* recoverMissedGenerationCompletion, for the page after the restoration.
\* Without a file there is nothing to read.
Behind(p, sessions) ==
    /\ p.st = "GENERATING" /\ p.cur \in DOMAIN sessions /\ ~p.arrived
    /\ sessions[p.cur].completed /\ ~sessions[p.cur].canceled
    /\ ~Terminal(sessions[p.cur])
Learns(p, sessions) ==
    [p EXCEPT !.file = @ \/ (Behind(p, sessions) /\ p.cur \in named)]
Missed(p, sessions) ==
    IF Behind(p, sessions) /\ (p.file \/ p.cur \in named) THEN {Read(p.cur, "done")} ELSE {}

\* A saved session that was CYCLING promises variants.
Restores == IF saved.st = "CYCLING" THEN "orphan" ELSE "resume"
ReadIf(p, kind) == IF p.file THEN {Read(p.cur, kind)} ELSE {}

\* The first message of a stream carries the active sessions.
Connected(sessions) ==
    LET Tell(id) == id \in DOMAIN sessions /\ sessions[id].completed
        Goes(p, kind) == /\ Checkpoints(p)
                         /\ fetches' = fetches \cup ReadIf(p, kind) \cup Missed(p, sessions)
    IN CASE dom = {} /\ RestoresSaved(sessions) ->
              Goes(RestoredPage(page, saved.id, saved.arrived \/ Tell(saved.id),
                                saved.file \/ (Tell(saved.id) /\ saved.id \in named)), Restores)
         [] dom = {} /\ saved = Nothing /\ Adoptable(sessions) # {} ->
              \E s \in Adoptable(sessions) : Goes(RestoredPage(page, s, TRUE, TRUE), "resume")
         [] OTHER ->
              /\ page' = Learns(page, sessions)
              /\ fetches' = fetches \cup Missed(page, sessions)
              /\ UNCHANGED <<saved, net, gated>>

\* Fault: hot reload is relied upon.
DoneWithoutRead(id) ==
    /\ page' = [page EXCEPT !.file = @ \/ id \in named,
                            !.st = IF @ = "GENERATING" /\ page.arrived THEN "CYCLING" ELSE @]
    /\ UNCHANGED <<fetches, saved, handled, net, gated>>

\* A finished generation: show what is here, or read the source (after 750
\* ms).  A message that names no file only says that variants are ready.
DoneTold(id) ==
    LET p == [page EXCEPT !.file = @ \/ id \in named]
        reads == page.cur = id /\ page.st = "GENERATING" /\ id \in named
    IN /\ IF page.st = "GENERATING" /\ page.arrived
          THEN page' = [p EXCEPT !.st = "CYCLING"] /\ UNCHANGED fetches
          ELSE page' = p /\ fetches' = IF reads THEN fetches \cup {Read(id, "done")} ELSE fetches
       /\ UNCHANGED <<saved, handled, net, gated>>

\* maybeCompleteAcceptedSession
AcceptTold(id) ==
    LET p == [page EXCEPT !.saving = IF @ = id THEN Nothing ELSE @,
                          !.result = IF @ = id THEN Nothing ELSE @]
    IN /\ IF page.saving = id /\ page.cur \in {id, Nothing}
          THEN EndsAccepted(p, id)
          ELSE page' = p /\ UNCHANGED <<saved, handled>>
       /\ UNCHANGED <<net, gated, fetches>>

DiscardTold(id) ==
    /\ IF page.cur = id THEN Ends(page, id) ELSE UNCHANGED <<page, saved, handled>>
    /\ UNCHANGED <<net, gated, fetches>>

ErrorTold(id) ==
    /\ CASE page.saving = id ->
              /\ page' = [page EXCEPT !.saving = Nothing, !.result = Nothing, !.st = "CYCLING"]
              /\ UNCHANGED <<saved, handled>>
         [] page.saving # id /\ page.result = id ->
              page' = [page EXCEPT !.result = Nothing] /\ UNCHANGED <<saved, handled>>
         [] page.saving # id /\ page.result # id /\ page.cur = id -> Ends(page, id)
         [] OTHER ->
              /\ page' = [page EXCEPT !.st = "PICKING"]
              /\ saved' = IF saved # Nothing /\ saved.id = id THEN Nothing ELSE saved
              /\ UNCHANGED handled
    /\ UNCHANGED <<net, gated, fetches>>

Deliver ==
    LET msg == Head(sse) IN
    /\ sse # <<>>
    /\ sse' = Tail(sse)
    /\ CASE msg.type = "connected" -> Connected(msg.sessions) /\ UNCHANGED handled
         [] msg.type = "done" -> DoneTold(msg.id)
         [] msg.type \in {"complete", "carbonize"} -> AcceptTold(msg.id)
         [] msg.type = "discarded" -> DiscardTold(msg.id)
         [] msg.type = "error" -> ErrorTold(msg.id)
         [] OTHER -> UNCHANGED <<page, saved, handled, net, gated, fetches>>
    /\ tried' = IF msg.type = "connected" THEN {} ELSE tried
    /\ UNCHANGED <<store, source, named, working, connected, dom, bare, resp, faults, decisions>>

\* GET /events: the first message tells of the sessions that are not over.
Connect ==
    /\ ~connected
    /\ connected' = TRUE
    /\ sse' = <<[type |-> "connected", sessions |-> [s \in {t \in Session : Active(store[t])} |-> store[s]]]>>
    /\ UNCHANGED <<store, source, named, working, pageVars, faults, decisions>>

\* The page's stream breaks; what was on it is lost.
Drop ==
    /\ connected /\ faults < MaxFaults
    /\ faults' = faults + 1
    /\ connected' = FALSE /\ sse' = <<>>
    /\ UNCHANGED <<store, source, named, working, pageVars, decisions>>

-----------------------------------------------------------------------------
(* Reload *)

\* resumeSession, for a document with the wrappers in shown; late: what the
\* old page has posted and the server has yet to take.
Resumes(shown, late) ==
    LET none == [s \in {} |-> NewSession]
        At(p, reads) == /\ page' = p /\ saved' = Saves(p) /\ fetches' = reads
                        /\ net' = late \cup {Checkpoint(p.cur, ~p.arrived)}
                        /\ UNCHANGED handled
    IN CASE shown \ {handled} # {} ->
              \E s \in shown \ {handled} :
                At([Shown(NewPage, s) EXCEPT !.file = saved # Nothing /\ saved.id = s /\ saved.file], {})
         [] shown # {} /\ shown \subseteq {handled} ->
              page' = NewPage /\ net' = late /\ fetches' = {} /\ UNCHANGED <<saved, handled>>
         [] shown = {} /\ RestoresSaved(none) ->
              LET p == RestoredPage([NewPage EXCEPT !.scout = FALSE], saved.id, saved.arrived, saved.file)
              IN At(p, ReadIf(p, Restores))
         [] OTHER ->
              page' = NewPage /\ saved' = Nothing /\ handled' = Nothing /\ net' = late /\ fetches' = {}

\* The user reloads.  The dev server may still serve the page without the
\* variants.  The browser drops some of what is on its way, the rest arrives
\* late.
Reload ==
    /\ faults < MaxFaults
    /\ faults' = faults + 1
    /\ \E shown \in {{}, {s \in Session : source[s]}}, kept \in SUBSET net :
          dom' = shown /\ Resumes(shown, {[req EXCEPT !.awaited = FALSE] : req \in kept})
    /\ connected' = FALSE /\ sse' = <<>>
    /\ bare' = {} /\ gated' = {} /\ resp' = {} /\ tried' = {}
    /\ UNCHANGED <<store, source, named, working, decisions>>

-----------------------------------------------------------------------------
Next ==
    \/ \E s \in Session, annotated \in BOOLEAN : Go(s, annotated)
    \/ \E s \in page.capturing : Captured(s)
    \/ ClicksAccept \/ ClicksDiscard
    \/ \E req \in net : HandlePost(req)
    \/ \E r \in resp : Receive(r)
    \/ \E f \in fetches : Fetched(f)
    \/ \E s \in Session : HotReload(s) \/ WrapperLeaves(s)
    \/ AnchorShows
    \/ Deliver \/ Connect \/ Drop \/ Reload
    \/ \E s \in Session : Works(s) /\ UNCHANGED <<pageVars, faults, decisions>>

Spec == Init /\ [][Next]_vars

\* The network, the stream and the reads go on; hot reload need not come, no
\* agent has to work, and nobody has to click or to reload.
Fairness ==
    /\ WF_vars(\E req \in net : HandlePost(req))
    /\ WF_vars(\E r \in resp : Receive(r))
    /\ WF_vars(\E f \in fetches : Fetched(f))
    /\ WF_vars(Deliver) /\ WF_vars(Connect)

FairSpec == Spec /\ Fairness

\* The agents work as well, and screenshots are taken.
BusySpec ==
    /\ FairSpec
    /\ WF_vars(\E s \in page.capturing : Captured(s))
    /\ \A s \in Session : WF_vars(Works(s) /\ UNCHANGED <<pageVars, faults, decisions>>)

-----------------------------------------------------------------------------
(* What the page promises *)

\* A page that waits at 0/N for a finished generation reads the source,
\* although the "done" was lost with a broken stream or a reload: it gets its
\* variants, lets the session go, or the read fails or finds none.  Only a
\* session whose "done" named no file is never read.  live-browser.js,
\* recoverMissedGenerationCompletion; live-server.mjs,
\* detectMissedGenerationCompletion.
StrandedRecovers ==
    \A s \in Session :
        Waits(s) /\ ~page.arrived /\ s \in named ~> ~Waits(s) \/ s \in tried

\* Said of the code: on every connect the page compares and pulls, so none
\* waits for ever for a finished generation whose file is known, whatever it
\* lost, as long as agents work and no read of the source is in vain.
\* live-browser.js:8902-8910.
NeverStranded ==
    \A s \in Session : [](s \notin tried) => (Waits(s) /\ s \in named ~> ~Waits(s))

\* A page never stays in SAVING: the answer to the accept, or the agent's,
\* ends it.  live-browser.js, handleAccept.
SavingEnds == page.st = "SAVING" ~> page.st # "SAVING"

\* The page lets go of a session it is saving only when the server has the
\* decision in its journal, at a reload, when the server has refused a
\* checkpoint of the session, when a late read of the source finds no variants
\* in it, or when the page takes what is said of another session for the
\* current one: the answer to a discard, an agent's error.
\* live-browser.js, handleAccept, handleDiscard and the error message.
AcceptIsDurable ==
    [][page.st = "SAVING" /\ page.cur # Nothing /\ page'.st = "PICKING"
        => \/ store[page.cur].canceled
           \/ faults' # faults
           \/ fetches \ fetches' # {}
           \/ \E r \in resp \ resp' : r.type = "checkpoint" /\ r.id = page.cur
           \/ \E r \in resp \ resp' : r.type = "discard" /\ r.ok /\ r.id # page.cur
           \/ sse # <<>> /\ Head(sse).type = "error" /\ Head(sse).id # page.cur]_vars

-----------------------------------------------------------------------------
(* The inductive invariant: what is said to the page of a decision is true. *)

State == {"PICKING", "GENERATING", "CYCLING", "SAVING"}

Overlay == [st : State, cur : Maybe, arrived : BOOLEAN, file : BOOLEAN, saving : Maybe,
            result : Maybe, capturing : SUBSET Session, gate : Maybe, anchor : Maybe,
            scout : BOOLEAN]

Stored == [id : Session, st : State, arrived : BOOLEAN, file : BOOLEAN]

Post == [type : Decision \cup {"generate", "checkpoint", "orphaned"}, id : Session,
         behind : BOOLEAN, awaited : BOOLEAN]

Waiting == [until : Session, req : Post]

Response == [type : Decision \cup {"generate", "checkpoint"}, id : Session, ok : BOOLEAN]

Fetch == [id : Session, kind : {"resume", "orphan", "done"}]

Verdict == {"complete", "carbonize", "discarded"}

Answer == [type : Verdict \cup {"done", "error"}, id : Session]
Greeting == [type : {"connected"}, sessions : UNION {[known -> Snapshot] : known \in SUBSET Session}]

TypeOK ==
    /\ store \in [Session -> Snapshot]
    /\ source \in [Session -> BOOLEAN] /\ named \subseteq Session
    /\ working \in [Session -> {"no", "asked", "written"}]
    /\ connected \in BOOLEAN /\ sse \in Seq(Answer \cup Greeting)
    /\ page \in Overlay
    /\ dom \subseteq Session /\ bare \subseteq Session
    /\ saved \in Stored \cup {Nothing}
    /\ handled \in Maybe
    /\ net \subseteq Post /\ gated \subseteq Waiting
    /\ resp \subseteq Response /\ fetches \subseteq Fetch /\ tried \subseteq Session
    /\ faults \in 0..MaxFaults /\ decisions \in 0..MaxDecisions

\* A page that saves does so for the session it is in.
SavesCurrent == page.st = "SAVING" => page.saving = page.cur /\ page.cur # Nothing

\* A decision that is pending, or waits for carbonize, fences the session.
DecisionsCancel ==
    \A s \in Session :
        (store[s].pending # Nothing /\ store[s].pending.type \in Decision)
           \/ store[s].phase = "carbonize_required"
        => store[s].canceled

\* What a page is told of a decision, by the answer to its own request or on
\* the stream, is in the journal.  live-server.mjs, POST /events; the agents'
\* answers.
ToldIsJournalled ==
    /\ \A r \in resp : r.type \in Decision /\ r.ok => store[r.id].canceled
    /\ \A i \in DOMAIN sse : sse[i].type \in Verdict => store[sse[i].id].canceled

\* A closed stream carries nothing.
ClosedIsEmpty == ~connected => sse = <<>>

\* The event that creates a session is posted once, by the page that drew its
\* id, and finds a server that does not know the session: neither a screenshot
\* that takes its time nor a late post of a page that is gone asks for the
\* generation again.  live-browser.js, handleGo and captureAndEmit.
CreatedOnce ==
    /\ \A req \in net : req.type = "generate" =>
          /\ ~Known(store[req.id]) /\ req.id \notin page.capturing
          /\ \A other \in net : other.type = "generate" /\ other.id = req.id => other = req
    /\ \A held \in gated : held.req.type # "generate"
    /\ \A s \in page.capturing : ~Known(store[s])
    /\ \A s \in Session : working[s] # "no" => Known(store[s])

\* What the user has ended stays ended, whatever the page posts and whenever
\* it arrives.  live/session-store.mjs, generationCanceled.
CanceledStaysFenced ==
    \A s \in Session : store[s].canceled => store[s].phase \in Fenced \cup {"agent_error"}

PageInv == TypeOK /\ SavesCurrent /\ DecisionsCancel /\ ToldIsJournalled /\ ClosedIsEmpty

\* A request of this page that is still to be answered.
UnderWay(type, s) ==
    Request(type, s) \in net \/ \E r \in resp : r.type = type /\ r.id = s

\* What waits for the creation of a session will be let go: the generate, or
\* its answer, is under way.  live-browser.js, sessionCreationGate.
GateIsAwaited ==
    /\ page.gate # Nothing => UnderWay("generate", page.gate)
    /\ \A held \in gated : UnderWay("generate", held.until)

\* A page in SAVING has its answer coming: its accept waits for the gate, is
\* under way, or has been answered.  live-browser.js, handleAccept.
SavingIsAwaited ==
    page.st = "SAVING" =>
        \/ UnderWay("accept", page.saving)
        \/ \E held \in gated : held.req = Request("accept", page.saving)

\* A decision has been made where the phase says so, and a finished session
\* was created.
PhasesAgree ==
    \A s \in Session :
        /\ store[s].phase \in Fenced => store[s].canceled
        /\ store[s].completed => Known(store[s])

\* The variants of a finished generation stay in the source until the user has
\* decided.
FinishedIsInSource ==
    \A s \in Session : store[s].completed \/ working[s] = "written"
                      => source[s] \/ store[s].canceled

\* A message that has the page look for the variants of s.
Tells(msg, s) ==
    \/ msg = Message("done", s)
    \/ /\ msg.type = "connected" /\ s \in DOMAIN msg.sessions
       /\ msg.sessions[s].completed /\ ~msg.sessions[s].canceled /\ ~Terminal(msg.sessions[s])

\* What the first message of a stream does not tell follows it.
GreetingIsCurrent ==
    \A i \in DOMAIN sse, s \in Session :
        sse[i].type = "connected" /\ store[s].completed /\ ~store[s].canceled
            => \E j \in DOMAIN sse : i <= j /\ Tells(sse[j], s)

\* A page that waits at 0/N for a finished generation whose file is known will
\* look for its variants: it reads the source, a message on the stream has it
\* do so, or the next stream will; or it has looked since this stream opened,
\* and found none.  live-browser.js, recoverMissedGenerationCompletion.
WaitingIsNoticed ==
    \A s \in named :
        Waits(s) /\ ~page.arrived
            => \/ ~connected
               \/ \E f \in fetches : f.id = s
               \/ \E i \in DOMAIN sse : Tells(sse[i], s)
               \/ s \in tried

\* No answer, message or read that the page depends on is lost.
NothingLost ==
    /\ GateIsAwaited /\ SavingIsAwaited
    /\ PhasesAgree /\ FinishedIsInSource /\ GreetingIsCurrent /\ WaitingIsNoticed

IInv == PageInv /\ CreatedOnce /\ CanceledStaysFenced /\ NothingLost
=============================================================================
