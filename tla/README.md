# Verification of Luckin

Luckin (`src/`) collects market data for the Chinese A-share market and shows it in a
workbench.  Prefect flows fetch data from Tushare on a schedule, keep a ledger of every
synchronisation in MySQL, store the quotes in ClickHouse, and send one summary a day to a
Feishu chat.  A FastAPI application with a Vue front end reads the results, and keeps users'
sessions in Redis and their watchlists in MySQL.  The repository also carries the design
tools its front end is made with, the largest of which is the *live mode* of impeccable: an
overlay in the developer's page asks, through a small local server, coding agents for
variants of an element, and the developer accepts or discards them.

This directory holds TLA+ models of the parts of that system whose correctness depends on
the order of events, the TLC runs that check them on small instances, and TLAPS proofs for
every instance.  Python paths below are relative to `src/src/lucking/`, those of live mode to
`src/.agents/skills/impeccable/scripts/`, those of the front end to `src/frontend/src/`.

## 1. The system and what makes it hard

| component | state | operations | interacts through |
|---|---|---|---|
| market-data synchronisation (`services/`, `repositories/`, `flows/market_data.py`) | MySQL `market_data_sync_run`, `_attempt`, `_issue`; ClickHouse rows (`ReplacingMergeTree(updated_at)`) | claim, take over, fetch, insert block, publish, record failure, backfill a date | provider, limiter, ledger |
| stock-factor, index-factor, shareholder synchronisation | the same ledger, tables of their own; shareholder data also a watermark | the same | the same |
| stock-list synchronisation | `stock_list_sync_run` (one row per slot), `stock_current`, `stock_provider_mapping` | claim, check baseline, resolve identities, publish, fail | provider, MySQL |
| broker-recommendation synchronisation | runs, attempts and records, all in MySQL | claim, publish with upserts, fail | provider, MySQL |
| daily task summary | `daily_task_summary`, `daily_task_notification_attempt` | build, claim notification, send, complete; resend | all task ledgers, Feishu webhook |
| request limiters | a deque in the process; a sorted set in Redis | wait before a call | every provider of the process or host |
| provider adapters | pages, retry budget, deadline of one fetch | fetch | Tushare, limiter |
| trading calendar | `trading_calendar`, `important_dates` | synchronise history or future, query coverage | all flows ask it whether a date is open |
| sessions (`repositories/redis_session.py`, `services/auth.py`, `api/dependencies.py`, `api/routes/auth.py`) | a Redis value per session, a set of sessions per user | create, touch, rotate, delete, revoke | API, cookies |
| front-end sessions (`stores/session.ts`, `composables/useAuth.ts`, `api/client/http.ts`) | user and CSRF token of each tab | log in, restore, log out, change the password | API; tabs share a cookie |
| live mode: server (`live-server.mjs`, `live/`) | queue of events with leases, journal of sessions, streams, exit timer | post, poll, answer, restart | page (fetch, event stream), agents (polling) |
| live mode: agents (`live-poll.mjs`, `live-accept.mjs`, `live-complete.mjs`) | source files, accept receipts, source lock | generate, accept, discard, complete | server, dev server |
| live mode: page (`live-browser.js`) | state of the overlay, localStorage | go, accept, discard, resume, recover | server, dev server (hot reload) |
| watchlists | groups and members in MySQL | create, add, remove, reorder | API |
| task readers | none | map ledger rows to task states | summary, API |
| research workspaces, other routes, configuration, views | none, or copies of server state | queries | services |
| detector, hooks, source rewriting, other tools | files | one-shot commands | the developer |

What is hard here is not any one function but what happens between transactions:

* Workers claim the same work at the same time, crash, become slow, outlive their lease and
  come back; Prefect may execute the same `flow_run_id` again.
* MySQL and ClickHouse share no transaction, and the answer to an insert or a commit can be
  lost after it took effect.
* Two writers of one trade date are ordered by a stamp taken before the insert.
* A notification is sent between two transactions; the process may die in between, and the
  chat may have taken a message whose answer was lost.
* A limiter decides on moments it read before a sleep, or before a script ran.
* The tabs of a browser share a cookie and keep a token each; a request carries the cookie of
  one moment and the token of another.
* The live server awaits the scaffolding of a source while it serves other polls; agents are
  slow, die and answer late; a restart loses the queue but not the journal.
* The page's posts overtake each other, its stream loses what is sent while it is closed, and
  a reload, often caused by the very write it waits for, keeps only what is in localStorage.

What makes each part correct: **ledger** - one owner of a run at a time, a success is final
and names the attempt that achieved it, dense attempt numbers, takeover only after a lease,
no orphan for ever; **ClickHouse** - a run called `SUCCEEDED` has its batch in the table;
**stock list** - a security keeps its stock_id unless a code changes, and is found under the
same one by identity and by code; **summary** - one
frozen snapshot a date, one sender at a time, no second automatic message after a success;
**limiters** - no window holds more requests than the rate; **web sessions** - a write is done
for the user whom the tab shows, a password change ends every session; **live mode** - a
generation is worked on once, what the user ended stays ended and is answered, the page waits
for nothing that has happened already.  `PROJECT.json` lists every
hazard at its line with the properties that cover it.

## 2. Modules

    SyncLedger          what a synchronisation ledger promises (abstract)
    MarketDataRun       ledger + ClickHouse + workers; implements SyncLedger
    MarketDataRun_proofs
    StockListRun        slots of the stock list, its list and its mapping
    StockListRun_proofs
    DailySummary        summary of a date, its notifications, both flows, the chat
    DailySummary_proofs
    Throttle            what a limiter promises its callers (abstract)
    RateLimiter         threads of one process, a lock and two sleeps; implements Throttle
    RateLimiter_proofs
    RedisRateLimiter    processes and the Redis script; what it records implements
                        Throttle, its fallback is a Throttle per process
    RedisRateLimiter_proofs
    WebSession          tabs, API handlers, sessions in Redis
    WebSession_proofs
    LiveStore           the journal's snapshot of a live session, event by event (no state)
    LiveServer          LiveStore + queue, leases, agents, restarts
    LiveServer_proofs
    LivePage            LiveStore + page, posts, stream, hot reload, reloads
    LivePage_proofs
    MC*                 constants of the instances TLC checks

Each module also holds the definitions named "Fault": wrong forms of one definition, used
only to confirm that the properties notice them.  No specification uses them.

### MarketDataRun

One action is one database transaction or one external call, the grain at which another
worker can see it.

| state | code |
|---|---|
| `run`, `attempt`, `issues` | the rows of the three ledger tables.  An attempt has its `flow_run_id` under a unique key, which names it in the model; `left` is what remains of its lease |
| `rows`, `written` | what a query with `FINAL` shows for the date; the newest block inserted under each attempt (history) |
| `flow` | the local variables of the process that executes a `flow_run_id` |
| `stamp`, `revision` | the clock behind `updated_at`; the provider's data, which may be corrected |

A backfill reads the state of its date first (`Resolve`) and claims later.  A claim looks for
an attempt of its own flow run, then for the run; the first claim of a run inserts it and may
lose that race, after which MySQL answers with a deadlock or a duplicate key
(`InsertRace`): the loser fails or adopts the newest attempt.  Fetching, taking the stamp,
inserting the block, publishing and recording a failure follow one another; each may fail,
succeed with its answer lost, or never happen because the process died.  Ownership is
checked by `_lock_owned_attempt` when the result is recorded, not when the block is inserted.

All runs of an instance write the same ClickHouse rows.  Stamps are strictly increasing
(`DateTime64(3)` has milliseconds; of two equal stamps the last insert wins).

### StockListRun

One row per slot carries status, holder and start time.  Claim, baseline check, identity
resolution, publication and failure are five transactions; an execution whose lease ran out
goes on, and so does the manual retry that took the row over.  A record of a list has an
identity (`Security`, the provider's) and a code (`Code`, venue and code), and nothing ties
one to the other from list to list.  `Identity` finds the stock by either, `Conflict` is the
exception when they disagree.  Two executions that meet an unknown security each draw a
stock_id; `UniqueKeysHold` has the unique keys of both tables on the result of a
publication, and the refusals that depend on the order in which rows are written (two stocks
that exchange their codes) are among the failures of `StepFails`.  Names, dates and listing
states are left out, and all executions share a clock.

### DailySummary

`summary` and `attempts` are the two tables, `chat` is what Feishu shows, `flow` the memory
of each run with its Prefect retries.  `build` is three transactions (observe, insert, read
back after a lost race), notification is claim, webhook call, completion.  Deployments admit
one run of a flow at a time, the repository does not rely on it, and the model lets runs
overlap.  The webhook answers `DELIVERED` only when the chat has the message and
`PERMANENT_FAILURE` only when it has not; a retryable failure can be either.

### RateLimiter, RedisRateLimiter

The threads of `RateLimiter` hold the lock through both sleeps; expired moments are dropped
once, before the first.  A sleep lasts at least as long as it was asked to, and the clock is
monotone.  In `RedisRateLimiter` a caller reads its clock, the script runs atomically at some
later time, and the caller sleeps, gives up waiting (`overdue`, then `recording` with a clock
read anew) or, after a Redis error, turns to a limiter of its own; with such an error the
script may have run or not (`Degrade`).  A refused caller computes its waking time in the step in which
the script answers.  The processes share one monotonic clock that starts above 0; the keys
outlive `Window` and `Interval`.

### WebSession

`session` and `index` are the two kinds of Redis keys, each with its expiry; `tab` is what
`stores/session.ts` and `http.ts` keep in each tab, `cookie` what all tabs share, `requests`
and `answers` what is under way.  The API is one uvicorn process (`src/README.md:38`) and its
handlers never await between the Redis commands of a request, so a handler is one step:
authentication (which touches the session, or deletes it when it is past its absolute end or
its user disabled), the CSRF check, and the operation.  A request times out at the tab after
fifteen seconds and may still be handled; a reload asks `GET /auth/me`, which draws a new CSRF
token.  Tokens are the numbers of their draws.  Whether a password is right, whether the
login limiter refuses, and whether Redis fails between the new password and the revocation
(`PasswordRefused`) are choices.  Redis counts in seconds, the clock of the model in fractions
of them (`Second`), as `get()` rounds what remains of a session down to a second and up to 1.

### LiveStore, LiveServer

`LiveStore` is `applyEvent` of `live/session-store.mjs`: a session's phase, whether the user
has ended its generation, whether the generation is complete, and the one pending event that
a restart queues again.  `LiveServer` holds `state.pendingEvents` as `queue`, the leases with
the agent that holds each, and the scaffoldings that are awaited (`preflight`).  Handlers run
to their end, except that a lease of a generate event is taken first and journalled after the
scaffolding (`Poll`, `PreflightDone`).  Agents work as `live-poll.mjs` has them: they take an
event, write variants or apply a decision to the source, leave a receipt (`Records`) and
answer; they may fail, be slower than their lease, die, or keep the token of a server that is
gone.  `RestartServer` rebuilds the queue from the sessions in any order.  What pages post is
any event that a page of that state may send; `LivePage` has the page itself.  Two guards
stand for the page here: a generate event comes for a session the server does not know
(`PageGoes`, which `LivePage_proofs` justifies by `CreatedOnce`), and a decision for one whose
variants have been in the source (`PageDecides`, `PageLosesWrapper`), which is assumed: a page
shows its bar only over variants.

### LivePage

`page` holds the overlay's variables, `saved` and `handled` what is in localStorage, `dom`
whether the wrapper is in the document, `net`, `gated` and `resp` the fetches under way (a
set: they overtake each other), `sse` the stream, `fetches` the reads of the source.  `Go`,
`ClicksAccept` and `ClicksDiscard` are the user's.  A generate is sent at once or, with
annotations, when the screenshot is there (`capturing`); from then until its answer `gate`
names the session, and the page's other posts wait in `gated`.  `Receive` and `Deliver` are
the continuations of `sendEvent` and the handlers of the stream; `Connected` is what the first
message of a stream sets off (restore what is saved, adopt what the server knows, recover a
missed completion); `Reload` is `resumeSession` with or without the wrapper in the document,
after which late posts still reach the server.  The server's side of each post is journalled
as in `LiveServer`; queue and leases are reduced to an agent that takes the event.

A read of the source (`Fetched`) ends in one of five ways.  It is in vain (`ReadInVain`): the
fetch fails, there is no wrapper or no original in what it brings, or the page has moved on.
It discards a session whose wrapper is gone (`FindsOrphan`).  It finds variants, or the bare
scaffold of them (`FindsVariants`, `FindsScaffold`; `bare` are the wrappers so put into the
document), and a page that had nothing to resume resumes with them (`Places`).  Or it does not
find the element they replace (`FindsNoAnchor`): the page waits in `GENERATING` until the user
reveals it or hot reload brings the wrapper (`AnchorShows`, `Searched`), and reads again.
Whether a read is made at all depends on the file: a `done` may name it or not (`named`, which
the journal keeps too), and a page without one does not read.  `tried` is a history variable:
the sessions for which the page still waited after a read in vain, with no other to come,
since its stream was opened.

## 3. Runs

| run | instance and bounds | shows |
|---|---|---|
| `attempts` | a backfill and a retry of one date, each executed up to twice, lease of 1 tick, under fairness | the two ledger tables agree (`OneOwnerPerRun`, `WinnerAgrees`), settled attempts and succeeded runs never change, takeover respects the lease, the tables implement `SyncLedger`, an orphaned run is taken over |
| `dates` | two executions of a scheduled slot, which race for its run, and a backfill of the same trade date; two revisions of the data | a succeeded batch is in ClickHouse or superseded by a newer one; the inductive invariant of the proofs |
| `rows` | a backfill and a retry, two revisions | *violated*: rows of the loser after the winner's success |
| `slots` | two slots, the second with a manual retry, two securities and two codes, any non-empty list of them, under fairness | identity and code lead to the same stock, a security leaves its stock only along with a code, attempt numbers stay apart, lease respected, orphaned slot taken over; the inductive invariant |
| `summary` | two daily runs and a resend, one retry each, the ledgers change once, under fairness | snapshot frozen, one sender at a time, the notified attempt is the newest success, one automatic message unless reopened, every daily run ends; the inductive invariant |
| `threads` | two threads, rate 2 in a window of 5, interval 2, 14 moments | the window is kept, `Throttle` implemented; the inductive invariant |
| `shared` | two processes, rate 2 in a window of 4, Redis fails, 8 moments, 4 requests | what the script records is a `Throttle`; the inductive invariant: the set stays ordered and bounded and forgets only what no longer counts |
| `web_session` | two tabs, two users, two ticks of a clock with two ticks a second, three tokens, four requests of which two are under way and one times out | no write is done for another user than the tab shows; a password change ends every session; the inductive invariant |
| `web_logout` | two tabs, one user, no timeout | *violated*: a refused logout signs the tab out and leaves the session |
| `live_agents` | one session, two agents, one fault (restart, death, slow lease, lost connection), under fairness | one worker at a time, an ended session stays fenced, no exit while a page is there, a decision in the journal is queued and stays so until it is answered, a decision is answered; the inductive invariant |
| `live_page` | one session, one fault (a reload, a broken stream or an element revealed), one decision, under fairness | an accept that frees the page is in the journal, a page at 0/N for a finished generation whose file is known gets its variants or lets go, unless its read fails or finds none, `SAVING` ends; the inductive invariant, which holds what the page is told to the journal, creates a session once, keeps an ended one ended and loses nothing that the page waits for |
| `live_stranded` | one session, one fault, no decision, under fairness (`BusySpec`) | *violated*: a page that waits for ever for a finished generation, although its file is known and no read has failed |

Why the bounds are enough: the interesting cases of a ledger need an owner, a successor that
takes over, and a third that comes late, each with one return (`MaxStarts = 2`); a lease of
one tick already separates "alive" from "expired"; two revisions tell the loser's rows from
the winner's.  An identity race needs one security and two executions, in one slot or in two.
A notification history needs an automatic success, a failed resend and a second automatic
run.  A limiter needs a window filled, refused and emptied once, and one request more than
the rate while a caller sleeps.  A mix-up of users needs two tabs, two users and one request
that outlives a login in the other tab; a revocation that misses a session needs a second
login and the expiry of the first one's index.  A lease matters between two agents.
A page's first stream opens at any moment, so what is told before that is lost, and one fault
loses what is told to the next: the completion and the message that would repair that.  Any
read may fail, which is no fault of the bound.  Two faults (about a million states) were
explored for safety outside the listed runs, as the liveness properties do not fit into five
minutes then; two sessions in one page with up to three faults were simulated, with no
violation.
Safety does not hang on that bound, as the proofs of section 4 hold for any number of
sessions, `AcceptIsDurable` naming the ways in which a page takes what is said of another
session for the current one.  The counters that would otherwise grow are bounded by
`MaxStarts`, `MaxRevision`, `MaxTime`, `MaxCalls`, `MaxTokens`, `MaxSent`, `MaxInFlight`,
`MaxTimeouts`, `MaxFaults` and `MaxDecisions`; the attempts of the summary are bounded
by the runs and their retries.  Deadlock is not checked: every instance ends when its runs
are over or its clock has reached its bound.

Two executions of one scheduled slot can share an attempt: after a duplicate key the loser
reads the newest attempt and works under it too.  What still holds then (one owner per run,
final results, the refinement) is part of `IInv`, which `dates` checks with both answers of
MySQL and the proofs establish.

Two of the recoveries of live mode back each other up: a page behind a finished generation is
found out by its own checkpoint at the server (`MissedDone`) and by itself on the first
message of a stream (`Missed`).  What `StrandedRecovers` needs in every case is the read of
the source that follows a `done`.  It promises that the page looks, and that variants it finds are shown; a read that fails or
finds no place for them is the end of it until the next stream (section 5), so the property
lets the page rest in `tried`, and it speaks of sessions whose file the server knows.

### Fairness

`FairSpec` of `MarketDataRun`: time passes, a living process goes on, and an operator who has
a retry left submits it.  `FairSpec` of `StockListRun`: time passes, and a manual retry that
is started once the lease is over claims the row.  Nothing is assumed of crashes, failures or
answers.  `FairSpec` of `DailySummary`: Prefect starts every run of the daily flow, and a
living process of it goes on, as each call in it has a timeout; nobody has to resend.
`FairSpec` of `LiveServer`: scaffoldings end (they have a timeout), leases run out, agents go
on polling and working; nobody has to click, connect or fail.  `FairSpec` of `LivePage`:
requests, answers, the stream and reads arrive unless a fault takes them (the browser
reconnects an `EventSource` by itself), where a read that fails has arrived as well; hot
reload need not bring anything, and no agent and no user has to do anything.  `BusySpec`, under which `live_stranded` is violated, lets the
agents work as well, so it is not for want of them that the page waits.  The other modules
state safety only.

## 4. Proofs

`MarketDataRun_proofs` proves, for any sets of runs and flow runs, any lease and any bounds
that satisfy `ConstantsOK`:

* `InvariantHolds`: `IInv` is an invariant.  The properties alone are not inductive: that a
  publication keeps `WinnerAgrees` depends on the attempt in the worker's memory being an
  attempt that exists (`ClaimsExist`), on a run being `RUNNING` exactly when its newest
  attempt is (`RunningAgrees`), on numbers lying within the run's count (`NumbersInRange`),
  and on success being mutual between run and attempt (`SuccessAgrees`); that a success is
  visible depends on what each worker has written not being newer than what `FINAL` shows
  (`WrittenIsShown`).
* `OneOwner`, `Numbered`, `WinnerIsUnique`, `SuccessVisible` follow from `IInv`.
* `SettledForGood` and `LeaseProtects` are action properties, proved step by step from it.
* `RefinesLedger`: under the mapping status, winner, owner = the running attempt, used = the
  attempts that exist, every step is a step of `SyncLedger` or leaves it unchanged.

`RateLimiter_proofs` proves, for any threads, rate, window and interval: `InvariantHolds` (the
deque is the tail of the history, what it forgot is out of the window, a sleeping thread has
read what its sleep depends on), `WindowIsKept`, `MemoryIsBounded`, and `LimiterIsThrottle`.

`RedisRateLimiter_proofs` proves, for any processes, rate, window and interval:

* `InvariantHolds`: `IInv`.  A caller whose clock reading is ahead of others may drop a moment
  that an older reading would still have counted.  It does no harm (`TailKept`): with at most
  `Rate` moments in the set, a caller that drops one is either recorded, or refused because
  it came too soon after the last request; then nobody is recorded before the interval is
  over, and by then the dropped moment is out of every window.
* `RecordedKeepsPromise`: what the script records is a `Throttle`.  Requests let through
  overdue without being recorded, and those of a degraded process, are no part of it.

`WebSession_proofs` proves, for any tabs, users, timeouts and numbers of tokens and requests:

* `InvariantHolds`: `IInv`.  That a password change finds every session needs the index to
  hold each session that `get()` may still find and to outlive it (`IndexCovers`); that a
  second login does not shorten it needs `AbsoluteEnd`, that no session ends later than one
  created now would.  That a write is the tab's own needs a CSRF token to belong to one
  session at most, and every tab, request and answer that holds it to show that session's
  user (`TokensBound`).
* `WritesOwn` and `RevocationComplete` are action properties, proved from it.

`StockListRun_proofs` proves, for any slots, executions, securities and lease:

* `InvariantHolds`: `IInv`.  Beyond the properties it needs what an execution holds (a list
  that is not empty and, once resolved, a stock_id for each of its records;
  `BatchesResolved`), and that both tables respect their keys and a published security stays
  mapped, also under a slot that a late failure has reopened (`TablesKeyed`).
* `MappingIsList`: `MappingAgrees`.  The step to prove is a publication that renames stocks:
  `PublicationOfRecord` shows from the key of the mapping that no stock which stays with its
  security is touched, so what it was published under still holds.
* `Distinct` and `SuccessInList` follow; `IdentityIsStable` (the key on the code stops whoever
  drew another stock for a code that has one) and `LeaseProtects` are action properties.

`DailySummary_proofs` proves, for any runs of both flows, any retries and any changes of the
tasks:

* `InvariantHolds`: `IInv`.  That one run sends at a time needs a sender to hold the running
  attempt (`MemoryAgrees`); that nothing is sent automatically after a delivery needs the
  summary's status to be that of its last attempt (`TablesAgree`): a claim of the daily flow
  then finds the last attempt failed, and that attempt is itself the resend that reopened the
  date, or an automatic one that had to be reopened before.
* `OneSender`, `NotifiedNewest`, `AutomaticOnce` follow; `SnapshotIsFrozen` is an action
  property.

`LiveServer_proofs` proves, for any sessions, agents and faults:

* `InvariantHolds`: `IInv`.  That a generation has one worker rests on the lease: who works
  and has not lapsed holds it (`WorkerHoldsLease`), a scaffolding that is awaited holds one
  too (`PreflightHoldsLease`), and there is one entry per session and type to hold it on
  (`QueueIsKeyed`).  That an ended session stays fenced needs to know that no scaffolding is
  still to end when there is anything to decide on (`BegunIsPrepared`), as its end journals
  a generate event, which reopens any session.  That a pending decision is queued
  (`DecisionHeld`) needs every decision in queue and journal to have canceled its session
  (`DecisionsCancel`), so that no late answer clears it.  That no exit is queued while a page
  is there needs an exit in the queue to mean that its timer was not stopped (`ExitIsTimed`).
* `OneWorker`, `EndedStaysEnded`, `NoDecisionLost`, `NoExit` follow; `UndeliveredStays` is an
  action property.

`LivePage_proofs` proves, for any sessions, faults and decisions:

* `InvariantHolds`: `IInv`, in three layers.  `PageInv`: what a page is told of a decision, by
  an answer or on the stream, is in the journal (`ToldIsJournalled`), and a page saves for the
  session it is in.  `CreatedOnce`: the event that creates a session is posted once and finds
  it unknown, however long its screenshot takes and however late the post of a page that is
  gone; from it follows `CanceledStaysFenced`, since a generate event would reopen what the
  user has ended.  `NothingLost`: see below.
* `LetGoForAReason`: `AcceptIsDurable`, an action property, from `PageInv`.
* `EndedStaysEnded`, and `NothingIsLost`: whoever waits for the creation of a session has the
  generate or its answer under way (`GateIsAwaited`), so a page in `SAVING` has its answer
  coming or its accept behind a gate that opens (`SavingIsAwaited`); a page at 0/N for a
  finished generation whose file is named is reading the source, has a message that makes it
  do so, will be told by the next stream, or has looked in vain since this one opened
  (`WaitingIsNoticed`).  That needs a greeting that is older than the completion to be
  followed by the message of it (`GreetingIsCurrent`), and a read under way to stay until it
  ends in one of the ways above.  That there is something to find is `FinishedIsInSource`: the
  variants of a finished generation are in the source until the user decides.

These invariants are what `SavingEnds` and `StrandedRecovers` rest on: they say that the page
waits for an event that is under way.  That it arrives is fairness, and stays with TLC.

Only model-checked: liveness (`OrphanTakenOver`, `DailyRunsEnd`, `DecisionAnswered`,
`StrandedRecovers`, `SavingEnds`), which these provers do not reach.  Every other property of
a passing run is a theorem.

## 5. What the documents say and the code does not

Each row of the first table is a run whose property quotes a document under `src/specs/`, or a
comment.

| run | document | code |
|---|---|---|
| `rows` | 005 `market-data-service.md:116`: after retries the rows are those of the successful execution | an expired execution inserts its older data later, with a later `updated_at` |
| `web_logout` | 009 `quickstart.md:124`: after a logout a refresh of a protected page leads to the login page | `GET /auth/me` of another tab has rotated the token, the logout is refused with 403, and `finally` signs the tab out all the same (`composables/useAuth.ts:69`) |
| `live_stranded` | comment in `live-browser.js:8902-8910`: on every connect the page notices that generation has finished and pulls the variants | a page restored with the count it had before looks complete to the recovery (line 8917), and to its observer (line 6823) the wrapper brings nothing new |

These are seen in the models too, but have no run of their own:

| document | code |
|---|---|
| 003 `data-model.md:142`: `SUCCEEDED` cannot be reopened | `record_failure` writes `FAILED` without reading the status (`repositories/stock_list.py:404`; `RecordFailure`) |
| 003 `research.md:112-115`: a stock_id is immutable, and an existing mapping comes first | two executions that meet an unknown identity under different codes each insert a stock; the later one overwrites the mapping (`repositories/stock_list.py:368`; `Mapped`) and the other stock stays in the list without a mapping, which is why `IdentityStable` speaks of codes |
| 009 `data-model.md:162`: no automatic message after a success | a failed resend makes the summary `FAILED`, which an automatic claim accepts (`Blocked`); the property that holds says "unless reopened" |
| 009 `quickstart.md:191`: a started summary can be recovered | a `RUNNING` notification attempt has no lease and blocks every later claim |
| `redis_rate_limiter.py:8`: any window holds at most `rate` requests of all processes | a caller whose sleep would reach its deadline goes out unrecorded (`LetThroughOverdue`) |
| comment in `live-browser.js:7139`: progress never overtakes the event that creates its session | the checkpoint of `handleGo` goes out before the generate event and its gate (line 7629); refused as unknown it ends the new session in the page, while the generation runs |
| comment in `live-server.mjs:1244-1246`: a failure is attributed to the event this agent holds a lease on | the first leased entry of the session is taken, whoever holds it: the late error of a generation answers a decision that another agent has in hand (`Inferred`) |

Other behaviours of the code are part of the models without a run of their own: the
block is inserted without a look at the ledger, so also under an attempt that was taken over
(`services/market_data.py:236`); a flow run that is executed again works under its settled
attempt (`repositories/market_data.py:278`) and fails when it tries to record a result; an
execution of the stock list that lost its slot to a retry still publishes as long as the row
is `RUNNING` (`repositories/stock_list.py:317`); a list that gives the old code of one
identity to a new one is refused by the key of the mapping, at every attempt, as the stock is
found by the code (`repositories/stock_list.py:268`); an error that answers no queued event clears
a pending decision of its session (`live/session-store.mjs:527-535`), which is why
`DecisionAnswered` lets a session rest in `agent_error`; the answer to a discard cleans up
the session the page is in by then (`live-browser.js:8692-8696`); a read of a finished
generation's source that fails shows a toast and is not tried again, and one that finds no
wrapper or no original is silent (`live-browser.js:6338-6341`, 6218-6247, 6259; `ReadInVain`),
one that finds no element to replace waits until it is revealed (6261-6271; `FindsNoAnchor`),
and a generation whose file nobody named is not read at all (8923; `Learns`, `Missed`), so that
in each case the page stays in `GENERATING` until a hot reload, a reload or the next stream,
with nothing under way (`StrandedRecovers` and `WaitingIsNoticed` except the first three and
speak only of `named` sessions); a read that was asked for earlier and finds only the scaffold
ends a `SAVING` (6319), and one that finds no element takes the page, whatever it does, back to
`GENERATING` (5185), also without a session; a password change whose
revocation fails keeps the old sessions (`services/auth.py:150`), with an error for an answer.

## 6. Not modelled

* Row validation, message rendering, HTTP parsing, configuration, logging, table definitions,
  and the read-only research queries: they compute on data and change no state the
  properties are about.
* The broker ledger, which repeats the protocol of `MarketDataRun` on tables of its own with
  the records in the publishing transaction; the watermark of the shareholder data; the
  calendar's coverage; the pages and the retry budget of the providers, whose outcome (a
  batch or a failure) the modules take as a choice; clocks that differ between the workers of
  a slot.
* Watchlists: their checks span two transactions, but one API process runs one handler at a
  time.  Several API processes would also let `get()` and `rotate_csrf` write a session back
  that another process has just deleted; `WebSession` has the one process that the
  repository's documents start.
* The cached queries of the front end (`app/providers/index.ts` keeps them for 30 seconds,
  also when another user logs in), its views, and the cookie's `max_age`.
* Live mode: steering, prefetches, parameters, mount failures, manual edits, previews of
  framework components, two pages on one server, a restart of the
  server in `LivePage`, the revision numbers of checkpoints (a session's newest is assumed),
  a partial arrival of variants, and the files of the source lock.  Of the reads in `LivePage`:
  the three repetitions of a read that finds the scaffold are one more read (`bare` tells
  whether it was), those of an orphan are one; the file a page remembers is that of its
  session; a cleanup resets the count of variants, which the code keeps and the next session
  sets anew; the fallback that takes a wrapper out two seconds after a cleanup is modelled for
  bare ones only, the others leave with their source; revealing the element is bounded with
  the faults, and need not happen.
* The design detector, the hooks and the command-line tools of `.agents/skills/`: rules over
  style sheets and documents, rewriting of source text, one-shot commands.  They are most of
  the repository's JavaScript and keep no state between two steps, so there is no behaviour
  for TLC to explore; the modules take the outcome of the source rewriting (variants in the
  source or not, an error) as a choice.

## 7. Order of work

Done, in order of importance: `SyncLedger`, `MarketDataRun`, `StockListRun`, `DailySummary`,
`Throttle`, `RateLimiter`, `RedisRateLimiter` and `WebSession`, each concrete one with its
proofs; `LiveStore`, `LiveServer`, `LivePage`, with theirs.

Next would be the broker ledger as a second implementation of `SyncLedger`
(`repositories/broker_recommendation.py:200-337`), the pages and the retry budget of a fetch
(`integrations/tushare/daily_quote_provider.py:89-217`), and manual edits of live mode
(`live/manual-edit-routes.mjs`).  Worth proving next: that the broker
ledger implements `SyncLedger`, and what the liveness of a slot and of a decision rests on, as
`NothingIsLost` does for the page.
