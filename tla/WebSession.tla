----------------------------- MODULE WebSession -----------------------------
(***************************************************************************)
(* The workbench's sessions: the tabs of one browser, which share its      *)
(* cookie, and the API with its sessions in Redis.  The API is one uvicorn *)
(* process whose handlers never await between the Redis commands of a      *)
(* request, so a handler is one step; requests and answers of different    *)
(* tabs, timeouts, reloads and the clock come in between.  Login names are *)
(* users; whether a password is right is a choice.                         *)
(***************************************************************************)
EXTENDS Integers, FiniteSets

CONSTANTS
    Tab, User,
    Second,             \* ticks of the clock per second: Redis counts in seconds
    Idle, Absolute,     \* session_idle_timeout_seconds, session_absolute_timeout_seconds
    MaxTime,            \* bound: the clock
    MaxTokens,          \* bound: tokens drawn
    MaxInFlight,        \* bound: requests and answers under way
    MaxSent,            \* bound: requests sent
    MaxTimeouts,        \* bound: requests that time out at the tab
    Nothing

ASSUME ConstantsOK ==
    /\ Second \in Nat \ {0} /\ Idle \in Nat \ {0} /\ Absolute \in Nat \ {0}
    /\ MaxTime \in Nat /\ MaxTokens \in Nat /\ MaxInFlight \in Nat
    /\ MaxSent \in Nat /\ MaxTimeouts \in Nat
    /\ Nothing \notin User

\* Tokens are random: here the numbers of their draws, 0 for none.  A session
\* has the number of its first CSRF token.
Session == 1..MaxTokens

VARIABLES
    now,
    disabled,    \* app_user: the users whose status is DISABLED
    session,     \* auth:session:<digest>, Nothing before it is created and after it is deleted
    index,       \* auth:user:<id>:sessions, the digests of a user and the key's expiry
    tokens,      \* how many tokens have been drawn
    cookie,      \* the browser's lucking_session cookie
    tab,         \* stores/session.ts and the csrfToken of http.ts in each tab
    requests,    \* requests the API has not handled
    answers,     \* answers a tab waits for
    sent, timeouts

vars == <<now, disabled, session, index, tokens, cookie, tab, requests, answers, sent,
          timeouts>>

Redis == <<session, index, tokens>>

\* What a tab without a user keeps, mounted and before.
SignedOut == [ready |-> TRUE, user |-> Nothing, csrf |-> 0]
Booting == [ready |-> FALSE, user |-> Nothing, csrf |-> 0]

Init ==
    /\ now = 0
    /\ disabled = {}
    /\ session = [s \in Session |-> Nothing]
    /\ index = [u \in User |-> [digests |-> {}, expires |-> 0]]
    /\ tokens = 0
    /\ cookie = 0
    /\ tab = [t \in Tab |-> SignedOut]
    /\ requests = {}
    /\ answers = {}
    /\ sent = 0
    /\ timeouts = 0

-----------------------------------------------------------------------------
(* Sessions in Redis *)

Smaller(a, b) == IF a < b THEN a ELSE b
Larger(a, b) == IF a < b THEN b ELSE a

\* The key is there: Redis deletes it at its expiry.
Exists(s) == s # 0 /\ session[s] # Nothing /\ now < session[s].expires

\* get() finds a session that is not past its absolute end.
Found(s) == Exists(s) /\ now < session[s].absolute

\* authenticate() also asks for an active user.
Accepted(s) == Found(s) /\ session[s].user \notin disabled

\* What get() writes back: the idle timeout starts again, within the absolute one.
Touched(s) ==
    [session EXCEPT ![s].expires =
        now + Second * Larger(1, Smaller(Idle, (session[s].absolute - now) \div Second))]

\* The user's digests; an expired key has none.
Digests(u) == IF now < index[u].expires THEN index[u].digests ELSE {}

\* Fault: EXPIRE only when the key is new.
IndexedOnce(u, s) ==
    [index EXCEPT ![u] = [digests |-> Digests(u) \cup {s},
                          expires |-> IF now < @.expires THEN @.expires ELSE now + Second * Absolute]]

Indexed(u, s) ==
    [index EXCEPT ![u] = [digests |-> Digests(u) \cup {s}, expires |-> now + Second * Absolute]]

Created(u, s) ==
    [session EXCEPT ![s] = [user |-> u, csrf |-> s,
                            absolute |-> now + Second * Absolute,
                            expires |-> now + Second * Smaller(Idle, Absolute)]]

Delete(s) ==
    /\ session' = [session EXCEPT ![s] = Nothing]
    /\ index' = [index EXCEPT ![session[s].user].digests = @ \ {s}]

\* Fault: only the session that asks is revoked.
RevokeCurrent(u, s) ==
    /\ session' = [session EXCEPT ![s] = Nothing]
    /\ index' = [index EXCEPT ![u].digests = @ \ {s}]

RevokeUser(u, s) ==
    /\ session' = [d \in Session |-> IF d \in Digests(u) THEN Nothing ELSE session[d]]
    /\ index' = [index EXCEPT ![u] = [digests |-> {}, expires |-> 0]]

-----------------------------------------------------------------------------
(* Handlers of the API *)

\* Fault: the token is compared with those of all sessions.
AnyCsrf(r) == \E s \in Session : Exists(s) /\ session[s].csrf = r.csrf

VerifyCsrf(r) == session[r.cookie].csrf = r.csrf

Answer(r, ok, s, user, csrf) ==
    /\ requests' = requests \ {r}
    /\ answers' = IF r.awaited
                  THEN answers \cup {[tab |-> r.tab, kind |-> r.kind, ok |-> ok, session |-> s,
                                      user |-> user, csrf |-> csrf]}
                  ELSE answers
    /\ UNCHANGED <<now, disabled, cookie, tab, sent, timeouts>>

Refuse(r) == Answer(r, FALSE, r.cookie, Nothing, 0)

Secured == {"logout", "password", "write"}

\* 401: no session, or one that get() or authenticate() deletes.
Unauthorized(r) ==
    /\ r.kind # "login"
    /\ ~Accepted(r.cookie)
    /\ IF Exists(r.cookie) THEN Delete(r.cookie) ELSE UNCHANGED <<session, index>>
    /\ Refuse(r)
    /\ UNCHANGED tokens

\* 403: require_csrf(), after authenticate() has refreshed the session.
Forbidden(r) ==
    /\ r.kind \in Secured
    /\ Accepted(r.cookie)
    /\ ~VerifyCsrf(r)
    /\ session' = Touched(r.cookie)
    /\ Refuse(r)
    /\ UNCHANGED <<index, tokens>>

Admitted(r) == r.kind \in Secured /\ Accepted(r.cookie) /\ VerifyCsrf(r)

\* POST /auth/login
Login(r) ==
    /\ r.kind = "login"
    /\ r.user \notin disabled
    /\ tokens < MaxTokens
    /\ tokens' = tokens + 1
    /\ session' = Created(r.user, tokens + 1)
    /\ index' = Indexed(r.user, tokens + 1)
    /\ Answer(r, TRUE, tokens + 1, r.user, tokens + 1)

\* 401 or 429: a wrong password, a disabled user, too many attempts.
LoginRefused(r) ==
    /\ r.kind = "login"
    /\ Refuse(r)
    /\ UNCHANGED Redis

\* GET /auth/me draws a new token for the session.
CurrentUser(r) ==
    /\ r.kind = "me"
    /\ Accepted(r.cookie)
    /\ tokens < MaxTokens
    /\ session' = [Touched(r.cookie) EXCEPT ![r.cookie].csrf = tokens + 1]
    /\ tokens' = tokens + 1
    /\ Answer(r, TRUE, r.cookie, session[r.cookie].user, tokens + 1)
    /\ UNCHANGED index

Logout(r) ==
    /\ r.kind = "logout"
    /\ Admitted(r)
    /\ Delete(r.cookie)
    /\ Answer(r, TRUE, r.cookie, Nothing, 0)
    /\ UNCHANGED tokens

\* PUT /auth/password commits the new hash in MySQL, then revokes.
ChangePassword(r) ==
    /\ r.kind = "password"
    /\ Admitted(r)
    /\ RevokeUser(session[r.cookie].user, r.cookie)
    /\ Answer(r, TRUE, r.cookie, session[r.cookie].user, 0)
    /\ UNCHANGED tokens

\* 401 or 400 for the passwords; or the new hash is committed and Redis fails
\* before the revocation: the sessions stay and the answer is an error.
PasswordRefused(r) ==
    /\ r.kind = "password"
    /\ Admitted(r)
    /\ session' = Touched(r.cookie)
    /\ Refuse(r)
    /\ UNCHANGED <<index, tokens>>

\* Any other write of the workbench: it is done for the session's user.
Write(r) ==
    /\ r.kind = "write"
    /\ Admitted(r)
    /\ session' = Touched(r.cookie)
    /\ Answer(r, TRUE, r.cookie, Nothing, 0)
    /\ UNCHANGED <<index, tokens>>

Handle(r) ==
    \/ Unauthorized(r)
    \/ Forbidden(r)
    \/ Login(r)
    \/ LoginRefused(r)
    \/ CurrentUser(r)
    \/ Logout(r)
    \/ ChangePassword(r)
    \/ PasswordRefused(r)
    \/ Write(r)

-----------------------------------------------------------------------------
(* Tabs *)

Sending ==
    /\ Cardinality(requests) + Cardinality(answers) < MaxInFlight
    /\ sent < MaxSent
    /\ sent' = sent + 1

\* The browser adds the cookie, the interceptor of http.ts the token, unless
\* the request is a GET.
Request(t, kind, user) ==
    [tab |-> t, kind |-> kind, cookie |-> cookie,
     csrf |-> IF kind = "me" THEN 0 ELSE tab[t].csrf, user |-> user, awaited |-> TRUE]

\* The page that sent the request is gone.
Left(t, m) == IF m.tab = t THEN [m EXCEPT !.awaited = FALSE] ELSE m

Sends(t, kind, user) ==
    /\ tab[t].ready
    /\ Sending
    /\ requests' = requests \cup {Request(t, kind, user)}
    /\ UNCHANGED <<now, disabled, Redis, cookie, tab, answers, timeouts>>

\* The login view is reached without a user, the others with one.
SubmitsLogin(t, u) == tab[t].user = Nothing /\ Sends(t, "login", u)

Submits(t, kind) == tab[t].user # Nothing /\ Sends(t, kind, tab[t].user)

\* The page is loaded: bootstrap() asks for the session before it mounts the
\* application, and what the old page waited for is nobody's any more.
Reload(t) ==
    /\ Sending
    /\ tab' = [tab EXCEPT ![t] = Booting]
    /\ requests' = {Left(t, m) : m \in requests} \cup {Request(t, "me", Nothing)}
    /\ answers' = {a \in answers : a.tab # t}
    /\ UNCHANGED <<now, disabled, Redis, cookie, timeouts>>

Established(a) == [ready |-> TRUE, user |-> a.user, csrf |-> a.csrf]

\* What useAuth() makes of the end of a call.
Settled(t, a) ==
    CASE a.kind \in {"login", "me"} /\ a.ok -> Established(a)
      [] \/ a.kind = "me" /\ ~a.ok
         \/ a.kind = "logout"
         \/ a.kind = "password" /\ a.ok -> SignedOut
      [] OTHER -> tab[t]

\* The answer arrives; Set-Cookie is the browser's, the rest the tab's.
Receive(a) ==
    /\ answers' = answers \ {a}
    /\ tab' = [tab EXCEPT ![a.tab] = Settled(a.tab, a)]
    /\ cookie' = CASE a.ok /\ a.kind = "login" -> a.session
                   [] a.ok /\ a.kind \in {"logout", "password"} -> 0
                   [] OTHER -> cookie
    /\ UNCHANGED <<now, disabled, Redis, requests, sent, timeouts>>

\* Fifteen seconds without an answer, or a broken connection; the API may
\* still handle the request.
TimesOut(r) ==
    /\ r.awaited
    /\ timeouts < MaxTimeouts
    /\ timeouts' = timeouts + 1
    /\ requests' = (requests \ {r}) \cup {[r EXCEPT !.awaited = FALSE]}
    /\ tab' = [tab EXCEPT ![r.tab] = Settled(r.tab, [kind |-> r.kind, ok |-> FALSE])]
    /\ UNCHANGED <<now, disabled, Redis, cookie, answers, sent>>

-----------------------------------------------------------------------------
Tick ==
    /\ now < MaxTime
    /\ now' = now + 1
    /\ UNCHANGED <<disabled, Redis, cookie, tab, requests, answers, sent, timeouts>>

\* python -m lucking.admin disable-user
Disable(u) ==
    /\ u \notin disabled
    /\ disabled' = disabled \cup {u}
    /\ UNCHANGED <<now, Redis, cookie, tab, requests, answers, sent, timeouts>>

Next ==
    \/ \E t \in Tab : Reload(t)
    \/ \E t \in Tab, u \in User : SubmitsLogin(t, u)
    \/ \E t \in Tab, kind \in Secured : Submits(t, kind)
    \/ \E r \in requests : Handle(r)
    \/ \E a \in answers : Receive(a)
    \/ \E r \in requests : TimesOut(r)
    \/ Tick
    \/ \E u \in User : Disable(u)

Spec == Init /\ [][Next]_vars

-----------------------------------------------------------------------------
Kinds == {"me", "login"} \cup Secured
Users == User \cup {Nothing}
Tokens == 0..tokens

\* Every variable keeps its type; no message holds a token not drawn yet.
TypeOK ==
    /\ now \in Nat /\ tokens \in 0..MaxTokens /\ cookie \in Tokens
    /\ disabled \subseteq User
    /\ session \in [Session ->
           {Nothing} \cup [user : User, csrf : Session, absolute : Nat, expires : Nat]]
    /\ \A s \in Session : session[s] # Nothing => s \in Tokens /\ session[s].csrf \in Tokens
    /\ index \in [User -> [digests : SUBSET Session, expires : Nat]]
    /\ tab \in [Tab -> [ready : BOOLEAN, user : Users, csrf : Tokens]]
    /\ requests \subseteq [tab : Tab, kind : Kinds, cookie : Tokens, csrf : Tokens,
                           user : Users, awaited : BOOLEAN]
    /\ answers \subseteq [tab : Tab, kind : Kinds, ok : BOOLEAN, session : Tokens,
                          user : Users, csrf : Tokens]

\* A session that get() may still find is in its user's index, and the index
\* outlives it (repositories/redis_session.py create, get, delete).
IndexCovers ==
    \A s \in Session :
        session[s] # Nothing /\ now < session[s].absolute =>
            /\ s \in index[session[s].user].digests
            /\ session[s].absolute <= index[session[s].user].expires

\* No session ends later than one created now would (create, get, rotate_csrf).
AbsoluteEnd ==
    \A s \in Session :
        session[s] # Nothing => session[s].absolute <= now + Second * Absolute

\* A CSRF token is of no use to a tab that shows another user.
Proves(csrf, user) ==
    \A s \in Session :
        session[s] # Nothing /\ session[s].csrf = csrf => session[s].user = user

TokensBound ==
    /\ \A s, r \in Session :
           /\ session[s] # Nothing /\ session[r] # Nothing
           /\ session[s].csrf = session[r].csrf
           => s = r
    /\ \A t \in Tab : Proves(tab[t].csrf, tab[t].user)
    /\ \A t \in Tab : tab[t].user = Nothing => tab[t].csrf = 0
    /\ \A r \in requests : Proves(r.csrf, r.user)
    /\ \A r \in requests : r.kind = "login" => r.user \in User
    /\ \A a \in answers : Proves(a.csrf, a.user)
    /\ \A a \in answers : a.ok /\ a.kind \in {"me", "login"} => a.user \in User

\* The inductive invariant.
IInv == TypeOK /\ IndexCovers /\ AbsoluteEnd /\ TokensBound

\* A write is done for the user whom the tab that sent it showed, although
\* another tab may have changed the shared cookie meanwhile
\* (api/dependencies.py require_csrf, http.ts).
WritesAreOwn == [][\A r \in requests : Write(r) => session[r.cookie].user = r.user]_vars

\* When a password change is answered with success no session of the user is
\* accepted any more, whichever browser it belongs to (services/auth.py
\* change_password, redis_session.py revoke_user).
RevocationIsComplete ==
    [][\A a \in answers' \ answers :
           a.kind = "password" /\ a.ok =>
               \A s \in Session : session'[s] # Nothing /\ session'[s].user = a.user
                                 => ~Accepted(s)']_vars

\* specs/009-investment-workbench/quickstart.md:124: after a logout a refresh of
\* a protected page leads to the login page, so when logout() has its answer
\* the API accepts its session no more.
LogoutIsFinal ==
    [][\A a \in answers \ answers' :
           a.kind = "logout" /\ tab'[a.tab].ready => ~Accepted(a.session)']_vars

=============================================================================
