------------------------- MODULE WebSession_proofs --------------------------
(***************************************************************************)
(* Proofs about WebSession: its inductive invariant, that a password       *)
(* change ends every session of the user, and that a write is done for the *)
(* user whom the tab showed.                                               *)
(***************************************************************************)
EXTENDS WebSession, TLAPS

\* The invariant in two parts: what Redis holds, and what the tabs hold.
Kept == [user : User, csrf : Session, absolute : Nat, expires : Nat]
Stored == {Nothing} \cup Kept

ServerOK ==
    /\ now \in Nat /\ tokens \in 0..MaxTokens /\ disabled \subseteq User
    /\ session \in [Session -> Stored]
    /\ \A s \in Session : session[s] # Nothing => s \in Tokens /\ session[s].csrf \in Tokens
    /\ index \in [User -> [digests : SUBSET Session, expires : Nat]]
    /\ IndexCovers
    /\ AbsoluteEnd
    /\ \A s, r \in Session :
           /\ session[s] # Nothing /\ session[r] # Nothing
           /\ session[s].csrf = session[r].csrf
           => s = r

Requested ==
    [tab : Tab, kind : Kinds, cookie : Tokens, csrf : Tokens, user : Users, awaited : BOOLEAN]

Answered ==
    [tab : Tab, kind : Kinds, ok : BOOLEAN, session : Tokens, user : Users, csrf : Tokens]

TabOK(t) ==
    /\ Proves(tab[t].csrf, tab[t].user)
    /\ tab[t].user = Nothing => tab[t].csrf = 0

RequestOK(r) ==
    /\ r \in Requested
    /\ Proves(r.csrf, r.user)
    /\ r.kind = "login" => r.user \in User

AnswerOK(a) ==
    /\ a \in Answered
    /\ Proves(a.csrf, a.user)
    /\ a.ok /\ a.kind \in {"me", "login"} => a.user \in User

ClientOK ==
    /\ cookie \in Tokens
    /\ tab \in [Tab -> [ready : BOOLEAN, user : Users, csrf : Tokens]]
    /\ \A t \in Tab : TabOK(t)
    /\ \A r \in requests : RequestOK(r)
    /\ \A a \in answers : AnswerOK(a)

LEMMA Parts == IInv <=> ServerOK /\ ClientOK
  BY DEF IInv, TypeOK, TokensBound, ServerOK, ClientOK, Stored, Kept, Requested, Answered, TabOK,
         RequestOK, AnswerOK

\* A session of the next state is one of this state with its user and token,
\* or holds the token drawn in this step.
KeptOrDrawn ==
    /\ tokens' \in 0..MaxTokens
    /\ \/ tokens' = tokens
       \/ tokens' = tokens + 1
    /\ \A s \in Session :
           session'[s] # Nothing =>
               \/ session'[s].csrf = tokens + 1
               \/ /\ session[s] # Nothing
                  /\ session'[s].csrf = session[s].csrf
                  /\ session'[s].user = session[s].user

\* Tokens drawn before a step prove after it what they proved before.
LEMMA OldTokens ==
    ASSUME ServerOK, KeptOrDrawn
    PROVE  /\ Tokens \subseteq Tokens'
           /\ \A csrf \in Tokens, user \in Users :
                  Proves(csrf, user) =>
                      \A s \in Session :
                          session'[s] # Nothing /\ session'[s].csrf = csrf
                          => session'[s].user = user
<1>1. tokens \in Nat /\ tokens' \in Nat /\ tokens <= tokens'
  BY ConstantsOK DEF ServerOK, KeptOrDrawn
<1>2. Tokens \subseteq Tokens'
  BY <1>1 DEF Tokens
<1>3. ASSUME NEW csrf \in Tokens, NEW user \in Users, Proves(csrf, user), NEW s \in Session,
             session'[s] # Nothing, session'[s].csrf = csrf
      PROVE  session'[s].user = user
  <2>1. csrf # tokens + 1
    BY <1>1 DEF Tokens
  <2>2. QED
    BY <1>3, <2>1 DEF KeptOrDrawn, Proves
<1>4. QED
  BY <1>2, <1>3

\* No session has the token 0.
LEMMA NoToken ==
    ASSUME ServerOK, NEW user
    PROVE  Proves(0, user)
  BY ConstantsOK DEF ServerOK, Proves, Session, Stored, Kept

\* The messages and tabs that a step leaves alone stay in order.
LEMMA ClientKept ==
    ASSUME ServerOK, ClientOK, KeptOrDrawn
    PROVE  /\ UNCHANGED cookie => (cookie \in Tokens)'
           /\ UNCHANGED tab =>
                  /\ (tab \in [Tab -> [ready : BOOLEAN, user : Users, csrf : Tokens]])'
                  /\ (\A t \in Tab : TabOK(t))'
           /\ \A r \in requests : RequestOK(r)'
           /\ \A a \in answers : AnswerOK(a)'
<1>1. /\ Tokens \subseteq Tokens'
      /\ \A csrf \in Tokens, user \in Users :
             Proves(csrf, user) =>
                 \A s \in Session :
                     session'[s] # Nothing /\ session'[s].csrf = csrf
                     => session'[s].user = user
  BY OldTokens
<1>2. UNCHANGED cookie => (cookie \in Tokens)'
  BY <1>1 DEF ClientOK
<1>3. ASSUME UNCHANGED tab
      PROVE  /\ (tab \in [Tab -> [ready : BOOLEAN, user : Users, csrf : Tokens]])'
             /\ (\A t \in Tab : TabOK(t))'
  <2>1. (tab \in [Tab -> [ready : BOOLEAN, user : Users, csrf : Tokens]])'
    BY <1>1, <1>3 DEF ClientOK
  <2>2. ASSUME NEW t \in Tab
        PROVE  TabOK(t)'
    <3>1. tab[t].csrf \in Tokens /\ tab[t].user \in Users /\ TabOK(t)
      BY DEF ClientOK
    <3>2. QED
      BY <1>1, <1>3, <3>1 DEF TabOK, Proves
  <2>3. QED
    BY <2>1, <2>2
<1>4. ASSUME NEW r \in requests
      PROVE  RequestOK(r)'
  <2>1. RequestOK(r)
    BY DEF ClientOK
  <2>2. r.csrf \in Tokens /\ r.user \in Users
    BY <2>1 DEF RequestOK, Requested
  <2>3. (r \in Requested)'
    BY <1>1, <2>1 DEF RequestOK, Requested
  <2>4. Proves(r.csrf, r.user)'
    BY <1>1, <2>1, <2>2 DEF RequestOK, Proves
  <2>5. QED
    BY <2>1, <2>3, <2>4 DEF RequestOK
<1>5. ASSUME NEW a \in answers
      PROVE  AnswerOK(a)'
  <2>1. AnswerOK(a)
    BY DEF ClientOK
  <2>2. a.csrf \in Tokens /\ a.user \in Users
    BY <2>1 DEF AnswerOK, Answered
  <2>3. (a \in Answered)'
    BY <1>1, <2>1 DEF AnswerOK, Answered
  <2>4. Proves(a.csrf, a.user)'
    BY <1>1, <2>1, <2>2 DEF AnswerOK, Proves
  <2>5. QED
    BY <2>1, <2>3, <2>4 DEF AnswerOK
<1>6. QED
  BY <1>2, <1>3, <1>4, <1>5

\* A handler adds at most one answer, and it must be in order.
LEMMA AnswerKeeps ==
    ASSUME ServerOK, ClientOK, KeptOrDrawn,
           NEW r \in requests, NEW ok \in BOOLEAN, NEW s \in Tokens', NEW user \in Users,
           NEW csrf \in Tokens', Answer(r, ok, s, user, csrf),
           Proves(csrf, user)',
           ok /\ r.kind \in {"me", "login"} => user \in User
    PROVE  ClientOK'
<1> DEFINE a == [tab |-> r.tab, kind |-> r.kind, ok |-> ok, session |-> s, user |-> user,
                 csrf |-> csrf]
<1>1. /\ (cookie \in Tokens)'
      /\ (tab \in [Tab -> [ready : BOOLEAN, user : Users, csrf : Tokens]])'
      /\ (\A t \in Tab : TabOK(t))'
      /\ \A q \in requests : RequestOK(q)'
      /\ \A q \in answers : AnswerOK(q)'
  BY ClientKept DEF Answer
<1>2. r \in Requested
  BY DEF ClientOK, RequestOK
<1>3. (a \in Answered)'
  BY <1>2 DEF Requested, Answered
<1>4. AnswerOK(a)'
  BY <1>3 DEF AnswerOK
<1>5. requests' \subseteq requests /\ answers' \subseteq answers \cup {a}
  BY DEF Answer
<1>6. QED
  BY <1>1, <1>4, <1>5 DEF ClientOK

\* A refusal holds no token.
LEMMA RefusalKeeps ==
    ASSUME ServerOK, ServerOK', ClientOK, KeptOrDrawn, NEW r \in requests, Refuse(r)
    PROVE  ClientOK'
<1>1. r.cookie \in Tokens' /\ 0 \in Tokens'
  <2>1. r.cookie \in Tokens
    BY DEF ClientOK, RequestOK, Requested
  <2>2. Tokens \subseteq Tokens'
    BY OldTokens
  <2>3. 0 \in Tokens
    BY ConstantsOK DEF ServerOK, Tokens
  <2>4. QED
    BY <2>1, <2>2, <2>3
<1>2. Proves(0, Nothing)'
  BY ConstantsOK DEF ServerOK, Proves, Session, Stored, Kept
<1>3. Nothing \in Users
  BY DEF Users
<1>4. QED
  BY <1>1, <1>2, <1>3, AnswerKeeps DEF Refuse

-----------------------------------------------------------------------------
(* What the operations on Redis keep *)

\* No operation adds a session: each stored session was stored before, with
\* the same user, token and absolute end.
Keeps ==
    /\ tokens' = tokens
    /\ session' \in [Session -> Stored]
    /\ \A s \in Session :
           session'[s] # Nothing =>
               /\ session[s] # Nothing
               /\ session'[s].user = session[s].user
               /\ session'[s].csrf = session[s].csrf
               /\ session'[s].absolute = session[s].absolute

\* The index loses no digest of a session that stays.
KeepsIndexed ==
    /\ index' \in [User -> [digests : SUBSET Session, expires : Nat]]
    /\ \A s \in Session :
           session'[s] # Nothing =>
               LET u == session[s].user
               IN  /\ s \in index[u].digests => s \in index'[u].digests
                   /\ index'[u].expires = index[u].expires

LEMMA ServerKept ==
    ASSUME ServerOK, Keeps, KeepsIndexed, now' \in Nat, now <= now', (disabled \subseteq User)'
    PROVE  ServerOK' /\ KeptOrDrawn
<1>1. ServerOK'
  <2>1. (\A s \in Session : session[s] # Nothing => s \in Tokens /\ session[s].csrf \in Tokens)'
    BY DEF ServerOK, Keeps, Tokens
  <2>2. IndexCovers'
    <3>1. ASSUME NEW s \in Session, session'[s] # Nothing, now' < session'[s].absolute
          PROVE  /\ s \in index'[session'[s].user].digests
                 /\ session'[s].absolute <= index'[session'[s].user].expires
      <4>1. /\ session[s] # Nothing /\ session'[s].user = session[s].user
            /\ session'[s].absolute = session[s].absolute
        BY <3>1 DEF Keeps
      <4>2. session[s].absolute \in Nat /\ now \in Nat
        BY <4>1 DEF ServerOK, Stored, Kept
      <4>3. now < session[s].absolute
        BY <3>1, <4>1, <4>2
      <4>4. /\ s \in index[session[s].user].digests
            /\ session[s].absolute <= index[session[s].user].expires
        BY <4>1, <4>3 DEF ServerOK, IndexCovers
      <4>5. QED
        BY <3>1, <4>1, <4>4 DEF KeepsIndexed
    <3>2. QED
      BY <3>1 DEF IndexCovers
  <2>3. (\A s, r \in Session :
            /\ session[s] # Nothing /\ session[r] # Nothing
            /\ session[s].csrf = session[r].csrf
            => s = r)'
    BY DEF ServerOK, Keeps
  <2>4. AbsoluteEnd'
    <3>1. ASSUME NEW s \in Session, session'[s] # Nothing
          PROVE  session'[s].absolute <= now' + Second * Absolute
      <4>1. session[s] # Nothing /\ session'[s].absolute = session[s].absolute
        BY <3>1 DEF Keeps
      <4>2. session[s].absolute \in Nat /\ session[s].absolute <= now + Second * Absolute
        BY <4>1 DEF ServerOK, AbsoluteEnd, Stored, Kept
      <4>3. now \in Nat /\ Second * Absolute \in Nat
        BY ConstantsOK DEF ServerOK
      <4>4. QED
        BY <4>1, <4>2, <4>3
    <3>2. QED
      BY <3>1 DEF AbsoluteEnd
  <2>5. QED
    BY <2>1, <2>2, <2>3, <2>4 DEF ServerOK, Keeps, KeepsIndexed
<1>2. KeptOrDrawn
  BY DEF ServerOK, Keeps, KeptOrDrawn
<1>3. QED
  BY <1>1, <1>2

LEMMA Accepting ==
    ASSUME ServerOK, NEW s \in Tokens, Exists(s)
    PROVE  s \in Session /\ session[s] \in Stored /\ session[s] # Nothing
  BY ConstantsOK DEF ServerOK, Exists, Tokens, Session

\* get() changes the expiry of one session only.
LEMMA TouchedKeeps ==
    ASSUME ServerOK, NEW s \in Tokens, Exists(s)
    PROVE  /\ Touched(s) \in [Session -> Stored]
           /\ \A d \in Session :
                  /\ Touched(s)[d] # Nothing => session[d] # Nothing
                  /\ session[d] # Nothing =>
                         /\ Touched(s)[d] \in Kept
                         /\ Touched(s)[d].user = session[d].user
                         /\ Touched(s)[d].csrf = session[d].csrf
                         /\ Touched(s)[d].absolute = session[d].absolute
<1> DEFINE n == (session[s].absolute - now) \div Second
           e == now + Second * Larger(1, Smaller(Idle, n))
<1>1. s \in Session /\ session[s] \in Stored /\ session[s] # Nothing
  BY Accepting
<1>2. session[s] \in Kept
  BY <1>1 DEF Stored, Kept
<1>3. n \in Int
  BY <1>2, ConstantsOK DEF ServerOK, Kept
<1>4. Larger(1, Smaller(Idle, n)) \in Nat
  BY <1>3, ConstantsOK DEF Larger, Smaller
<1>5. e \in Nat
  BY <1>4, ConstantsOK DEF ServerOK
<1> HIDE DEF n, e
<1>6. Touched(s) = [session EXCEPT ![s] = [session[s] EXCEPT !.expires = e]]
  BY DEF Touched, n, e
<1>7. [session[s] EXCEPT !.expires = e] \in Kept
  BY <1>2, <1>5 DEF Kept
<1>8. Touched(s) \in [Session -> Stored]
  BY <1>1, <1>6, <1>7 DEF ServerOK, Stored
<1>9. ASSUME NEW d \in Session
      PROVE  /\ Touched(s)[d] # Nothing => session[d] # Nothing
             /\ session[d] # Nothing =>
                    /\ Touched(s)[d] \in Kept
                    /\ Touched(s)[d].user = session[d].user
                    /\ Touched(s)[d].csrf = session[d].csrf
                    /\ Touched(s)[d].absolute = session[d].absolute
  <2>1. CASE d = s
    BY <1>1, <1>2, <1>6, <1>7, <2>1 DEF ServerOK, Kept
  <2>2. CASE d # s
    BY <1>6, <2>2 DEF ServerOK, Stored
  <2>3. QED
    BY <2>1, <2>2
<1>10. QED
  BY <1>8, <1>9

\* A request that only touches its session.
LEMMA TouchServer ==
    ASSUME ServerOK, NEW s \in Tokens, Exists(s), session' = Touched(s),
           UNCHANGED <<now, disabled, index, tokens>>
    PROVE  ServerOK' /\ KeptOrDrawn
<1>1. Keeps
  BY TouchedKeeps DEF Keeps
<1>2. KeepsIndexed
  BY DEF ServerOK, KeepsIndexed
<1>3. now' \in Nat /\ now <= now' /\ (disabled \subseteq User)'
  BY DEF ServerOK
<1>4. QED
  BY <1>1, <1>2, <1>3, ServerKept

LEMMA DeleteServer ==
    ASSUME ServerOK, NEW s \in Tokens, Exists(s), Delete(s), UNCHANGED <<now, disabled, tokens>>
    PROVE  ServerOK' /\ KeptOrDrawn
<1>1. s \in Session /\ session[s] \in Stored /\ session[s] # Nothing
  BY Accepting
<1>2. Keeps
  BY <1>1 DEF Keeps, Delete, ServerOK, Stored, Kept
<1>3. session[s].user \in User
  BY <1>1 DEF Stored, Kept
<1>4. KeepsIndexed
  <2>1. index' \in [User -> [digests : SUBSET Session, expires : Nat]]
    BY <1>3 DEF Delete, ServerOK
  <2>2. ASSUME NEW d \in Session, session'[d] # Nothing
        PROVE  /\ d \in index[session[d].user].digests => d \in index'[session[d].user].digests
               /\ index'[session[d].user].expires = index[session[d].user].expires
    <3>1. d # s /\ session[d] # Nothing
      BY <1>1, <2>2 DEF Delete, ServerOK
    <3>2. session[d].user \in User
      BY <3>1 DEF ServerOK, Stored, Kept
    <3>3. QED
      BY <1>3, <3>1, <3>2 DEF Delete, ServerOK
  <2>3. QED
    BY <2>1, <2>2 DEF KeepsIndexed
<1>5. now' \in Nat /\ now <= now' /\ (disabled \subseteq User)'
  BY DEF ServerOK
<1>6. QED
  BY <1>2, <1>4, <1>5, ServerKept

\* What the revocation leaves of a user is past its absolute end.
LEMMA RevokedAreOver ==
    ASSUME ServerOK, NEW u \in User, NEW r, RevokeUser(u, r), NEW s \in Session,
           session'[s] # Nothing
    PROVE  /\ session'[s] = session[s]
           /\ session[s].user = u => session[s].absolute <= now
<1>1. session'[s] = session[s] /\ s \notin Digests(u)
  BY DEF RevokeUser
<1>2. ASSUME session[s].user = u, ~(session[s].absolute <= now)
      PROVE  FALSE
  <2>1. session[s].absolute \in Nat /\ now \in Nat /\ index[u].expires \in Nat
    BY <1>1 DEF ServerOK, Stored, Kept
  <2>2. s \in index[u].digests /\ session[s].absolute <= index[u].expires
    BY <1>1, <1>2, <2>1 DEF ServerOK, IndexCovers
  <2>3. now < index[u].expires
    BY <1>2, <2>1, <2>2
  <2>4. QED
    BY <1>1, <2>2, <2>3 DEF Digests
<1>3. QED
  BY <1>1, <1>2

LEMMA RevokeServer ==
    ASSUME ServerOK, NEW u \in User, NEW r, RevokeUser(u, r), UNCHANGED <<now, disabled, tokens>>
    PROVE  ServerOK' /\ KeptOrDrawn
<1>1. /\ session' \in [Session -> Stored]
      /\ \A s \in Session : session'[s] # Nothing => session'[s] = session[s]
  BY DEF RevokeUser, ServerOK, Stored, Kept
<1>2. index' \in [User -> [digests : SUBSET Session, expires : Nat]]
  BY DEF RevokeUser, ServerOK
<1>3. IndexCovers'
  <2>1. ASSUME NEW s \in Session, session'[s] # Nothing, now' < session'[s].absolute
        PROVE  /\ s \in index'[session'[s].user].digests
               /\ session'[s].absolute <= index'[session'[s].user].expires
    <3>1. /\ session'[s] = session[s] /\ session[s] # Nothing
          /\ session[s].user \in User /\ session[s].absolute \in Nat /\ now \in Nat
      BY <1>1, <2>1 DEF ServerOK, Stored, Kept
    <3>2. now < session[s].absolute
      BY <2>1, <3>1
    <3>3. session[s].user # u
      BY <2>1, <3>1, <3>2, RevokedAreOver
    <3>4. index'[session[s].user] = index[session[s].user]
      BY <3>1, <3>3 DEF RevokeUser, ServerOK
    <3>5. QED
      BY <3>1, <3>2, <3>4 DEF ServerOK, IndexCovers
  <2>2. QED
    BY <2>1 DEF IndexCovers
<1>4. ServerOK'
  <2>1. (\A s \in Session : session[s] # Nothing => s \in Tokens /\ session[s].csrf \in Tokens)'
    BY <1>1 DEF ServerOK, Tokens
  <2>2. (\A s, d \in Session :
            /\ session[s] # Nothing /\ session[d] # Nothing
            /\ session[s].csrf = session[d].csrf
            => s = d)'
    BY <1>1 DEF ServerOK
  <2>3. AbsoluteEnd'
    BY <1>1 DEF ServerOK, AbsoluteEnd
  <2>4. QED
    BY <1>1, <1>2, <1>3, <2>1, <2>2, <2>3 DEF ServerOK
<1>5. KeptOrDrawn
  BY <1>1 DEF KeptOrDrawn, ServerOK
<1>6. QED
  BY <1>4, <1>5

\* GET /auth/me gives the session a token no other session has.
LEMMA RotateServer ==
    ASSUME ServerOK, NEW r, r.cookie \in Tokens, CurrentUser(r)
    PROVE  /\ ServerOK' /\ KeptOrDrawn
           /\ session[r.cookie].user \in User
           /\ r.cookie \in Tokens' /\ tokens + 1 \in Tokens'
           /\ \A s \in Session :
                  session'[s] # Nothing /\ session'[s].csrf = tokens + 1
                  => session'[s].user = session[r.cookie].user
<1> DEFINE c == r.cookie
<1>1. Exists(c) /\ tokens < MaxTokens /\ tokens' = tokens + 1 /\ UNCHANGED <<now, disabled, index>>
  BY DEF CurrentUser, Accepted, Found, Answer
<1>2. c \in Session /\ session[c] \in Stored /\ session[c] # Nothing
  BY <1>1, Accepting
<1>3. /\ Touched(c) \in [Session -> Stored]
      /\ \A d \in Session :
             /\ Touched(c)[d] # Nothing => session[d] # Nothing
             /\ session[d] # Nothing =>
                    /\ Touched(c)[d] \in Kept
                    /\ Touched(c)[d].user = session[d].user
                    /\ Touched(c)[d].csrf = session[d].csrf
                    /\ Touched(c)[d].absolute = session[d].absolute
  BY <1>1, TouchedKeeps
<1>4. session' = [Touched(c) EXCEPT ![c].csrf = tokens + 1]
  BY DEF CurrentUser
<1>5. tokens \in Nat /\ tokens + 1 \in Session /\ tokens' \in 0..MaxTokens
  BY <1>1, ConstantsOK DEF ServerOK, Session
<1>6. Touched(c)[c] \in Kept
  BY <1>2, <1>3
<1>7. /\ session' \in [Session -> Stored]
      /\ session'[c] = [Touched(c)[c] EXCEPT !.csrf = tokens + 1]
      /\ \A d \in Session : d # c => session'[d] = Touched(c)[d]
  BY <1>2, <1>3, <1>4, <1>5, <1>6 DEF Stored, Kept
<1>8. /\ session'[c].user = session[c].user /\ session'[c].csrf = tokens + 1
      /\ session'[c].absolute = session[c].absolute
  BY <1>2, <1>3, <1>6, <1>7 DEF Kept
<1>9. \A d \in Session :
          /\ session'[d] # Nothing => session[d] # Nothing
          /\ session'[d] # Nothing =>
                 /\ session'[d].user = session[d].user
                 /\ session'[d].absolute = session[d].absolute
                 /\ d # c => session'[d].csrf = session[d].csrf
  BY <1>2, <1>3, <1>7, <1>8
<1>10. \A d \in Session : session[d] # Nothing => session[d].csrf # tokens + 1
  BY <1>5 DEF ServerOK, Tokens
<1>11. ServerOK'
  <2>1. (\A s \in Session : session[s] # Nothing => s \in Tokens /\ session[s].csrf \in Tokens)'
    BY <1>1, <1>5, <1>8, <1>9 DEF ServerOK, Tokens
  <2>2. IndexCovers'
    BY <1>1, <1>9 DEF ServerOK, IndexCovers
  <2>3. (\A s, d \in Session :
            /\ session[s] # Nothing /\ session[d] # Nothing
            /\ session[s].csrf = session[d].csrf
            => s = d)'
    BY <1>8, <1>9, <1>10 DEF ServerOK
  <2>4. AbsoluteEnd'
    BY <1>1, <1>9 DEF ServerOK, AbsoluteEnd
  <2>5. QED
    BY <1>1, <1>5, <1>7, <2>1, <2>2, <2>3, <2>4 DEF ServerOK
<1>12. KeptOrDrawn
  BY <1>1, <1>5, <1>8, <1>9 DEF KeptOrDrawn
<1>13. session[c].user \in User
  BY <1>2 DEF Stored, Kept
<1>14. \A s \in Session :
           session'[s] # Nothing /\ session'[s].csrf = tokens + 1
           => session'[s].user = session[c].user
  BY <1>8, <1>9, <1>10
<1>15. c \in Tokens' /\ tokens + 1 \in Tokens'
  BY <1>1, <1>5 DEF Tokens
<1>16. QED
  BY <1>11, <1>12, <1>13, <1>14, <1>15

\* A login creates a session whose number and token have not been used.
LEMMA LoginServer ==
    ASSUME ServerOK, NEW r, r.user \in User, Login(r)
    PROVE  /\ ServerOK' /\ KeptOrDrawn
           /\ tokens + 1 \in Tokens'
           /\ \A s \in Session :
                  session'[s] # Nothing /\ session'[s].csrf = tokens + 1
                  => session'[s].user = r.user
<1> DEFINE n == tokens + 1
           new == [user |-> r.user, csrf |-> n, absolute |-> now + Second * Absolute,
                   expires |-> now + Second * Smaller(Idle, Absolute)]
<1>1. tokens < MaxTokens /\ tokens' = n /\ UNCHANGED <<now, disabled>>
  BY DEF Login, Answer
<1>2. tokens \in Nat /\ now \in Nat /\ n \in Session /\ tokens' \in 0..MaxTokens
  BY <1>1, ConstantsOK DEF ServerOK, Session
<1>3. Second * Absolute \in Nat /\ Second * Smaller(Idle, Absolute) \in Nat
  BY ConstantsOK DEF Smaller
<1>4. now + Second * Absolute \in Nat /\ now <= now + Second * Absolute
      /\ now + Second * Smaller(Idle, Absolute) \in Nat
  BY <1>2, <1>3
<1>5. new \in Kept
  BY <1>2, <1>4 DEF Kept
<1>6. session' = [session EXCEPT ![n] = new]
  BY DEF Login, Created
<1>7. /\ session' \in [Session -> Stored]
      /\ session'[n] = new
      /\ \A d \in Session : d # n => session'[d] = session[d]
  BY <1>2, <1>5, <1>6 DEF ServerOK, Stored
<1>8. /\ session'[n].user = r.user /\ session'[n].csrf = n
      /\ session'[n].absolute = now + Second * Absolute
  BY <1>7
<1>9. index' = [index EXCEPT ![r.user] =
                   [digests |-> Digests(r.user) \cup {n}, expires |-> now + Second * Absolute]]
  BY DEF Login, Indexed
<1>10. Digests(r.user) \subseteq Session
  BY DEF Digests, ServerOK
<1> HIDE DEF new
<1>11. /\ index' \in [User -> [digests : SUBSET Session, expires : Nat]]
       /\ index'[r.user] = [digests |-> Digests(r.user) \cup {n},
                            expires |-> now + Second * Absolute]
       /\ \A u \in User : u # r.user => index'[u] = index[u]
  BY <1>2, <1>4, <1>9, <1>10 DEF ServerOK
<1>12. \A d \in Session : session[d] # Nothing => session[d].csrf # n
  BY <1>2 DEF ServerOK, Tokens
<1>13. IndexCovers'
  <2>1. ASSUME NEW s \in Session, session'[s] # Nothing, now < session'[s].absolute
        PROVE  /\ s \in index'[session'[s].user].digests
               /\ session'[s].absolute <= index'[session'[s].user].expires
    <3>1. CASE s = n
      BY <1>4, <1>8, <1>11, <3>1
    <3>2. CASE s # n
      <4>1. session'[s] = session[s] /\ session[s] \in Kept
        BY <1>7, <2>1, <3>2 DEF ServerOK, Stored
      <4>2. /\ s \in index[session[s].user].digests
            /\ session[s].absolute <= index[session[s].user].expires
            /\ session[s].absolute \in Nat /\ session[s].user \in User
            /\ index[session[s].user].expires \in Nat
        BY <2>1, <4>1 DEF ServerOK, IndexCovers, Kept
      <4>3. CASE session[s].user # r.user
        BY <1>11, <4>1, <4>2, <4>3
      <4>4. CASE session[s].user = r.user
        <5>1. now < index[r.user].expires
          BY <1>2, <2>1, <4>1, <4>2, <4>4
        <5>2. s \in Digests(r.user)
          BY <4>2, <4>4, <5>1 DEF Digests
        <5>3. session[s].absolute <= now + Second * Absolute
          BY <2>1, <4>1 DEF ServerOK, AbsoluteEnd
        <5>4. QED
          BY <1>11, <4>1, <4>4, <5>2, <5>3
      <4>5. QED
        BY <4>3, <4>4
    <3>3. QED
      BY <3>1, <3>2
  <2>2. QED
    BY <1>1, <2>1 DEF IndexCovers
<1>14. ServerOK'
  <2>1. (\A s \in Session : session[s] # Nothing => s \in Tokens /\ session[s].csrf \in Tokens)'
    BY <1>1, <1>2, <1>7, <1>8 DEF ServerOK, Tokens
  <2>2. (\A s, d \in Session :
            /\ session[s] # Nothing /\ session[d] # Nothing
            /\ session[s].csrf = session[d].csrf
            => s = d)'
    BY <1>7, <1>8, <1>12 DEF ServerOK
  <2>3. AbsoluteEnd'
    BY <1>1, <1>4, <1>7, <1>8 DEF ServerOK, AbsoluteEnd
  <2>4. QED
    BY <1>1, <1>2, <1>7, <1>11, <1>13, <2>1, <2>2, <2>3 DEF ServerOK
<1>15. KeptOrDrawn
  BY <1>1, <1>2, <1>7, <1>8 DEF KeptOrDrawn
<1>16. \A s \in Session :
           session'[s] # Nothing /\ session'[s].csrf = n => session'[s].user = r.user
  BY <1>7, <1>8, <1>12
<1>17. n \in Tokens'
  BY <1>1, <1>2 DEF Tokens
<1>18. QED
  BY <1>14, <1>15, <1>16, <1>17

-----------------------------------------------------------------------------
(* The steps *)

LEMMA HandleKeeps ==
    ASSUME ServerOK, ClientOK, NEW r \in requests, Handle(r)
    PROVE  ServerOK' /\ ClientOK'
<1>1. r \in Requested /\ RequestOK(r)
  BY DEF ClientOK, RequestOK
<1>2. r.cookie \in Tokens
  BY <1>1 DEF Requested
<1>3. Accepted(r.cookie) => Exists(r.cookie)
  BY DEF Accepted, Found
<1>4. CASE Unauthorized(r)
  <2>1. ServerOK' /\ KeptOrDrawn
    <3>1. UNCHANGED <<now, disabled, tokens>>
      BY <1>4 DEF Unauthorized, Refuse, Answer
    <3>2. CASE Exists(r.cookie)
      BY <1>2, <1>4, <3>1, <3>2, DeleteServer DEF Unauthorized
    <3>3. CASE ~Exists(r.cookie)
      <4>1. UNCHANGED <<session, index>>
        BY <1>4, <3>3 DEF Unauthorized
      <4>2. Keeps /\ KeepsIndexed
        BY <3>1, <4>1 DEF Keeps, KeepsIndexed, ServerOK
      <4>3. now' \in Nat /\ now <= now' /\ (disabled \subseteq User)'
        BY <3>1 DEF ServerOK
      <4>4. QED
        BY <4>2, <4>3, ServerKept
    <3>4. QED
      BY <3>2, <3>3
  <2>2. QED
    BY <1>4, <2>1, RefusalKeeps DEF Unauthorized
<1>5. CASE Forbidden(r)
  <2>1. ServerOK' /\ KeptOrDrawn
    BY <1>2, <1>3, <1>5, TouchServer DEF Forbidden, Refuse, Answer
  <2>2. QED
    BY <1>5, <2>1, RefusalKeeps DEF Forbidden
<1>6. CASE Login(r)
  <2>1. r.user \in User
    BY <1>1, <1>6 DEF Login, RequestOK
  <2>2. PICK csrf : csrf = tokens + 1
    OBVIOUS
  <2>3. /\ ServerOK' /\ KeptOrDrawn
        /\ csrf \in Tokens'
        /\ \A s \in Session :
               session'[s] # Nothing /\ session'[s].csrf = csrf => session'[s].user = r.user
    BY <1>6, <2>1, <2>2, LoginServer
  <2>4. Proves(csrf, r.user)'
    BY <2>3 DEF Proves
  <2>5. r.user \in Users /\ Answer(r, TRUE, csrf, r.user, csrf)
    BY <1>6, <2>1, <2>2 DEF Login, Users
  <2>6. ClientOK'
    BY <2>1, <2>3, <2>4, <2>5, AnswerKeeps
  <2>7. QED
    BY <2>3, <2>6
<1>7. CASE LoginRefused(r)
  <2>1. Keeps /\ KeepsIndexed
    BY <1>7 DEF LoginRefused, Redis, Keeps, KeepsIndexed, ServerOK
  <2>2. now' \in Nat /\ now <= now' /\ (disabled \subseteq User)'
    BY <1>7 DEF LoginRefused, Refuse, Answer, ServerOK
  <2>3. ServerOK' /\ KeptOrDrawn
    BY <2>1, <2>2, ServerKept
  <2>4. QED
    BY <1>7, <2>3, RefusalKeeps DEF LoginRefused
<1>8. CASE CurrentUser(r)
  <2>1. PICK csrf : csrf = tokens + 1
    OBVIOUS
  <2>2. PICK user : user = session[r.cookie].user
    OBVIOUS
  <2>3. /\ ServerOK' /\ KeptOrDrawn /\ user \in User
        /\ r.cookie \in Tokens' /\ csrf \in Tokens'
        /\ \A s \in Session :
               session'[s] # Nothing /\ session'[s].csrf = csrf => session'[s].user = user
    BY <1>2, <1>8, <2>1, <2>2, RotateServer
  <2>4. Proves(csrf, user)'
    BY <2>3 DEF Proves
  <2>5. user \in Users /\ Answer(r, TRUE, r.cookie, user, csrf)
    BY <1>8, <2>1, <2>2, <2>3 DEF CurrentUser, Users
  <2>6. ClientOK'
    BY <2>3, <2>4, <2>5, AnswerKeeps
  <2>7. QED
    BY <2>3, <2>6
<1>9. /\ Nothing \in Users /\ \A user : Proves(0, user)
      /\ ServerOK' => 0 \in Tokens' /\ \A user : Proves(0, user)'
  <2>1. ASSUME NEW user
        PROVE  /\ Proves(0, user)
               /\ ServerOK' => Proves(0, user)'
    BY ConstantsOK DEF ServerOK, Proves, Session, Stored, Kept
  <2>2. ServerOK' => 0 \in Tokens'
    BY ConstantsOK DEF ServerOK, Tokens
  <2>3. QED
    BY <2>1, <2>2 DEF Users
<1>10. KeptOrDrawn => r.cookie \in Tokens'
  BY <1>2, OldTokens
<1>11. CASE Logout(r)
  <2>1. ServerOK' /\ KeptOrDrawn
    BY <1>2, <1>3, <1>11, DeleteServer DEF Logout, Admitted, Answer
  <2>2. ClientOK'
    BY <1>9, <1>10, <1>11, <2>1, AnswerKeeps DEF Logout
  <2>3. QED
    BY <2>1, <2>2
<1>12. CASE ChangePassword(r)
  <2>1. PICK user : user = session[r.cookie].user
    OBVIOUS
  <2>2. user \in User
    BY <1>2, <1>3, <1>12, <2>1, Accepting DEF ChangePassword, Admitted, Stored, Kept
  <2>3. ServerOK' /\ KeptOrDrawn
    BY <1>12, <2>1, <2>2, RevokeServer DEF ChangePassword, Answer
  <2>4. Answer(r, TRUE, r.cookie, user, 0) /\ r.kind = "password"
    BY <1>12, <2>1 DEF ChangePassword
  <2>5. user \in Users
    BY <2>2 DEF Users
  <2>6. ClientOK'
    BY <1>9, <1>10, <2>3, <2>4, <2>5, AnswerKeeps
  <2>7. QED
    BY <2>3, <2>6
<1>13. CASE PasswordRefused(r)
  <2>1. ServerOK' /\ KeptOrDrawn
    BY <1>2, <1>3, <1>13, TouchServer DEF PasswordRefused, Admitted, Refuse, Answer
  <2>2. QED
    BY <1>13, <2>1, RefusalKeeps DEF PasswordRefused
<1>14. CASE Write(r)
  <2>1. ServerOK' /\ KeptOrDrawn
    BY <1>2, <1>3, <1>14, TouchServer DEF Write, Admitted, Answer
  <2>2. ClientOK'
    BY <1>9, <1>10, <1>14, <2>1, AnswerKeeps DEF Write
  <2>3. QED
    BY <2>1, <2>2
<1>15. QED
  BY <1>4, <1>5, <1>6, <1>7, <1>8, <1>11, <1>12, <1>13, <1>14 DEF Handle

\* A step of a tab or of the administrator leaves the sessions alone.
LEMMA ServerRests ==
    ASSUME ServerOK, UNCHANGED Redis, now' \in Nat, now <= now', (disabled \subseteq User)'
    PROVE  ServerOK' /\ KeptOrDrawn
<1>1. Keeps /\ KeepsIndexed
  BY DEF Redis, Keeps, KeepsIndexed, ServerOK
<1>2. QED
  BY <1>1, ServerKept

\* What a tab may hold.
SettledOK(t, v) ==
    /\ v \in [ready : BOOLEAN, user : Users, csrf : Tokens]
    /\ Proves(v.csrf, v.user)
    /\ v.user = Nothing => v.csrf = 0

LEMMA OldTabFits ==
    ASSUME ServerOK, ClientOK, NEW t \in Tab, NEW v \in {SignedOut, tab[t]}
    PROVE  SettledOK(t, v)
<1>1. SettledOK(t, SignedOut)
  <2>1. 0 \in Tokens /\ Nothing \in Users
    BY ConstantsOK DEF ServerOK, Tokens, Users
  <2>2. QED
    BY <2>1, NoToken DEF SettledOK, SignedOut
<1>2. SettledOK(t, tab[t])
  BY DEF ClientOK, TabOK, SettledOK
<1>3. QED
  BY <1>1, <1>2

LEMMA SettledFits ==
    ASSUME ServerOK, ClientOK, NEW a, AnswerOK(a), a \in Answered
    PROVE  SettledOK(a.tab, Settled(a.tab, a))
<1>1. a.tab \in Tab
  BY DEF Answered
<1>2. CASE a.kind \in {"login", "me"} /\ a.ok
  <2>1. Settled(a.tab, a) = [ready |-> TRUE, user |-> a.user, csrf |-> a.csrf]
    BY <1>2 DEF Settled, Established
  <2>2. a.user \in User /\ a.csrf \in Tokens /\ Proves(a.csrf, a.user)
    BY <1>2 DEF AnswerOK, Answered
  <2>3. QED
    BY <2>1, <2>2, ConstantsOK DEF SettledOK, Users
<1>3. CASE ~(a.kind \in {"login", "me"} /\ a.ok)
  <2>1. Settled(a.tab, a) \in {SignedOut, tab[a.tab]}
    BY <1>3 DEF Settled
  <2>2. QED
    BY <1>1, <2>1, OldTabFits
<1>4. QED
  BY <1>2, <1>3

LEMMA TabSettles ==
    ASSUME ServerOK, ClientOK, NEW t \in Tab, NEW v, SettledOK(t, v),
           UNCHANGED <<tokens, session>>, tab' = [tab EXCEPT ![t] = v]
    PROVE  /\ (tab \in [Tab -> [ready : BOOLEAN, user : Users, csrf : Tokens]])'
           /\ (\A u \in Tab : TabOK(u))'
<1>1. Tokens' = Tokens
  BY DEF Tokens
<1>2. (tab \in [Tab -> [ready : BOOLEAN, user : Users, csrf : Tokens]])'
  BY <1>1 DEF SettledOK, ClientOK
<1>3. ASSUME NEW u \in Tab
      PROVE  TabOK(u)'
  <2>1. CASE u = t
    BY <2>1 DEF SettledOK, TabOK, Proves, ClientOK
  <2>2. CASE u # t
    <3>1. tab'[u] = tab[u] /\ TabOK(u)
      BY <2>2 DEF ClientOK
    <3>2. QED
      BY <3>1 DEF TabOK, Proves
  <2>3. QED
    BY <2>1, <2>2
<1>4. QED
  BY <1>2, <1>3

LEMMA NextKeeps ==
    ASSUME ServerOK, ClientOK, [Next]_vars
    PROVE  ServerOK' /\ ClientOK'
<1>1. ASSUME UNCHANGED <<now, disabled, Redis>>
      PROVE  ServerOK' /\ KeptOrDrawn
  <2>1. now' \in Nat /\ now <= now' /\ (disabled \subseteq User)'
    BY <1>1 DEF ServerOK
  <2>2. QED
    BY <1>1, <2>1, ServerRests
<1>2. ASSUME NEW t \in Tab, NEW kind \in Kinds \ {"me"}, NEW user \in Users, Sends(t, kind, user),
             kind = "login" => user \in User,
             user = tab[t].user \/ tab[t].user = Nothing
      PROVE  ServerOK' /\ ClientOK'
  <2> DEFINE q == Request(t, kind, user)
  <2>1. ServerOK' /\ KeptOrDrawn
    BY <1>1, <1>2 DEF Sends, Redis
  <2>2. UNCHANGED <<cookie, tab, answers>> /\ requests' = requests \cup {q}
    BY <1>2 DEF Sends
  <2>3. tab[t].csrf \in Tokens /\ cookie \in Tokens /\ TabOK(t)
    BY DEF ClientOK
  <2>4. q \in Requested
    BY <2>3 DEF Request, Requested
  <2>5. Proves(q.csrf, q.user)
    <3>1. q.csrf = tab[t].csrf /\ q.user = user
      BY DEF Request
    <3>2. CASE user = tab[t].user
      BY <2>3, <3>1, <3>2 DEF TabOK
    <3>3. CASE tab[t].user = Nothing
      BY <2>3, <3>1, <3>3, NoToken DEF TabOK
    <3>4. QED
      BY <1>2, <3>2, <3>3
  <2>6. q.kind = "login" => q.user \in User
    BY <1>2 DEF Request
  <2>7. PICK p : p = q
    OBVIOUS
  <2>8. p.csrf \in Tokens /\ p.user \in Users /\ Proves(p.csrf, p.user)
    BY <2>4, <2>5, <2>7 DEF Requested
  <2>9. RequestOK(p)'
    <3>1. Proves(p.csrf, p.user)'
      BY <2>1, <2>8, OldTokens DEF Proves
    <3>2. (p \in Requested)'
      BY <2>1, <2>4, <2>7, OldTokens DEF Requested
    <3>3. QED
      BY <2>6, <2>7, <3>1, <3>2 DEF RequestOK
  <2>10. ClientOK'
    BY <2>1, <2>2, <2>7, <2>9, ClientKept DEF ClientOK
  <2>11. QED
    BY <2>1, <2>10
<1>3. ASSUME NEW t \in Tab, Reload(t)
      PROVE  ServerOK' /\ ClientOK'
  <2>1. ServerOK' /\ KeptOrDrawn
    BY <1>1, <1>3 DEF Reload, Redis
  <2>2. /\ cookie' = cookie
        /\ tab' = [tab EXCEPT ![t] = [ready |-> FALSE, user |-> Nothing, csrf |-> 0]]
        /\ requests' = {Left(t, m) : m \in requests} \cup {Request(t, "me", Nothing)}
        /\ answers' \subseteq answers
    BY <1>3 DEF Reload, Booting
  <2>3. /\ (cookie \in Tokens)'
        /\ \A r \in requests : RequestOK(r)'
        /\ \A a \in answers : AnswerOK(a)'
    BY <2>1, <2>2, ClientKept
  <2>4. 0 \in Tokens' /\ Nothing \in Users /\ Proves(0, Nothing)'
    BY <2>1, ConstantsOK DEF ServerOK, Tokens, Users, Proves, Session, Stored, Kept
  <2>5. (tab \in [Tab -> [ready : BOOLEAN, user : Users, csrf : Tokens]])'
    <3>1. Tokens \subseteq Tokens'
      BY <2>1, OldTokens
    <3>2. tab \in [Tab -> [ready : BOOLEAN, user : Users, csrf : Tokens']]
      BY <3>1 DEF ClientOK
    <3>3. QED
      BY <2>2, <2>4, <3>2
  <2>6. ASSUME NEW u \in Tab
        PROVE  TabOK(u)'
    <3>1. CASE u = t
      <4>1. tab'[u].csrf = 0 /\ tab'[u].user = Nothing
        BY <2>2, <3>1 DEF ClientOK
      <4>2. QED
        BY <2>4, <4>1 DEF TabOK, Proves
    <3>2. CASE u # t
      <4>1. tab'[u] = tab[u] /\ TabOK(u) /\ tab[u].csrf \in Tokens /\ tab[u].user \in Users
        BY <2>2, <3>2 DEF ClientOK
      <4>2. QED
        BY <2>1, <4>1, OldTokens DEF TabOK, Proves
    <3>3. QED
      BY <3>1, <3>2
  <2>7. ASSUME NEW m \in requests
        PROVE  RequestOK(Left(t, m))'
    <3>1. RequestOK(m)'
      BY <2>3
    <3>2. m \in Requested'
      BY <3>1 DEF RequestOK
    <3>3. /\ Left(t, m) \in Requested' /\ Left(t, m).csrf = m.csrf
          /\ Left(t, m).user = m.user /\ Left(t, m).kind = m.kind
      BY <3>2 DEF Requested, Left
    <3>4. QED
      BY <3>1, <3>3 DEF RequestOK, Proves, Left
  <2>8. PICK q : q = Request(t, "me", Nothing)
    OBVIOUS
  <2>9. RequestOK(q)'
    <3>1. q = [tab |-> t, kind |-> "me", cookie |-> cookie, csrf |-> 0, user |-> Nothing,
               awaited |-> TRUE]
      BY <2>8 DEF Request
    <3>2. cookie \in Tokens'
      BY <2>2, <2>3
    <3>3. (q \in Requested)'
      BY <2>4, <3>1, <3>2 DEF Requested, Kinds
    <3>4. Proves(q.csrf, q.user)' /\ q.kind # "login"
      BY <2>4, <3>1 DEF Proves
    <3>5. QED
      BY <3>3, <3>4 DEF RequestOK
  <2>10. \A r \in requests' : r = q \/ \E m \in requests : r = Left(t, m)
    BY <2>2, <2>8
  <2>11. \A r \in requests' : RequestOK(r)'
    <3>1. ASSUME NEW m \in requests, NEW r, r = Left(t, m)
          PROVE  RequestOK(r)'
      BY <2>7, <3>1 DEF Left
    <3>2. QED
      BY <2>9, <2>10, <3>1
  <2>12. QED
    BY <2>1, <2>2, <2>3, <2>5, <2>6, <2>11 DEF ClientOK
<1>4. ASSUME NEW a \in answers, Receive(a)
      PROVE  ServerOK' /\ ClientOK'
  <2>1. ServerOK' /\ KeptOrDrawn
    BY <1>1, <1>4 DEF Receive, Redis
  <2>2. /\ UNCHANGED <<tokens, session>>
        /\ UNCHANGED requests /\ answers' \subseteq answers
        /\ tab' = [tab EXCEPT ![a.tab] = Settled(a.tab, a)]
    BY <1>4 DEF Receive, Redis
  <2>3. AnswerOK(a) /\ a \in Answered
    BY DEF ClientOK, AnswerOK
  <2>4. (cookie \in Tokens)'
    <3>1. a.session \in Tokens /\ cookie \in Tokens /\ 0 \in Tokens /\ Tokens' = Tokens
      BY <2>2, <2>3, ConstantsOK DEF Answered, ClientOK, ServerOK, Tokens
    <3>2. QED
      BY <1>4, <3>1 DEF Receive
  <2>5. a.tab \in Tab /\ SettledOK(a.tab, Settled(a.tab, a))
    BY <2>3, SettledFits DEF Answered
  <2>6. QED
    BY <2>1, <2>2, <2>4, <2>5, ClientKept, TabSettles DEF ClientOK
<1>5. ASSUME NEW r \in requests, TimesOut(r)
      PROVE  ServerOK' /\ ClientOK'
  <2> DEFINE a == [kind |-> r.kind, ok |-> FALSE]
             q == [r EXCEPT !.awaited = FALSE]
  <2>1. ServerOK' /\ KeptOrDrawn
    BY <1>1, <1>5 DEF TimesOut, Redis
  <2>2. /\ UNCHANGED <<tokens, session, cookie, answers>>
        /\ requests' = (requests \ {r}) \cup {q}
        /\ tab' = [tab EXCEPT ![r.tab] = Settled(r.tab, a)]
    BY <1>5 DEF TimesOut, Redis
  <2>3. RequestOK(r)' /\ r \in Requested
    BY <2>1, ClientKept DEF ClientOK, RequestOK
  <2>4. RequestOK(q)'
    <3>1. /\ (q \in Requested)' /\ q.csrf = r.csrf /\ q.user = r.user /\ q.kind = r.kind
      BY <2>3 DEF RequestOK, Requested
    <3>2. QED
      BY <2>3, <3>1 DEF RequestOK, Proves
  <2>5. r.tab \in Tab /\ SettledOK(r.tab, Settled(r.tab, a))
    <3>1. r.tab \in Tab
      BY <2>3 DEF Requested
    <3>2. a.ok = FALSE
      OBVIOUS
    <3>3. Settled(r.tab, a) \in {SignedOut, tab[r.tab]}
      BY <3>2 DEF Settled
    <3>4. QED
      BY <3>1, <3>3, OldTabFits
  <2>6. (cookie \in Tokens)' /\ (\A b \in answers : AnswerOK(b)') /\ (\A m \in requests : RequestOK(m)')
    BY <2>1, <2>2, ClientKept
  <2>7. QED
    BY <2>1, <2>2, <2>4, <2>5, <2>6, TabSettles DEF ClientOK
<1>6. ASSUME Tick \/ (\E u \in User : Disable(u)) \/ UNCHANGED vars
      PROVE  ServerOK' /\ ClientOK'
  <2>1. /\ UNCHANGED <<Redis, cookie, tab, requests, answers>>
        /\ now' \in Nat /\ now <= now' /\ (disabled \subseteq User)'
    BY <1>6 DEF Tick, Disable, vars, Redis, ServerOK
  <2>2. ServerOK' /\ KeptOrDrawn
    BY <2>1, ServerRests
  <2>3. QED
    BY <2>1, <2>2, ClientKept DEF ClientOK
<1>7. ASSUME NEW t \in Tab, NEW u \in User, SubmitsLogin(t, u)
      PROVE  ServerOK' /\ ClientOK'
  BY <1>2, <1>7 DEF SubmitsLogin, Kinds, Users
<1>8. ASSUME NEW t \in Tab, NEW kind \in Secured, Submits(t, kind)
      PROVE  ServerOK' /\ ClientOK'
  <2>1. PICK user : user = tab[t].user
    OBVIOUS
  <2>2. user \in Users /\ kind \in Kinds \ {"me"} /\ kind # "login"
    BY <2>1 DEF ClientOK, Kinds, Secured
  <2>3. Sends(t, kind, user)
    BY <1>8, <2>1 DEF Submits
  <2>4. QED
    BY <1>2, <2>1, <2>2, <2>3
<1>9. QED
  BY <1>3, <1>4, <1>5, <1>6, <1>7, <1>8, HandleKeeps DEF Next

-----------------------------------------------------------------------------
(* The theorems *)

LEMMA InitHolds == Init => ServerOK /\ ClientOK
<1> SUFFICES ASSUME Init PROVE ServerOK /\ ClientOK
  OBVIOUS
<1>1. ServerOK
  BY ConstantsOK DEF Init, ServerOK, Stored, IndexCovers, AbsoluteEnd
<1>2. 0 \in Tokens
  BY DEF Init, Tokens
<1>3. \A t \in Tab : TabOK(t)
  BY <1>1, NoToken DEF Init, TabOK, SignedOut
<1>4. tab \in [Tab -> [ready : BOOLEAN, user : Users, csrf : Tokens]]
  BY <1>2 DEF Init, SignedOut, Users
<1>5. QED
  BY <1>1, <1>2, <1>3, <1>4 DEF Init, ClientOK

\* Redis and the tabs stay consistent in every behaviour of the sessions, for
\* any tabs, users, timeouts and bounds (redis_session.py, useAuth.ts).
THEOREM InvariantHolds == Spec => []IInv
<1>1. Init => IInv
  BY InitHolds, Parts
<1>2. IInv /\ [Next]_vars => IInv'
  <2> SUFFICES ASSUME IInv, [Next]_vars PROVE IInv'
    OBVIOUS
  <2>1. ServerOK /\ ClientOK
    BY Parts
  <2>2. ServerOK' /\ ClientOK'
    BY <2>1, NextKeeps
  <2>3. (ServerOK /\ ClientOK => IInv)'
    BY Parts, PTL
  <2>4. QED
    BY <2>2, <2>3
<1>3. QED
  BY <1>1, <1>2, PTL DEF Spec

\* A write is done for the user whom the tab that sent it showed
\* (dependencies.py require_csrf).
THEOREM WritesOwn == Spec => WritesAreOwn
<1>1. IInv => \A r \in requests : Write(r) => session[r.cookie].user = r.user
  <2> SUFFICES ASSUME IInv, NEW r \in requests, Write(r)
               PROVE  session[r.cookie].user = r.user
    OBVIOUS
  <2>1. ServerOK /\ RequestOK(r) /\ r.cookie \in Tokens
    BY Parts DEF ClientOK, RequestOK, Requested
  <2>2. Exists(r.cookie) /\ session[r.cookie].csrf = r.csrf
    BY DEF Write, Admitted, Accepted, Found, VerifyCsrf
  <2>3. r.cookie \in Session /\ session[r.cookie] # Nothing
    BY <2>1, <2>2, Accepting
  <2>4. QED
    BY <2>1, <2>2, <2>3 DEF RequestOK, Proves
<1>2. QED
  BY <1>1, InvariantHolds, PTL DEF WritesAreOwn

\* A password change answered with success leaves no session of the user that
\* the API would accept (services/auth.py change_password).
THEOREM RevocationComplete == Spec => RevocationIsComplete
<1>1. ASSUME IInv, IInv', [Next]_vars, NEW a \in answers' \ answers, a.kind = "password", a.ok,
             NEW s \in Session, session'[s] # Nothing, session'[s].user = a.user
      PROVE  ~Accepted(s)'
  <2>1. ServerOK
    BY <1>1, Parts
  <2>2. PICK r \in requests : Handle(r)
    BY <1>1 DEF Next, Reload, SubmitsLogin, Submits, Sends, Receive, TimesOut, Tick, Disable, vars
  <2>3. ChangePassword(r) /\ a.user = session[r.cookie].user /\ now' = now
    BY <1>1, <2>2 DEF Handle, Unauthorized, Forbidden, Login, LoginRefused, CurrentUser, Logout,
                      ChangePassword, PasswordRefused, Write, Refuse, Answer
  <2>4. r.cookie \in Tokens /\ Exists(r.cookie)
    BY <1>1, <2>3, Parts DEF ClientOK, RequestOK, Requested, ChangePassword, Admitted, Accepted,
                             Found
  <2>5. PICK u : u = session[r.cookie].user
    OBVIOUS
  <2>6. u \in User /\ RevokeUser(u, r.cookie) /\ a.user = u
    BY <2>1, <2>3, <2>4, <2>5, Accepting DEF ChangePassword, Stored, Kept
  <2>7. session'[s] = session[s] /\ session[s].absolute <= now
    BY <1>1, <2>1, <2>6, RevokedAreOver
  <2>8. session[s].absolute \in Nat /\ now \in Nat
    BY <1>1, <2>1, <2>7 DEF ServerOK, Stored, Kept
  <2>9. QED
    BY <2>3, <2>7, <2>8 DEF Accepted, Found
<1>2. IInv /\ IInv' /\ [Next]_vars =>
          \A a \in answers' \ answers :
              a.kind = "password" /\ a.ok =>
                  \A s \in Session : session'[s] # Nothing /\ session'[s].user = a.user
                                    => ~Accepted(s)'
  BY <1>1
<1>3. QED
  BY <1>2, InvariantHolds, PTL DEF Spec, RevocationIsComplete
=============================================================================
