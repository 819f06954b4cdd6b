-------------------------- MODULE AuthSessionProofs --------------------------
(* What AuthSession promises for every number of users and of calls under    *)
(* way, and for all bounds: whose the session is, that it is kept alive, and *)
(* that the backend accepts its refresh token.                               *)
EXTENDS AuthSession, TLAPS

\* What the constants have to be: None is no session, the bounds are numbers.
Constants == /\ None \notin Session
             /\ MaxVersion \in Nat /\ MaxEpoch \in Nat

\* A call under way; all but a login are asked for a session of their user.
CallRecord == [kind : Kind, from : Session \cup {None}, user : User, reply : Reply,
               ver : 0..MaxVersion, epoch : 0..MaxEpoch, must : BOOLEAN, over : BOOLEAN]

ForUser(m) == m.kind # "login" => m.from \in Session /\ m.from.user = m.user

CallsFit == /\ calls \in [Call -> CallRecord \cup {Idle}]
            /\ \A c \in Call : calls[c] # Idle => ForUser(calls[c])

\* A call that has not been overtaken is asked for the session there is.
InForce == \A c \in Call : calls[c] # Idle /\ ~calls[c].over => calls[c].from = session

\* The backend has changed the password of u for call c, and the editor has not
\* heard of it yet.
Changed(c, u) == /\ calls[c] # Idle /\ calls[c].kind = "change"
                 /\ calls[c].reply = "ok" /\ calls[c].user = u

\* The tokens of version v of user u are good, or something is known to be wrong
\* with them that an answer other than that of call c will bring to light.
Good(v, u, others) == \/ v = account[u].ver
                      \/ stale \/ u \in unheard
                      \/ \E d \in others : Changed(d, u)

Brings(m) == /\ m.kind \in {"login", "refresh", "timer refresh", "change"}
             /\ m.reply = "ok"

\* The tokens on their way to a call that has not been overtaken.
TokensOnTheWay ==
    \A c \in Call : calls[c] # Idle /\ ~calls[c].over /\ Brings(calls[c]) =>
        Good(calls[c].ver, calls[c].user, Call \ {c})

SessionInv == /\ TypeOK /\ stored = session /\ CallsFit
              /\ InForce /\ TokensOnTheWay
              /\ WhoLoggedIn /\ KeptAlive /\ TokensValid

-----------------------------------------------------------------------------
(* Calls.                                                                    *)

LEMMA IdleIsNoCall == \A m \in CallRecord : m # Idle /\ m.kind # "idle"
<1>1. Idle.kind = "idle"
      BY DEF Idle
<1>2. \A m \in CallRecord : m.kind \in Kind
      BY DEF CallRecord
<1>3. "idle" \notin Kind
      BY DEF Kind
<1> QED
    BY <1>1, <1>2, <1>3

LEMMA SentFits ==
    ASSUME Constants, NEW kind \in Kind, NEW s \in Session \cup {None}, NEW u \in User
    PROVE  /\ Sent(kind, s, u) \in CallRecord
           /\ Sent(kind, s, u).kind = kind /\ Sent(kind, s, u).from = s
           /\ Sent(kind, s, u).user = u /\ Sent(kind, s, u).reply = "none"
BY DEF Sent, CallRecord, Reply, Constants

\* The call that refreshes a session.
LEMMA RefreshFits ==
    ASSUME Constants, NEW s \in Session, NEW u \in User
    PROVE  LET g == Sent("refresh", s, u)
           IN  /\ g \in CallRecord /\ g.kind = "refresh" /\ g.from = s
               /\ g.user = u /\ g.reply = "none"
<1>1. "refresh" \in Kind
      BY DEF Kind
<1> QED
    BY <1>1, SentFits

\* One call changes; the session, the accounts and who logged in do not.
LEMMA OneCall ==
    ASSUME SessionInv, NEW c \in Call, NEW g \in CallRecord \cup {Idle},
           calls' = [calls EXCEPT ![c] = g],
           UNCHANGED <<session, stored, account, epoch, loggedIn, stale>>,
           unheard \subseteq unheard', unheard' \subseteq User,
           g # Idle => ForUser(g) /\ (~g.over => g.from = session),
           g # Idle /\ ~g.over /\ Brings(g) => g.ver = account[g.user].ver
                                               \/ Good(g.ver, g.user, Call \ {c}),
           \A u \in User : Changed(c, u) => u \in unheard' \/ Changed(c, u)',
           timer' \in BOOLEAN,
           session # None => timer' \/ \E d \in Call : calls'[d].kind = "timer refresh"
    PROVE  SessionInv'
<1>1. /\ calls' \in [Call -> CallRecord \cup {Idle}] /\ calls'[c] = g
      /\ \A d \in Call : d # c => calls'[d] = calls[d]
      BY DEF SessionInv, CallsFit
<1>2. \A d \in Call, u \in User : Changed(d, u) => u \in unheard' \/ Changed(d, u)'
      BY <1>1 DEF Changed
<1>3. \A d \in Call : calls[d] # Idle => calls[d].user \in User
      BY DEF SessionInv, CallsFit, CallRecord
<1>4. ASSUME NEW v, NEW u \in User, NEW others \in SUBSET Call, Good(v, u, others)
      PROVE  \/ v = account'[u].ver \/ stale' \/ u \in unheard'
             \/ \E d \in others : Changed(d, u)'
      BY <1>2, <1>4 DEF Good
<1>5. CallsFit' /\ InForce'
      BY <1>1 DEF SessionInv, CallsFit, InForce
<1>6. TokensOnTheWay'
  <2>1. SUFFICES ASSUME NEW d \in Call, calls'[d] # Idle, ~calls'[d].over, Brings(calls'[d])
                 PROVE  Good(calls[d].ver, calls[d].user, Call \ {d})'
        BY DEF TokensOnTheWay, Brings
  <2>2. calls'[d].user \in User
        BY <1>1, <2>1 DEF CallRecord
  <2>3. CASE d = c
    <3>1. CASE g.ver = account[g.user].ver
          BY <1>1, <2>3, <3>1 DEF Good
    <3>2. CASE Good(g.ver, g.user, Call \ {c})
          BY <1>1, <1>4, <2>2, <2>3, <3>2 DEF Good
    <3> QED
        BY <1>1, <2>1, <2>3, <3>1, <3>2
  <2>4. CASE d # c
        BY <1>1, <1>4, <2>1, <2>2, <2>4 DEF SessionInv, TokensOnTheWay, Good
  <2> QED
      BY <2>3, <2>4
<1>7. TypeOK'
  <2>1. \A d \in Call : calls'[d] # Idle =>
          /\ calls'[d].kind \in Kind /\ calls'[d].reply \in Reply
          /\ calls'[d].from \in Session \cup {None}
        BY <1>1 DEF CallRecord
  <2> QED
      BY <2>1 DEF SessionInv, TypeOK
<1>8. WhoLoggedIn' /\ KeptAlive' /\ (stored = session)'
      BY DEF SessionInv, WhoLoggedIn, KeptAlive
<1>9. TokensValid'
  <2>1. SUFFICES ASSUME session # None
                 PROVE  Good(session.refresh, session.user, Call)'
        BY DEF TokensValid, Good, Changed
  <2>2. session.user \in User
        BY <2>1 DEF SessionInv, TypeOK, Session
  <2>3. Good(session.refresh, session.user, Call)
        BY <2>1 DEF SessionInv, TokensValid, Good, Changed
  <2> QED
      BY <1>4, <2>2, <2>3 DEF Good
<1> QED
    BY <1>5, <1>6, <1>7, <1>8, <1>9 DEF SessionInv

\* The session changes: every call under way is overtaken, dropped or asked anew.
LEMMA NewSession ==
    ASSUME SessionInv, DOMAIN calls' = Call, calls' = [d \in Call |-> calls'[d]],
           session' \in Session \cup {None}, stored' = session',
           timer' = (session' # None),
           UNCHANGED <<account, epoch>>, stale' \in BOOLEAN,
           loggedIn' \in User \cup {None}, unheard' \subseteq User,
           \A d \in Call :
               \/ calls'[d] = Idle
               \/ calls[d] # Idle /\ calls'[d] = [calls[d] EXCEPT !.over = TRUE]
               \/ /\ calls'[d] \in CallRecord /\ ForUser(calls'[d])
                  /\ calls'[d].reply = "none" /\ calls'[d].from = session',
           WhoLoggedIn', TokensValid'
    PROVE  SessionInv'
<1>1. ASSUME NEW d \in Call, calls[d] # Idle
      PROVE  LET m == [calls[d] EXCEPT !.over = TRUE]
             IN  m \in CallRecord /\ ForUser(m) /\ m.over
  <2>1. calls[d] \in CallRecord /\ ForUser(calls[d])
        BY <1>1 DEF SessionInv, CallsFit
  <2> QED
      BY <2>1 DEF CallRecord, ForUser
<1>2. \A d \in Call : \/ calls'[d] = Idle
                      \/ /\ calls'[d] \in CallRecord /\ ForUser(calls'[d])
                         /\ \/ calls'[d].over
                            \/ calls'[d].reply = "none" /\ calls'[d].from = session'
      BY <1>1
<1>3. CallsFit' /\ InForce' /\ TokensOnTheWay'
      BY <1>2 DEF CallsFit, InForce, TokensOnTheWay, ForUser, Brings
<1>4. TypeOK'
  <2>1. \A d \in Call : calls'[d] # Idle =>
          /\ calls'[d].kind \in Kind /\ calls'[d].reply \in Reply
          /\ calls'[d].from \in Session \cup {None}
        BY <1>2 DEF CallRecord
  <2> QED
      BY <2>1 DEF SessionInv, TypeOK
<1>5. KeptAlive'
      BY DEF KeptAlive
<1> QED
    BY <1>3, <1>4, <1>5 DEF SessionInv

-----------------------------------------------------------------------------
(* Actions that only concern a call.                                         *)

LEMMA AskInv ==
    ASSUME Constants, SessionInv, NEW c \in Call,
           \/ \E u \in User : Login(c, u)
           \/ ChangePassword(c) \/ Request(c) \/ RefreshTimer(c)
    PROVE  SessionInv'
<1>1. PICK kind \in Kind, u \in User :
        /\ Ask(c, kind, session, u)
        /\ kind # "login" => session # None /\ u = session.user
        /\ UNCHANGED <<session, stored>>
        /\ \/ timer' = timer
           \/ timer' = FALSE /\ kind = "timer refresh"
  <2>1. CASE \E u \in User : Login(c, u)
        BY <2>1 DEF Login, client, Kind
  <2>2. session # None => session.user \in User
        BY DEF SessionInv, TypeOK, Session
  <2>3. CASE ChangePassword(c)
        BY <2>2, <2>3 DEF ChangePassword, client, Kind
  <2>4. CASE Request(c)
        BY <2>2, <2>4 DEF Request, client, Kind
  <2>5. CASE RefreshTimer(c)
        BY <2>2, <2>5 DEF RefreshTimer, Kind
  <2> QED
      BY <2>1, <2>3, <2>4, <2>5
<1> DEFINE g == Sent(kind, session, u)
<1>2. session \in Session \cup {None} /\ timer \in BOOLEAN
      BY DEF SessionInv, TypeOK
<1>3. /\ g \in CallRecord /\ g.kind = kind /\ g.from = session
      /\ g.user = u /\ g.reply = "none"
      BY <1>2, SentFits
<1> HIDE DEF g
<1>4. /\ calls[c] = Idle /\ calls' = [calls EXCEPT ![c] = g]
      /\ UNCHANGED <<account, epoch, loggedIn, stale, unheard>>
      BY <1>1 DEF Ask, history, g
<1>5. ForUser(g) /\ ~Brings(g)
      BY <1>1, <1>2, <1>3 DEF ForUser, Brings
<1>6. \A w \in User : ~Changed(c, w)
      BY <1>4 DEF Changed
<1>7. session # None => timer' \/ \E d \in Call : calls'[d].kind = "timer refresh"
  <2>1. calls'[c] = g /\ \A d \in Call : d # c => calls'[d] = calls[d]
        BY <1>4 DEF SessionInv, CallsFit
  <2>2. \A d \in Call : calls[d].kind = "timer refresh" => calls'[d].kind = "timer refresh"
    <3>1. calls[c].kind = "idle"
          BY <1>4 DEF Idle
    <3> QED
        BY <2>1, <3>1
  <2>3. CASE kind = "timer refresh"
        BY <1>3, <2>1, <2>3
  <2>4. CASE timer' = timer
        BY <2>2, <2>4, Zenon DEF SessionInv, KeptAlive
  <2> QED
      BY <1>1, <2>3, <2>4
<1>8. unheard' \subseteq User /\ unheard \subseteq unheard' /\ timer' \in BOOLEAN
      BY <1>1, <1>2, <1>4 DEF SessionInv, TypeOK
<1>9. UNCHANGED <<session, stored, account, epoch, loggedIn, stale>>
      BY <1>1, <1>4
<1> QED
    BY <1>3, <1>4, <1>5, <1>6, <1>7, <1>8, <1>9, OneCall

\* What an answer makes of the call.
LEMMA RepliedFits ==
    ASSUME SessionInv, NEW c \in Call, calls[c] # Idle, NEW reply \in {"ok", "denied"},
           account' \in [User -> [ver : 0..MaxVersion, must : BOOLEAN]],
           calls' = Replied(c, reply, calls[c].user)
    PROVE  \E g \in CallRecord :
             /\ calls' = [calls EXCEPT ![c] = g] /\ ForUser(g)
             /\ g.kind = calls[c].kind /\ g.from = calls[c].from
             /\ g.user = calls[c].user /\ g.over = calls[c].over /\ g.reply = reply
             /\ Brings(g) => g.ver = account'[g.user].ver
<1> DEFINE m == calls[c]
           u == m.user
           tokens == reply = "ok" /\ m.kind \notin {"request", "retry"}
           a == [m EXCEPT !.reply = "ok", !.ver = account'[u].ver]
           b == [a EXCEPT !.epoch = epoch, !.must = account'[u].must]
           d == [m EXCEPT !.reply = reply]
<1>1. m \in CallRecord /\ ForUser(m)
      BY DEF SessionInv, CallsFit
<1>2. u \in User /\ epoch \in 0..MaxEpoch
      BY <1>1 DEF CallRecord, SessionInv, TypeOK
<1>3. account'[u].ver \in 0..MaxVersion /\ account'[u].must \in BOOLEAN
      BY <1>2
<1> HIDE DEF m, u
<1>4. /\ a \in CallRecord /\ a.kind = m.kind /\ a.from = m.from /\ a.user = m.user
      /\ a.over = m.over /\ a.reply = "ok" /\ a.ver = account'[u].ver
      BY <1>1, <1>3 DEF CallRecord, Reply
<1> HIDE DEF a
<1>5. /\ b \in CallRecord /\ b.kind = m.kind /\ b.from = m.from /\ b.user = m.user
      /\ b.over = m.over /\ b.reply = "ok" /\ b.ver = account'[u].ver
      BY <1>2, <1>3, <1>4 DEF CallRecord
<1>6. /\ d \in CallRecord /\ d.kind = m.kind /\ d.from = m.from /\ d.user = m.user
      /\ d.over = m.over /\ d.reply = reply
      BY <1>1 DEF CallRecord, Reply
<1>7. CASE tokens
  <2>1. calls' = [calls EXCEPT ![c] = b]
        BY <1>7, Zenon DEF Replied, b, a, m, u
  <2> HIDE DEF b
  <2> QED
      BY <1>1, <1>5, <1>7, <2>1 DEF ForUser, m, u
<1>8. CASE ~tokens
  <2>1. calls' = [calls EXCEPT ![c] = d]
        BY <1>8, Zenon DEF Replied, m, u
  <2>2. ~Brings(d)
        BY <1>6, <1>8 DEF Brings
  <2> HIDE DEF d
  <2> QED
      BY <1>1, <1>6, <2>1, <2>2 DEF ForUser, m
<1> QED
    BY <1>7, <1>8

\* The kinds of the calls stay what they are when one is answered or lost.
LEMMA StillAlive ==
    ASSUME SessionInv, NEW c \in Call, NEW g, calls' = [calls EXCEPT ![c] = g],
           g.kind = calls[c].kind, UNCHANGED <<session, timer>>
    PROVE  session # None => timer' \/ \E d \in Call : calls'[d].kind = "timer refresh"
<1>1. \A d \in Call : calls'[d].kind = calls[d].kind
      BY DEF SessionInv, CallsFit
<1> QED
    BY <1>1, Zenon DEF SessionInv, KeptAlive

LEMMA HandleInv ==
    ASSUME Constants, SessionInv, NEW c \in Call, Handle(c)
    PROVE  SessionInv'
<1> DEFINE m == calls[c]
<1>1. m # Idle /\ m.reply = "none" /\ m \in CallRecord /\ ForUser(m)
      BY DEF Handle, SessionInv, CallsFit
<1>2. UNCHANGED <<session, stored, timer, epoch, loggedIn, stale, unheard>>
      BY DEF Handle, client, history
<1>3. \A w \in User : ~Changed(c, w)
      BY <1>1 DEF Changed
<1>4. account \in [User -> [ver : 0..MaxVersion, must : BOOLEAN]]
      BY DEF SessionInv, TypeOK
<1>5. unheard' \subseteq User /\ unheard \subseteq unheard' /\ timer' \in BOOLEAN
      BY <1>2 DEF SessionInv, TypeOK
<1>6. CASE account' = account
  <2>1. PICK reply \in {"ok", "denied"} : calls' = Replied(c, reply, m.user)
        BY <1>6 DEF Handle
  <2>2. PICK g \in CallRecord :
          /\ calls' = [calls EXCEPT ![c] = g] /\ ForUser(g)
          /\ g.kind = m.kind /\ g.from = m.from /\ g.over = m.over
          /\ Brings(g) => g.ver = account'[g.user].ver
        BY <1>1, <1>4, <1>6, <2>1, RepliedFits
  <2>3. ~g.over => g.from = session
        BY <1>1, <2>2 DEF SessionInv, InForce
  <2>4. session # None => timer' \/ \E d \in Call : calls'[d].kind = "timer refresh"
        BY <1>2, <2>2, StillAlive
  <2> QED
      BY <1>2, <1>3, <1>5, <1>6, <2>2, <2>3, <2>4, OneCall
<1>7. CASE account' # account
  <2> DEFINE u == m.user
  <2>1. /\ m.kind = "change" /\ account[u].ver < MaxVersion
        /\ account' = [account EXCEPT ![u] = [ver |-> @.ver + 1, must |-> FALSE]]
        /\ calls' = Replied(c, "ok", u)
        BY <1>7 DEF Handle
  <2>2. u \in User
        BY <1>1 DEF CallRecord
  <2>3. account[u].ver + 1 \in 0..MaxVersion
        BY <1>4, <2>1, <2>2 DEF Constants
  <2>4. account' \in [User -> [ver : 0..MaxVersion, must : BOOLEAN]]
        BY <1>4, <2>1, <2>3
  <2>5. PICK g \in CallRecord :
          /\ calls' = [calls EXCEPT ![c] = g] /\ ForUser(g)
          /\ g.kind = "change" /\ g.reply = "ok" /\ g.user = u
          /\ g.from = m.from /\ g.over = m.over /\ g.ver = account'[u].ver
    <3>1. PICK g \in CallRecord :
            /\ calls' = [calls EXCEPT ![c] = g] /\ ForUser(g)
            /\ g.kind = m.kind /\ g.from = m.from /\ g.user = u
            /\ g.over = m.over /\ g.reply = "ok"
            /\ Brings(g) => g.ver = account'[g.user].ver
          BY <1>1, <2>1, <2>4, RepliedFits
    <3> QED
        BY <2>1, <3>1 DEF Brings
  <2>6. /\ calls' \in [Call -> CallRecord \cup {Idle}] /\ calls'[c] = g
        /\ \A d \in Call : d # c => calls'[d] = calls[d]
        BY <2>5 DEF SessionInv, CallsFit
  <2>7. \A w \in User : w = u => Changed(c, w)'
        BY <2>5, <2>6, IdleIsNoCall DEF Changed
  <2>8. \A d \in Call, w \in User : Changed(d, w) => Changed(d, w)'
        BY <1>3, <2>6 DEF Changed
  <2>9. \A w \in User : w # u => account'[w] = account[w]
        BY <1>4, <2>1
  <2>10. ASSUME NEW v, NEW w \in User, NEW others \in SUBSET Call, Good(v, w, others),
                c \in others
         PROVE  \/ v = account'[w].ver \/ stale' \/ w \in unheard'
                \/ \E d \in others : Changed(d, w)'
    <3>1. CASE w = u
          BY <2>7, <2>10, <3>1
    <3>2. CASE w # u
          BY <1>2, <2>8, <2>9, <2>10, <3>2 DEF Good
    <3> QED
        BY <3>1, <3>2
  <2>11. CallsFit' /\ InForce'
         BY <1>1, <1>2, <2>5, <2>6 DEF SessionInv, CallsFit, InForce
  <2>12. TokensOnTheWay'
    <3>1. SUFFICES ASSUME NEW d \in Call, calls'[d] # Idle, ~calls'[d].over,
                          Brings(calls'[d])
                   PROVE  Good(calls[d].ver, calls[d].user, Call \ {d})'
          BY DEF TokensOnTheWay, Brings
    <3>2. CASE d = c
          BY <2>5, <2>6, <3>2 DEF Good
    <3>3. CASE d # c
      <4>1. calls[d].user \in User
            BY <2>6, <3>1, <3>3 DEF CallRecord
      <4> QED
          BY <2>6, <2>10, <3>1, <3>3, <4>1 DEF SessionInv, TokensOnTheWay, Good
    <3> QED
        BY <3>2, <3>3
  <2>13. TypeOK'
    <3>1. \A d \in Call : calls'[d] # Idle =>
            /\ calls'[d].kind \in Kind /\ calls'[d].reply \in Reply
            /\ calls'[d].from \in Session \cup {None}
          BY <2>6 DEF CallRecord
    <3> QED
        BY <1>2, <2>4, <3>1 DEF SessionInv, TypeOK
  <2>14. WhoLoggedIn' /\ (stored = session)'
         BY <1>2 DEF SessionInv, WhoLoggedIn
  <2>15. KeptAlive'
         BY <1>2, <2>1, <2>5, StillAlive DEF KeptAlive
  <2>16. TokensValid'
    <3>1. SUFFICES ASSUME session' # None
                   PROVE  Good(session.refresh, session.user, Call)'
          BY DEF TokensValid, Good, Changed
    <3>2. session.user \in User /\ Good(session.refresh, session.user, Call)
          BY <1>2, <3>1 DEF SessionInv, TypeOK, Session, TokensValid, Good, Changed
    <3> QED
        BY <1>2, <2>10, <3>2 DEF Good
  <2> QED
      BY <2>11, <2>12, <2>13, <2>14, <2>15, <2>16 DEF SessionInv
<1> QED
    BY <1>6, <1>7

LEMMA LoseInv ==
    ASSUME Constants, SessionInv, NEW c \in Call, Lose(c)
    PROVE  SessionInv'
<1> DEFINE m == calls[c]
           s == Sent(m.kind, m.from, m.user)
           g == [s EXCEPT !.reply = "lost", !.over = m.over]
<1>1. m # Idle /\ m \in CallRecord /\ ForUser(m)
      BY DEF Lose, SessionInv, CallsFit
<1>2. m.kind \in Kind /\ m.from \in Session \cup {None} /\ m.user \in User /\ m.over \in BOOLEAN
      BY <1>1 DEF CallRecord
<1>3. s \in CallRecord /\ s.kind = m.kind /\ s.from = m.from /\ s.user = m.user
      BY <1>2, SentFits
<1>4. calls' = [calls EXCEPT ![c] = g]
      BY Zenon DEF Lose
<1> HIDE DEF s
<1>5. /\ g \in CallRecord /\ g.kind = m.kind /\ g.from = m.from /\ g.user = m.user
      /\ g.over = m.over /\ g.reply = "lost"
      BY <1>2, <1>3 DEF CallRecord, Reply
<1> HIDE DEF g
<1>6. /\ UNCHANGED <<session, stored, timer, account, epoch, loggedIn, stale>>
      /\ unheard \subseteq unheard' /\ unheard' \subseteq User
      BY <1>2 DEF Lose, client, SessionInv, TypeOK
<1>7. \A w \in User : Changed(c, w) => w \in unheard'
      BY DEF Changed, Lose
<1>8. ForUser(g) /\ ~Brings(g)
      BY <1>1, <1>5 DEF ForUser, Brings
<1>9. ~g.over => g.from = session
      BY <1>1, <1>5 DEF SessionInv, InForce
<1>10. session # None => timer' \/ \E d \in Call : calls'[d].kind = "timer refresh"
       BY <1>4, <1>5, <1>6, StillAlive
<1>11. timer' \in BOOLEAN
       BY <1>6 DEF SessionInv, TypeOK
<1> QED
    BY <1>4, <1>5, <1>6, <1>7, <1>8, <1>9, <1>10, <1>11, OneCall

-----------------------------------------------------------------------------
(* Answers, and actions that concern the session.                            *)

\* A call is dropped, or goes on as another one that is asked for the session.
LEMMA DropInv ==
    ASSUME Constants, SessionInv, NEW c \in Call, calls[c] # Idle,
           ~Brings(calls[c]), UNCHANGED <<session, stored, account, epoch, history>>,
           NEW g \in CallRecord \cup {Idle}, calls' = [calls EXCEPT ![c] = g],
           g # Idle => ForUser(g) /\ g.from = session /\ ~Brings(g),
           timer' \in BOOLEAN, timer => timer',
           calls[c].kind = "timer refresh" /\ session # None => timer'
    PROVE  SessionInv'
<1>2. \A w \in User : ~Changed(c, w)
      BY DEF Changed, Brings
<1>3. session # None => timer' \/ \E d \in Call : calls'[d].kind = "timer refresh"
  <2>1. \A d \in Call : d # c => calls'[d] = calls[d]
        BY DEF SessionInv, CallsFit
  <2>2. CASE timer'
        BY <2>2
  <2>3. CASE ~timer' /\ session # None
    <3>1. ~timer /\ calls[c].kind # "timer refresh"
          BY <2>3
    <3>2. PICK d \in Call : calls[d].kind = "timer refresh"
          BY <2>3, <3>1 DEF SessionInv, KeptAlive
    <3> QED
        BY <2>1, <3>1, <3>2
  <2> QED
      BY <2>2, <2>3
<1>4. unheard' \subseteq User /\ unheard \subseteq unheard'
      BY DEF history, SessionInv, TypeOK
<1>5. UNCHANGED <<session, stored, account, epoch, loggedIn, stale>>
      BY DEF history
<1> QED
    BY <1>2, <1>3, <1>4, <1>5, OneCall

\* What the calls other than c become.
LEMMA OvertakenCalls ==
    ASSUME SessionInv, NEW c \in Call, NEW d \in Call
    PROVE  /\ Overtaken(c)[c] = Idle
           /\ \/ Overtaken(c)[d] = Idle
              \/ calls[d] # Idle /\ Overtaken(c)[d] = [calls[d] EXCEPT !.over = TRUE]
BY DEF Overtaken

\* A change that another call is told of stays on its way.
LEMMA OthersStay ==
    ASSUME SessionInv, NEW c \in Call, NEW d \in Call \ {c}, NEW u \in User,
           Changed(d, u), calls'[d] = Overtaken(c)[d]
    PROVE  Changed(d, u)'
<1>1. calls[d] \in CallRecord
      BY DEF SessionInv, CallsFit, Changed
<1>2. calls'[d] = [calls[d] EXCEPT !.over = TRUE]
      BY DEF Overtaken, Changed
<1>3. /\ calls'[d] \in CallRecord /\ calls'[d].kind = "change"
      /\ calls'[d].reply = "ok" /\ calls'[d].user = u
      BY <1>1, <1>2 DEF CallRecord, Changed
<1> QED
    BY <1>3, IdleIsNoCall DEF Changed

\* The tokens of an answer replace those of the session.
LEMMA TokensSet ==
    ASSUME SessionInv, NEW c \in Call, calls[c] # Idle, Brings(calls[c]),
           NEW s \in Session, s.user = calls[c].user, s.refresh = calls[c].ver,
           SetSession(s), account' = account,
           stale' = (stale \/ calls[c].over),
           \/ unheard' = unheard
           \/ calls[c].ver = account[calls[c].user].ver,
           \A d \in Call \ {c} : calls'[d] = Overtaken(c)[d]
    PROVE  TokensValid'
<1> DEFINE m == calls[c]
<1>1. m \in CallRecord /\ m.user \in User
      BY DEF SessionInv, CallsFit, CallRecord
<1>2. session' = s
      BY DEF SetSession
<1>3. CASE stale' \/ m.ver = account[m.user].ver
      BY <1>2, <1>3 DEF TokensValid
<1>4. CASE ~stale' /\ m.ver # account[m.user].ver
  <2>1. ~m.over /\ ~stale /\ unheard' = unheard
        BY <1>1, <1>4 DEF CallRecord, SessionInv, TypeOK
  <2>2. Good(m.ver, m.user, Call \ {c})
        BY <2>1 DEF SessionInv, TokensOnTheWay
  <2>3. CASE m.user \in unheard
        BY <1>2, <2>1, <2>3 DEF TokensValid
  <2>4. ASSUME NEW d \in Call \ {c}, Changed(d, m.user)
        PROVE  TokensValid'
    <3>1. PICK u \in User : u = m.user
          BY <1>1
    <3>2. Changed(d, u)'
          BY <2>4, <3>1, OthersStay
    <3> QED
        BY <1>2, <3>1, <3>2 DEF TokensValid, Changed
  <2> QED
      BY <1>4, <2>1, <2>2, <2>3, <2>4 DEF Good
<1> QED
    BY <1>3, <1>4

\* An answer that brings tokens.
LEMMA TokensInv ==
    ASSUME Constants, SessionInv, NEW c \in Call, calls[c] # Idle, Brings(calls[c]),
           NEW s \in Session, s.user = calls[c].user, s.refresh = calls[c].ver,
           SetSession(s), UNCHANGED <<account, epoch>>,
           stale' = (stale \/ calls[c].over),
           unheard' \subseteq User,
           \/ unheard' = unheard
           \/ calls[c].ver = account[calls[c].user].ver,
           \/ calls' = Overtaken(c)
           \/ calls' = [Overtaken(c) EXCEPT ![c] = Sent("retry", session', calls[c].user)],
           \/ loggedIn' = calls[c].user
           \/ loggedIn' = loggedIn /\ calls[c].kind # "login"
    PROVE  SessionInv'
<1> DEFINE m == calls[c]
<1>1. m \in CallRecord /\ ForUser(m) /\ m.user \in User
      BY DEF SessionInv, CallsFit, CallRecord
<1>2. session' = s /\ stored' = s /\ timer' = TRUE /\ s # None
      BY DEF SetSession, Constants
<1>3. /\ DOMAIN calls' = Call /\ calls' = [d \in Call |-> calls'[d]]
      /\ \A d \in Call \ {c} : calls'[d] = Overtaken(c)[d]
      /\ calls'[c] \in {Idle, Sent("retry", session', m.user)}
      BY DEF Overtaken
<1>4. WhoLoggedIn'
  <2>1. CASE loggedIn' = m.user \/ stale'
        BY <1>2, <2>1 DEF WhoLoggedIn
  <2>2. CASE loggedIn' = loggedIn /\ m.kind # "login" /\ ~stale'
    <3>1. ~m.over /\ ~stale
          BY <1>1, <2>2 DEF CallRecord, SessionInv, TypeOK
    <3>2. m.from = session /\ session \in Session /\ session.user = m.user
          BY <1>1, <2>2, <3>1 DEF SessionInv, InForce, ForUser
    <3> QED
        BY <1>2, <2>2, <3>1, <3>2 DEF SessionInv, WhoLoggedIn, Constants
  <2> QED
      BY <2>1, <2>2
<1>5. TokensValid'
      BY <1>3, TokensSet
<1>6. \A d \in Call :
        \/ calls'[d] = Idle
        \/ calls[d] # Idle /\ calls'[d] = [calls[d] EXCEPT !.over = TRUE]
        \/ /\ calls'[d] \in CallRecord /\ ForUser(calls'[d])
           /\ calls'[d].reply = "none" /\ calls'[d].from = session'
  <2>1. ASSUME NEW d \in Call, d # c
        PROVE  \/ calls'[d] = Idle
               \/ calls[d] # Idle /\ calls'[d] = [calls[d] EXCEPT !.over = TRUE]
    <3>1. calls'[d] = Overtaken(c)[d]
          BY <1>3, <2>1
    <3> QED
        BY <3>1, OvertakenCalls
  <2>2. CASE calls'[c] = Idle
        BY <2>1, <2>2
  <2>3. CASE calls'[c] = Sent("retry", session', m.user)
    <3>1. "retry" \in Kind
          BY DEF Kind
    <3>2. PICK g : g = Sent("retry", s, m.user)
          OBVIOUS
    <3>3. /\ g \in CallRecord /\ g.kind = "retry" /\ g.from = s
          /\ g.user = m.user /\ g.reply = "none"
          BY <1>1, <3>1, <3>2, SentFits
    <3>4. ForUser(g)
          BY <3>3 DEF ForUser
    <3>5. calls'[c] = g
          BY <1>2, <2>3, <3>2
    <3> QED
        BY <1>2, <2>1, <3>3, <3>4, <3>5
  <2> QED
      BY <1>3, <2>2, <2>3
<1>7. /\ session' \in Session \cup {None} /\ stored' = session'
      /\ timer' = (session' # None) /\ stale' \in BOOLEAN
      /\ loggedIn' \in User \cup {None}
      BY <1>1, <1>2 DEF SessionInv, TypeOK, CallRecord
<1> QED
    BY <1>3, <1>4, <1>5, <1>6, <1>7, NewSession

\* The session is closed.
LEMMA ClosedInv ==
    ASSUME SessionInv, ClearSession, UNCHANGED <<account, epoch, unheard>>,
           loggedIn' = None, stale' \in BOOLEAN,
           DOMAIN calls' = Call, calls' = [d \in Call |-> calls'[d]],
           \A d \in Call :
               \/ calls'[d] = Idle
               \/ calls[d] # Idle /\ calls'[d] = [calls[d] EXCEPT !.over = TRUE]
    PROVE  SessionInv'
<1>1. session' = None /\ stored' = None /\ timer' = FALSE
      BY DEF ClearSession
<1>2. WhoLoggedIn' /\ TokensValid'
      BY <1>1 DEF WhoLoggedIn, TokensValid
<1>3. unheard' \subseteq User
      BY DEF SessionInv, TypeOK
<1> QED
    BY <1>1, <1>2, <1>3, NewSession

LEMMA AnswerInv ==
    ASSUME Constants, SessionInv, NEW c \in Call, Answer(c)
    PROVE  SessionInv'
<1> DEFINE m == calls[c]
<1>1. m # Idle /\ m \in CallRecord /\ ForUser(m) /\ UNCHANGED <<account, epoch>>
      BY DEF Answer, SessionInv, CallsFit
<1>2. /\ m.ver \in 0..MaxVersion /\ m.epoch \in 0..MaxEpoch /\ m.must \in BOOLEAN
      /\ m.user \in User /\ m.over \in BOOLEAN
      BY <1>1 DEF CallRecord
<1>3. stale \in BOOLEAN /\ timer \in BOOLEAN /\ unheard \subseteq User
      BY DEF SessionInv, TypeOK
<1>4. CASE m.kind = "login" /\ m.reply = "ok" /\ LoggedIn(c)
  <2> DEFINE s == [user |-> m.user, access |-> m.epoch,
                   refresh |-> m.ver, must |-> m.must]
  <2>1. s \in Session /\ s.user = m.user /\ s.refresh = m.ver
        BY <1>2 DEF Session
  <2>2. /\ SetSession(s) /\ calls' = Overtaken(c) /\ loggedIn' = m.user
        /\ stale' = (stale \/ m.over)
        BY <1>4 DEF LoggedIn
  <2>3. unheard' = unheard \/ m.ver = account[m.user].ver
        BY <1>4 DEF LoggedIn
  <2>4. unheard' \subseteq User
        BY <1>3, <1>4 DEF LoggedIn
  <2>5. Brings(m)
        BY <1>4 DEF Brings
  <2> HIDE DEF s
  <2> QED
      BY <1>1, <2>1, <2>2, <2>3, <2>4, <2>5, TokensInv
<1>5. ASSUME m.kind # "login"
      PROVE  /\ WithTokens(m) \in Session /\ WithTokens(m).user = m.user
             /\ WithTokens(m).refresh = m.ver
  <2> DEFINE a == WithAccess(m)
  <2>1. m.from \in Session /\ m.from.user = m.user
        BY <1>1, <1>5 DEF ForUser
  <2>2. a \in Session /\ a.user = m.user
        BY <1>2, <2>1 DEF WithAccess, Session
  <2> HIDE DEF a
  <2>3. WithTokens(m) = [a EXCEPT !.refresh = m.ver]
        BY DEF WithTokens, a
  <2> QED
      BY <1>2, <2>2, <2>3 DEF Session
<1>6. CASE /\ m.kind \in {"refresh", "timer refresh"} /\ m.reply = "ok" /\ Refreshed(c)
  <2> DEFINE s == WithTokens(m)
  <2>1. s \in Session /\ s.user = m.user /\ s.refresh = m.ver
        BY <1>5, <1>6
  <2>2. /\ SetSession(s) /\ UNCHANGED <<loggedIn, unheard>>
        /\ stale' = (stale \/ m.over)
        /\ \/ calls' = Overtaken(c)
           \/ calls' = [Overtaken(c) EXCEPT ![c] = Sent("retry", session', m.user)]
        BY <1>6 DEF Refreshed
  <2>3. Brings(m) /\ m.kind # "login"
        BY <1>6 DEF Brings
  <2> HIDE DEF s
  <2> QED
      BY <1>1, <1>3, <2>1, <2>2, <2>3, TokensInv
<1>7. CASE m.kind = "change" /\ m.reply = "ok"
  <2> DEFINE s == [WithTokens(m) EXCEPT !.must = FALSE]
  <2>1. s \in Session /\ s.user = m.user /\ s.refresh = m.ver
        BY <1>5, <1>7 DEF Session
  <2>2. /\ SetSession(s) /\ UNCHANGED <<loggedIn, unheard>>
        /\ stale' = (stale \/ m.over) /\ calls' = Overtaken(c)
        BY <1>7 DEF Answer
  <2>3. Brings(m) /\ m.kind # "login"
        BY <1>7 DEF Brings
  <2> HIDE DEF s
  <2> QED
      BY <1>1, <1>3, <2>1, <2>2, <2>3, TokensInv
<1>8. CASE m.kind \in {"refresh", "timer refresh"} /\ m.reply = "denied" /\ Refused(c)
  <2>1. /\ ClearSession /\ loggedIn' = None /\ unheard' = unheard
        /\ calls' = Overtaken(c) /\ stale' \in BOOLEAN
        BY <1>2, <1>3, <1>8 DEF Refused
  <2>2. DOMAIN calls' = Call /\ calls' = [d \in Call |-> calls'[d]]
        BY <2>1 DEF Overtaken
  <2> QED
      BY <1>1, <2>1, <2>2, OvertakenCalls, ClosedInv
<1>9. CASE /\ m.kind \in {"refresh", "timer refresh"} /\ m.reply = "lost"
           /\ timer' = (timer \/ RetryLater(m))
           /\ Done(c) /\ UNCHANGED <<session, stored, history>>
  <2>1. ~Brings(m) /\ calls' = [calls EXCEPT ![c] = Idle]
        BY <1>9 DEF Brings, Done
  <2>2. /\ timer' \in BOOLEAN /\ (timer => timer')
        /\ m.kind = "timer refresh" /\ session # None => timer'
        BY <1>3, <1>9 DEF RetryLater
  <2> QED
      BY <1>1, <1>9, <2>1, <2>2, DropInv
<1>10. CASE /\ m.kind = "request" /\ m.reply = "denied" /\ session # None
            /\ calls' = [calls EXCEPT ![c] = Sent("refresh", session, session.user)]
            /\ UNCHANGED <<client, history>>
  <2>1. ~Brings(m) /\ m.kind # "timer refresh"
        BY <1>10 DEF Brings
  <2>2. PICK s \in Session, u \in User : s = session /\ u = session.user
        BY <1>10 DEF SessionInv, TypeOK, Session
  <2> DEFINE g == Sent("refresh", s, u)
  <2>3. /\ g \in CallRecord /\ g.kind = "refresh" /\ g.from = s
        /\ g.user = u /\ g.reply = "none"
        BY <2>2, RefreshFits
  <2>4. calls' = [calls EXCEPT ![c] = g]
        BY <1>10, <2>2
  <2> HIDE DEF g
  <2>5. ForUser(g) /\ g.from = session /\ ~Brings(g)
        BY <2>2, <2>3 DEF ForUser, Brings
  <2> QED
      BY <1>1, <1>3, <1>10, <2>1, <2>3, <2>4, <2>5, DropInv DEF client
<1>11. CASE /\ \/ m.kind \in {"login", "change"} /\ m.reply # "ok"
               \/ m.kind = "request"
               \/ m.kind = "retry"
            /\ Done(c) /\ UNCHANGED <<client, history>>
  <2>1. /\ ~Brings(m) /\ m.kind # "timer refresh"
        /\ calls' = [calls EXCEPT ![c] = Idle]
        BY <1>11 DEF Brings, Done
  <2> QED
      BY <1>1, <1>3, <1>11, <2>1, DropInv DEF client
<1> QED
    BY <1>4, <1>6, <1>7, <1>8, <1>9, <1>10, <1>11 DEF Answer

LEMMA LogoutInv ==
    ASSUME Constants, SessionInv, Logout
    PROVE  SessionInv'
<1>1. /\ ClearSession /\ loggedIn' = None /\ UNCHANGED <<account, epoch, unheard>>
      /\ stale' \in BOOLEAN
      BY DEF Logout, SessionInv, TypeOK
<1>2. DOMAIN calls' = Call /\ calls' = [d \in Call |-> calls'[d]]
      BY DEF Logout
<1>3. \A d \in Call :
        \/ calls'[d] = Idle
        \/ calls[d] # Idle /\ calls'[d] = [calls[d] EXCEPT !.over = TRUE]
      BY DEF Logout
<1> QED
    BY <1>1, <1>2, <1>3, ClosedInv

\* What is not heard of any more is remembered.
LEMMA ReloadInv ==
    ASSUME Constants, SessionInv, Reload
    PROVE  SessionInv'
<1>1. /\ \A d \in Call : calls'[d] = Idle
      /\ DOMAIN calls' = Call /\ calls' = [d \in Call |-> calls'[d]]
      BY DEF Reload
<1>2. /\ session' = session /\ stored' = session /\ timer' = (session # None)
      /\ UNCHANGED <<account, epoch, loggedIn, stale>>
      BY DEF Reload, SessionInv
<1>3. unheard' \subseteq User /\ unheard \subseteq unheard'
  <2>1. \A c \in Call : calls[c] # Idle => calls[c].user \in User
        BY DEF SessionInv, CallsFit, CallRecord
  <2> QED
      BY <2>1 DEF Reload, SessionInv, TypeOK
<1>4. \A d \in Call, u \in User : Changed(d, u) => u \in unheard'
      BY DEF Reload, Changed
<1>5. TokensValid'
  <2>1. CASE session # None
    <3>1. session.user \in User
          BY <2>1 DEF SessionInv, TypeOK, Session
    <3>2. Good(session.refresh, session.user, Call)
          BY <2>1 DEF SessionInv, TokensValid, Good, Changed
    <3> QED
        BY <1>2, <1>3, <1>4, <3>1, <3>2 DEF Good, TokensValid
  <2> QED
      BY <1>2, <2>1 DEF TokensValid
<1>6. WhoLoggedIn'
      BY <1>2 DEF SessionInv, WhoLoggedIn
<1>7. /\ session' \in Session \cup {None} /\ stale' \in BOOLEAN
      /\ loggedIn' \in User \cup {None}
      BY <1>2 DEF SessionInv, TypeOK
<1> QED
    BY <1>1, <1>2, <1>3, <1>5, <1>6, <1>7, NewSession

LEMMA ExpireInv ==
    ASSUME Constants, SessionInv, Expire
    PROVE  SessionInv'
<1>1. UNCHANGED <<session, stored, timer, calls, account, loggedIn, stale, unheard>>
      BY DEF Expire, client, history
<1>2. epoch' \in 0..MaxEpoch
      BY DEF Expire, Constants, SessionInv, TypeOK
<1>3. TypeOK'
      BY <1>1, <1>2 DEF SessionInv, TypeOK
<1>4. CallsFit' /\ InForce' /\ WhoLoggedIn' /\ KeptAlive' /\ (stored = session)'
      BY <1>1 DEF SessionInv, CallsFit, InForce, WhoLoggedIn, KeptAlive
<1>5. TokensOnTheWay' /\ TokensValid'
      BY <1>1 DEF SessionInv, TokensOnTheWay, TokensValid, Good, Changed
<1> QED
    BY <1>3, <1>4, <1>5 DEF SessionInv

LEMMA SessionStutters ==
    ASSUME SessionInv, UNCHANGED vars
    PROVE  SessionInv'
<1>1. UNCHANGED <<session, stored, timer, calls, account, epoch, loggedIn, stale, unheard>>
      BY DEF vars, client, history
<1>2. TypeOK'
      BY <1>1 DEF SessionInv, TypeOK
<1>3. CallsFit' /\ InForce' /\ WhoLoggedIn' /\ KeptAlive' /\ (stored = session)'
      BY <1>1 DEF SessionInv, CallsFit, InForce, WhoLoggedIn, KeptAlive
<1>4. TokensOnTheWay' /\ TokensValid'
      BY <1>1 DEF SessionInv, TokensOnTheWay, TokensValid, Good, Changed
<1> QED
    BY <1>2, <1>3, <1>4 DEF SessionInv

LEMMA SessionInit == ASSUME Constants, Init PROVE SessionInv
<1>1. TypeOK
  <2>1. account \in [User -> [ver : 0..MaxVersion, must : BOOLEAN]]
        BY DEF Init, Constants
  <2>2. epoch \in 0..MaxEpoch
        BY DEF Init, Constants
  <2>3. \A c \in Call : calls[c] = Idle
        BY DEF Init
  <2> QED
      BY <2>1, <2>2, <2>3 DEF Init, TypeOK
<1>2. CallsFit /\ InForce /\ TokensOnTheWay
      BY DEF Init, CallsFit, InForce, TokensOnTheWay
<1>3. WhoLoggedIn /\ KeptAlive /\ TokensValid /\ stored = session
      BY DEF Init, WhoLoggedIn, KeptAlive, TokensValid
<1> QED
    BY <1>1, <1>2, <1>3 DEF SessionInv

LEMMA SessionStep == ASSUME Constants, SessionInv, [Next]_vars PROVE SessionInv'
<1>1. CASE UNCHANGED vars
      BY <1>1, SessionStutters
<1>2. CASE Logout \/ Reload \/ Expire
      BY <1>2, LogoutInv, ReloadInv, ExpireInv
<1>3. ASSUME NEW c \in Call,
             \/ \E u \in User : Login(c, u)
             \/ ChangePassword(c) \/ Request(c) \/ RefreshTimer(c)
      PROVE  SessionInv'
      BY <1>3, AskInv
<1>4. ASSUME NEW c \in Call, Handle(c) \/ Lose(c) \/ Answer(c)
      PROVE  SessionInv'
      BY <1>4, HandleInv, LoseInv, AnswerInv
<1> QED
    BY <1>1, <1>2, <1>3, <1>4 DEF Next

LEMMA SessionHolds == ASSUME Constants PROVE Spec => []SessionInv
BY SessionInit, SessionStep, PTL DEF Spec
=============================================================================
