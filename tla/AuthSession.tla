---------------------------- MODULE AuthSession -----------------------------
(* The session of the editor with the backend: RemoteAuthClient of           *)
(* auth/remote.ts, used by AuthDialog.tsx and by the requests of the remote  *)
(* projects.  Logins, refreshes, password changes and requests overlap, each *)
(* answer is applied to whatever the session is by then.  The backend (crate *)
(* auth) accepts an access token until it expires, and rejects the refresh   *)
(* tokens issued before a password change.  One backend; addresses left out. *)
EXTENDS Naturals

CONSTANTS
    User,
    None,           \* no session: null
    Call,           \* bound: calls under way at the same time
    MaxVersion,     \* bound: password changes of a user
    MaxEpoch        \* bound: times the access tokens issued so far expire

VARIABLES
    session,        \* RemoteAuthClient.sessionValue
    stored,         \* the session in localStorage
    timer,          \* refreshTimer is set
    calls,          \* what is awaited
    account,        \* environment: of each user the token version and must_change
    epoch,          \* environment: access tokens of earlier epochs have expired
    loggedIn,       \* history: the user of the last login, None after a logout
    stale,          \* history: an answer met another session than it was asked for
    unheard         \* history: users whose password changed and the answer was lost

client == <<session, stored, timer>>
history == <<loggedIn, stale, unheard>>
vars == <<client, calls, account, epoch, history>>

Session == [user : User, access : 0..MaxEpoch, refresh : 0..MaxVersion, must : BOOLEAN]
Kind  == {"login", "timer refresh", "refresh", "change", "request", "retry"}
Reply == {"none", "ok", "denied", "lost"}
Idle  == [kind |-> "idle"]

\* A call: the session it was asked for, the tokens or the user of its answer,
\* and whether the session has changed since.
Sent(kind, s, u) ==
    [kind |-> kind, from |-> s, user |-> u, reply |-> "none", ver |-> 0, epoch |-> 0,
     must |-> FALSE, over |-> FALSE]

Init ==
    /\ session = None /\ stored = None /\ timer = FALSE
    /\ calls = [c \in Call |-> Idle]
    /\ account = [u \in User |-> [ver |-> 0, must |-> TRUE]]   \* seeded accounts
    /\ epoch = 0
    /\ loggedIn = None /\ stale = FALSE /\ unheard = {}

-----------------------------------------------------------------------------
(* Asking.                                                                   *)

Ask(c, kind, s, u) ==
    /\ calls[c] = Idle
    /\ calls' = [calls EXCEPT ![c] = Sent(kind, s, u)]
    /\ UNCHANGED <<account, epoch, history>>

\* handleLogin: the dialog offers it while nobody is logged in; one that was
\* closed and opened again does not know of a login under way.
Login(c, u) ==
    session = None /\ Ask(c, "login", session, u) /\ UNCHANGED client

\* handleChangePassword
ChangePassword(c) ==
    session # None /\ Ask(c, "change", session, session.user) /\ UNCHANGED client

\* authorizedFetch, its first try
Request(c) ==
    session # None /\ Ask(c, "request", session, session.user) /\ UNCHANGED client

\* The timer of scheduleRefresh.
RefreshTimer(c) ==
    /\ timer /\ timer' = FALSE
    /\ session # None
    /\ Ask(c, "timer refresh", session, session.user)
    /\ UNCHANGED <<session, stored>>

-----------------------------------------------------------------------------
(* The backend.                                                              *)

\* require_auth: only the lifetime of an access token counts, not its version.
Accepted(s) == s.access = epoch

\* An answer; the one that brings tokens names what they are good for.
Replied(c, reply, u) ==
    LET tokens == reply = "ok" /\ calls[c].kind \notin {"request", "retry"}
    IN  [calls EXCEPT ![c] = IF tokens
           THEN [@ EXCEPT !.reply = "ok", !.ver = account'[u].ver, !.epoch = epoch,
                          !.must = account'[u].must]
           ELSE [@ EXCEPT !.reply = reply]]

Handle(c) ==
    LET m == calls[c]
    IN  /\ m # Idle /\ m.reply = "none"
        /\ \/ /\ m.kind = "login"
              /\ UNCHANGED account
              /\ \E reply \in {"ok", "denied"} : calls' = Replied(c, reply, m.user)
           \/ /\ m.kind \in {"refresh", "timer refresh"}
              /\ UNCHANGED account
              /\ \E reply \in {"ok", "denied"} :       \* it may be too old as well
                    /\ reply = "ok" => m.from.refresh = account[m.user].ver
                    /\ calls' = Replied(c, reply, m.user)
           \/ /\ m.kind = "change" /\ Accepted(m.from)
              /\ account[m.user].ver < MaxVersion
              /\ account' = [account EXCEPT ![m.user] = [ver |-> @.ver + 1, must |-> FALSE]]
              /\ calls' = Replied(c, "ok", m.user)
           \/ /\ m.kind = "change"                  \* or the old password is wrong
              /\ UNCHANGED account
              /\ calls' = Replied(c, "denied", m.user)
           \/ /\ m.kind \in {"request", "retry"}
              /\ UNCHANGED account
              /\ calls' = Replied(c, IF Accepted(m.from) THEN "ok" ELSE "denied", m.user)
        /\ UNCHANGED <<client, epoch, history>>

\* A timeout, or the network: the backend may have handled the call or not.
Lose(c) ==
    /\ calls[c] # Idle /\ calls[c].reply # "lost"
    /\ calls' = [calls EXCEPT ![c] = [Sent(@.kind, @.from, @.user) EXCEPT
                                        !.reply = "lost", !.over = calls[c].over]]
    /\ unheard' = IF calls[c].kind = "change" /\ calls[c].reply = "ok"
                  THEN unheard \cup {calls[c].user} ELSE unheard
    /\ UNCHANGED <<client, account, epoch, loggedIn, stale>>

Expire ==
    /\ epoch < MaxEpoch /\ epoch' = epoch + 1
    /\ UNCHANGED <<client, calls, account, history>>

-----------------------------------------------------------------------------
(* Answers.                                                                  *)

\* The calls other than c learn that the session is not theirs any more.
Overtaken(c) ==
    [d \in Call |-> IF d = c THEN Idle
                    ELSE IF calls[d] = Idle THEN Idle ELSE [calls[d] EXCEPT !.over = TRUE]]

Done(c) == calls' = [calls EXCEPT ![c] = Idle]

\* The session is set, persisted and its refresh scheduled.
SetSession(s) == session' = s /\ stored' = s /\ timer' = TRUE

\* Faulty variant: the stored session stays.
ClearSessionInMemory == session' = None /\ timer' = FALSE /\ UNCHANGED stored

ClearSession == session' = None /\ timer' = FALSE /\ stored' = None

LoggedIn(c) ==
    LET m == calls[c]
    IN  /\ SetSession([user |-> m.user, access |-> m.epoch,
                       refresh |-> m.ver, must |-> m.must])
        /\ calls' = Overtaken(c)
        /\ loggedIn' = m.user
        /\ unheard' = IF m.ver = account[m.user].ver THEN unheard \ {m.user} ELSE unheard
        /\ stale' = (stale \/ m.over)

\* Faulty variant: the refresh token is kept.
WithAccess(m) == [m.from EXCEPT !.access = m.epoch]

\* The session a call was asked for, with the tokens of its answer.
WithTokens(m) == [WithAccess(m) EXCEPT !.refresh = m.ver]

\* refresh() succeeds; a request that awaits it goes on as a retry.
Refreshed(c) ==
    LET m == calls[c]
    IN  /\ SetSession(WithTokens(m))
        /\ calls' = IF m.kind = "refresh"
                    THEN [Overtaken(c) EXCEPT ![c] = Sent("retry", session', m.user)]
                    ELSE Overtaken(c)
        /\ stale' = (stale \/ m.over)
        /\ UNCHANGED <<loggedIn, unheard>>

\* Faulty variant: a refresh the network has failed is not tried again.
RetryNever(m) == FALSE

\* A refresh of the timer that failed is scheduled again, if there still is a
\* session.
RetryLater(m) == m.kind = "timer refresh" /\ session # None

Refused(c) ==
    /\ ClearSession
    /\ calls' = Overtaken(c)
    /\ loggedIn' = None /\ stale' = (stale \/ calls[c].over)
    /\ UNCHANGED unheard

\* The answer, or its absence, reaches the client.
Answer(c) ==
    LET m == calls[c]
    IN  /\ m # Idle /\ m.reply # "none"
        /\ \/ m.kind = "login" /\ m.reply = "ok" /\ LoggedIn(c)
           \/ m.kind \in {"refresh", "timer refresh"} /\ m.reply = "ok" /\ Refreshed(c)
           \/ m.kind \in {"refresh", "timer refresh"} /\ m.reply = "denied" /\ Refused(c)
           \/ /\ m.kind \in {"refresh", "timer refresh"} /\ m.reply = "lost"
              /\ timer' = (timer \/ RetryLater(m))
              /\ Done(c) /\ UNCHANGED <<session, stored, history>>
           \/ /\ m.kind = "change" /\ m.reply = "ok"
              /\ SetSession([WithTokens(m) EXCEPT !.must = FALSE])
              /\ calls' = Overtaken(c)
              /\ stale' = (stale \/ m.over)
              /\ UNCHANGED <<loggedIn, unheard>>
           \/ /\ m.kind = "request" /\ m.reply = "denied" /\ session # None
              /\ calls' = [calls EXCEPT ![c] = Sent("refresh", session, session.user)]
              /\ UNCHANGED <<client, history>>
           \/ /\ \/ m.kind \in {"login", "change"} /\ m.reply # "ok"
                 \/ m.kind = "request" /\ (m.reply # "denied" \/ session = None)
                 \/ m.kind = "retry"
              /\ Done(c) /\ UNCHANGED <<client, history>>
        /\ UNCHANGED <<account, epoch>>

Logout ==
    /\ session # None
    /\ ClearSession
    /\ loggedIn' = None
    /\ calls' = [c \in Call |-> IF calls[c] = Idle THEN Idle
                                ELSE [calls[c] EXCEPT !.over = TRUE]]
    /\ UNCHANGED <<account, epoch, stale, unheard>>

\* The page is loaded anew: restore(); a password change on its way is not heard.
Reload ==
    /\ calls' = [c \in Call |-> Idle]
    /\ session' = stored /\ timer' = (stored # None)
    /\ unheard' = unheard \cup
         {calls[c].user : c \in {d \in Call : calls[d] # Idle /\ calls[d].kind = "change"
                                                /\ calls[d].reply = "ok"}}
    /\ UNCHANGED <<stored, account, epoch, loggedIn, stale>>

Next ==
    \/ \E c \in Call : \/ ChangePassword(c) \/ Request(c) \/ RefreshTimer(c)
                       \/ Handle(c) \/ Lose(c) \/ Answer(c)
                       \/ \E u \in User : Login(c, u)
    \/ Logout \/ Reload \/ Expire

Spec == Init /\ [][Next]_vars

-----------------------------------------------------------------------------
TypeOK ==
    /\ session \in Session \cup {None} /\ stored \in Session \cup {None}
    /\ timer \in BOOLEAN /\ stale \in BOOLEAN /\ unheard \subseteq User
    /\ loggedIn \in User \cup {None}
    /\ account \in [User -> [ver : 0..MaxVersion, must : BOOLEAN]]
    /\ epoch \in 0..MaxEpoch
    /\ \A c \in Call : calls[c] # Idle =>
          /\ calls[c].kind \in Kind /\ calls[c].reply \in Reply
          /\ calls[c].from \in Session \cup {None}

\* Whoever the session is for is the user who logged in last and has not logged
\* out, also after the page is loaded anew; unless an answer came to a session
\* that had changed since it was asked for, which the client does not notice.
WhoLoggedIn == session # None => session.user = loggedIn \/ stale

\* A session is kept alive: as long as there is one a refresh is scheduled, or
\* the refresh of the timer is under way, however logins, refreshes, password
\* changes and failures of the network follow each other.
KeptAlive ==
    session # None => timer \/ \E c \in Call : calls[c].kind = "timer refresh"

\* The refresh token of a session is of the user's present password; except after a
\* password change whose answer is on its way or lost, and after an answer that
\* came to another session.
TokensValid ==
    session # None =>
        \/ session.refresh = account[session.user].ver
        \/ stale \/ session.user \in unheard
        \/ \E c \in Call : /\ calls[c] # Idle /\ calls[c].kind = "change"
                           /\ calls[c].reply = "ok" /\ calls[c].user = session.user

\* 登出 (logout): the session stays closed until somebody logs in.
LoggedOutStaysOut == loggedIn = None => session = None
=============================================================================
