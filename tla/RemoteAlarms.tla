---------------------------- MODULE RemoteAlarms ----------------------------
(* The editor's view of the backend's alarms: RemoteAlarmClient.ts behind    *)
(* AlarmManager.ts, with the switch between the local engine and the backend *)
(* and the queries and acknowledgements of AlarmPanel and AlarmCenter.       *)
(* Occurrences arrive twice: as answers to REST requests, each of which may  *)
(* be overtaken by another, and as messages of the WebSocket, in order; the  *)
(* messages sent while the connection is down are lost.  The sequence of     *)
(* events (SOE) and the filters of the queries are left out.                 *)
EXTENDS Naturals, SequencesExt, FiniteSetsExt

CONSTANTS
    Kind,           \* what is asked for: "active", "history", "rules"
    Alarm,          \* occurrences of threshold rules
    Change,         \* occurrences of rules on change: recovered when they are raised
    MaxRules,       \* bound: versions of the backend's rules
    MaxStream,      \* bound: messages on their way
    MaxAsked        \* bound: requests of one kind awaited

VARIABLES
    active,         \* activeOccurrences: the status of each, "none" if not there
    history,        \* historyOccurrences: the statuses of each one's copies in the list
    rules,          \* the rules, known by their version
    subscribed,     \* wsUnsub and wsStatusUnsub: AlarmManager's mode is "remote"
    asked, answers, \* requests the backend has not handled; answers on their way
    up, stream,     \* environment: the connection, the messages in it
    backend,        \* environment: the status of every occurrence
    backendRules,
    stale           \* history: by kind, what is shown is of a late answer, or the
                    \* last request failed, or an acknowledgement went astray

client == <<active, history, rules, subscribed>>
server == <<backend, backendRules>>
vars == <<client, asked, answers, up, stream, server, stale>>

Occurrence == Alarm \cup Change
Active == {"active", "acked"}
Done   == {"recovered", "closed"}       \* recovered, without and with an acknowledgement
Status == {"none"} \cup Active \cup Done

Init ==
    /\ active = [o \in Occurrence |-> "none"]
    /\ history = [o \in Occurrence |-> <<>>]
    /\ rules = 0 /\ backendRules = 0
    /\ subscribed = FALSE
    /\ asked = [k \in Kind |-> 0] /\ answers = [k \in Kind |-> <<>>]
    /\ up = FALSE /\ stream = <<>>
    /\ backend = active
    /\ stale = [k \in Kind |-> FALSE]

-----------------------------------------------------------------------------
(* Requests.                                                                 *)

\* A request of each of these kinds; MaxAsked bounds what is awaited.
Ask(ks) ==
    /\ \A k \in Kind \cap ks : asked[k] + Len(answers[k]) < MaxAsked
    /\ asked' = [k \in Kind |-> IF k \in ks THEN asked[k] + 1 ELSE asked[k]]

\* queryHistory as the panels call it.
QueryHistory ==
    /\ subscribed /\ "history" \in Kind
    /\ Ask({"history"})
    /\ UNCHANGED <<client, answers, up, stream, server, stale>>

\* GET /api/alarm/active, /history and /rules
Value(k) ==
    CASE k = "active"  -> [o \in Occurrence |-> IF backend[o] \in Active THEN backend[o] ELSE "none"]
      [] k = "history" -> [o \in Occurrence |-> IF backend[o] = "none" THEN <<>> ELSE <<backend[o]>>]
      [] k = "rules"   -> backendRules

\* An answer is late once the stream has told more; a page of the history is out
\* of step from the start if it holds what the stream is still going to prepend.
Handled(k) ==
    /\ asked[k] > 0
    /\ asked' = [asked EXCEPT ![k] = @ - 1]
    /\ answers' = [answers EXCEPT ![k] = Append(@,
          [val |-> Value(k),
           late |-> k = "history" /\ \E m \in Range(stream) : m.type = "update" /\ m.occ \in Change])]
    /\ UNCHANGED <<client, up, stream, server, stale>>

Late(as) == [i \in DOMAIN as |-> [as[i] EXCEPT !.late = TRUE]]

Failed(k) ==
    /\ asked[k] > 0
    /\ asked' = [asked EXCEPT ![k] = @ - 1]
    /\ stale' = [stale EXCEPT ![k] = TRUE]
    /\ answers' = [answers EXCEPT ![k] = Late(@)]
    /\ UNCHANGED <<client, up, stream, server>>

\* fetchActive, fetchHistory, fetchRules: the i-th of the answers arrives.
Answered(k, i) ==
    /\ i \in DOMAIN answers[k]
    /\ LET a == answers[k][i] IN
       /\ active'  = IF k = "active"  THEN a.val ELSE active
       /\ history' = IF k = "history" THEN a.val ELSE history
       /\ rules'   = IF k = "rules"   THEN a.val ELSE rules
       /\ stale' = [stale EXCEPT ![k] = a.late]
    /\ answers' = [answers EXCEPT ![k] = Late(SubSeq(@, 1, i - 1)) \o SubSeq(@, i + 1, Len(@))]
    /\ UNCHANGED <<subscribed, asked, up, stream, server>>

-----------------------------------------------------------------------------
(* Messages.                                                                 *)

\* patchOccurrence, and the replacement of the first copy in the history.
Patched(h, o, st) == [h EXCEPT ![o] = IF @ = <<>> THEN @ ELSE <<st>> \o Tail(@)]
Moved(h, o, st)   == [h EXCEPT ![o] = IF @ = <<>> THEN <<st>> ELSE <<st>> \o Tail(@)]

\* Faulty variant: the recovered alarm stays among the active ones.
RecoveredInPlace(o, st) ==
    active' = (IF active[o] # "none" THEN [active EXCEPT ![o] = st] ELSE active)
    /\ history' = Moved(history, o, st)

Recovered(o, st) ==
    active' = [active EXCEPT ![o] = "none"] /\ history' = Moved(history, o, st)

\* applyRemoteUpdate
Update(m) ==
    CASE m.event = "trigger" /\ m.st \in Done ->
             /\ history' = [history EXCEPT ![m.occ] = <<m.st>> \o @]
             /\ UNCHANGED active
      [] m.event = "trigger" /\ m.st \notin Done ->
             active' = [active EXCEPT ![m.occ] = m.st] /\ UNCHANGED history
      [] m.event = "ack" ->
             IF active[m.occ] # "none"
             THEN active' = [active EXCEPT ![m.occ] = m.st] /\ UNCHANGED history
             ELSE history' = Patched(history, m.occ, m.st) /\ UNCHANGED active
      [] m.event = "recover" -> Recovered(m.occ, m.st)

\* The acknowledgement of a recovered alarm meets one still shown as active.
Misled(m) == m.event = "ack" /\ m.st = "closed" /\ active[m.occ] # "none"

\* handleRemoteMessage: what is on its way is late by what the message tells.
Message ==
    /\ stream # <<>> /\ stream' = Tail(stream)
    /\ LET m == Head(stream)
           told == CASE m.type = "update"   -> {"active", "history"}
                     [] m.type = "snapshot" -> {"active"}
                     [] m.type \in {"rules", "rules_changed"} -> {"rules"}
       IN
       /\ answers' = [k \in Kind |-> IF k \in told THEN Late(answers[k]) ELSE answers[k]]
       /\ IF ~subscribed THEN UNCHANGED <<active, history, rules, asked, stale>>
          ELSE
          /\ IF m.type = "update" THEN Update(m)
             ELSE /\ active' = IF m.type = "snapshot" THEN m.active ELSE active
                  /\ UNCHANGED history
          /\ rules' = IF m.type = "rules" THEN m.rules ELSE rules
          /\ IF m.type = "rules_changed" THEN Ask({"rules"}) ELSE UNCHANGED asked
          /\ stale' = [k \in Kind |->
                 IF m.type \in {"rules", "snapshot"} THEN stale[k] /\ k \notin told
                 ELSE stale[k] \/ (k = "history" /\ m.type = "update" /\ Misled(m))]
    /\ UNCHANGED <<subscribed, up, server>>

\* Environment: the connection is lost with what is in it.
Lose ==
    /\ up /\ up' = FALSE /\ stream' = <<>>
    /\ UNCHANGED <<client, asked, answers, server, stale>>

\* refreshAll; SOE apart.
RefreshAll == Ask(Kind)

\* The socket is open again: the backend sends the rules and the active
\* occurrences, the client sees the status "connected".
Open ==
    /\ ~up /\ up' = TRUE
    /\ stream' = <<[type |-> "rules", rules |-> backendRules],
                   [type |-> "snapshot", active |-> Value("active")]>>
    /\ IF subscribed THEN RefreshAll ELSE UNCHANGED asked
    /\ UNCHANGED <<client, answers, server, stale>>

\* AlarmManager.setMode("remote"), setRemote and start; setMode("local"): what is
\* on its way is still taken.
SetRemote ==
    /\ ~subscribed /\ subscribed' = TRUE
    /\ RefreshAll
    /\ UNCHANGED <<active, history, rules, answers, up, stream, server, stale>>

SetLocal ==
    /\ subscribed /\ subscribed' = FALSE
    /\ UNCHANGED <<active, history, rules, asked, answers, up, stream, server, stale>>

-----------------------------------------------------------------------------
(* The backend's engine: it persists, then tells whoever is connected, in one *)
(* step: the persister's delay and the lag of the broadcast are left out.     *)

Tell(m) ==
    /\ Len(stream) < MaxStream
    /\ stream' = IF up THEN Append(stream, m) ELSE stream

Step(o, event, st) ==
    /\ "active" \in Kind /\ backend' = [backend EXCEPT ![o] = st]
    /\ Tell([type |-> "update", event |-> event, occ |-> o, st |-> st])
    /\ UNCHANGED <<client, asked, answers, up, backendRules, stale>>

Trigger(o) ==
    backend[o] = "none" /\ Step(o, "trigger", IF o \in Change THEN "recovered" ELSE "active")

Recover(o) ==
    \/ backend[o] = "active" /\ Step(o, "recover", "recovered")
    \/ backend[o] = "acked"  /\ Step(o, "recover", "closed")

\* acknowledge, acknowledgeAll, here or at another engineer's.
Acknowledge(o) ==
    \/ backend[o] = "active"    /\ Step(o, "ack", "acked")
    \/ backend[o] = "recovered" /\ Step(o, "ack", "closed")

ChangeRules ==
    /\ "rules" \in Kind /\ backendRules < MaxRules /\ backendRules' = backendRules + 1
    /\ Tell([type |-> "rules_changed"])
    /\ UNCHANGED <<client, asked, answers, up, backend, stale>>

Next ==
    \/ QueryHistory \/ Message \/ Lose \/ Open \/ SetRemote \/ SetLocal \/ ChangeRules
    \/ \E k \in Kind : Handled(k) \/ Failed(k) \/ \E i \in 1..MaxAsked : Answered(k, i)
    \/ \E o \in Occurrence : Trigger(o) \/ Recover(o) \/ Acknowledge(o)

Spec == Init /\ [][Next]_vars

-----------------------------------------------------------------------------
TypeOK ==
    /\ active \in [Occurrence -> Status] /\ backend \in [Occurrence -> Status]
    /\ history \in [Occurrence -> Seq(Status)]
    /\ rules \in 0..MaxRules /\ backendRules \in 0..MaxRules
    /\ asked \in [Kind -> 0..MaxAsked]
    /\ stale \in [Kind -> BOOLEAN]

\* Nothing of this kind is on its way, and the last of it was taken in order.
Quiet(k) ==
    /\ k \in Kind /\ subscribed /\ up /\ stream = <<>>
    /\ asked[k] = 0 /\ answers[k] = <<>> /\ ~stale[k]

\* The backend is the only source of facts (RemoteAlarmClient.ts): once nothing is
\* on its way, the active occurrences and the rules shown are the backend's, and
\* the count of unacknowledged alarms is that of its tables, whatever connections
\* were lost, modes switched and requests answered on the way; excepted are an
\* answer that is lost, or overtaken by what the stream has told, and the history
\* after an acknowledgement that met the list of before the recovery.
Unacknowledged ==
    Cardinality({o \in Occurrence : active[o] = "active"})
    + FoldSet(LAMBDA o, n : n + Cardinality({i \in DOMAIN history[o] : history[o][i] = "recovered"}),
              0, Occurrence)

Mirrors ==
    /\ Quiet("active") => active = Value("active")
    /\ Quiet("rules") => rules = backendRules
    /\ Quiet("active") /\ Quiet("history")
          => Unacknowledged = Cardinality({o \in Occurrence : backend[o] \in {"active", "recovered"}})
=============================================================================
