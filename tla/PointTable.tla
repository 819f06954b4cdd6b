----------------------------- MODULE PointTable -----------------------------
(* The editor's table of variables while it is fed by an IO backend: the     *)
(* data side of DataBridge.ts, VariableManager.ts, the messages of           *)
(* WebSocketClient.ts that carry points and the automatic and manual import  *)
(* of ConnectionPanel.tsx.  The table comes from GET /api/points, the values *)
(* come over the socket: nothing orders one against the other, and requests  *)
(* for the table may overlap.  Of the backend only the list of points it     *)
(* serves is kept: the points of its database that the runtime manages.      *)
EXTENDS Naturals, Sequences

CONSTANTS
    Variable,       \* HMI ids of points the backend may have
    Digital,        \* those of type DI or DO
    Value,          \* values of points; 0 is the default of a definition
    Request,        \* bound: requests for the table at the same time
    MaxQueue        \* bound: messages on their way to the editor

VARIABLES
    server,         \* the points GET /api/points answers with
    stream,         \* messages the backend has sent on the socket
    connected,      \* the socket is open
    defs,           \* VariableManager.defs
    mapping,        \* DataBridge.pointIdToVarId (the ids that have an entry)
    values,         \* VariableManager.values
    lastValues,     \* DataBridge.lastValues; NoValue where nothing was received
    refreshTimer,   \* DataBridge.configRefreshTimer
    hasFetched,     \* ConnectionPanel.hasFetched
    requests,       \* of each request: idle, asked, or the list it was answered with
    control,        \* history: the last value the operator has set; NoValue if none
    excused         \* history: why the table may be old: a request failed or
                    \* was overtaken, the operator has edited the table, or the
                    \* backend has changed its list without a word

table == <<defs, mapping, values, lastValues>>
vars == <<server, stream, connected, table, refreshTimer, hasFetched, requests,
          control, excused>>

NoValue == 99
Idle    == [state |-> "idle", list |-> {}]
Asked   == [state |-> "asked", list |-> {}]
Pending == {r \in Request : requests[r] # Idle}

Point(v, x) == [type |-> "data", id |-> v, value |-> x]
ConfigChange == [type |-> "config_change"]

Init ==
    /\ server \in SUBSET Variable
    /\ stream = <<>> /\ connected = FALSE
    /\ defs = {} /\ mapping = {}
    /\ values = [v \in Variable |-> NoValue]
    /\ lastValues = [v \in Variable |-> NoValue]
    /\ refreshTimer = FALSE /\ hasFetched = FALSE
    /\ requests = [r \in Request |-> Idle]
    /\ control = [v \in Variable |-> NoValue]
    /\ excused = FALSE

-----------------------------------------------------------------------------
(* VariableManager                                                           *)

\* A digital variable holds 0 or 1.
Normal(v, x) == IF v \in Digital /\ x # 0 THEN 1 ELSE x

\* setValue: a variable that is not defined is ignored.
SetValue(vals, ds, v, x) == IF v \in ds THEN [vals EXCEPT ![v] = Normal(v, x)] ELSE vals

\* replaceAll: every variable starts from its default.
ReplaceAll(ds) == [v \in Variable |-> IF v \in ds THEN 0 ELSE NoValue]

\* Faulty variant: the values received so far are not replayed.
ImportedBare(list) == ReplaceAll(list)

\* The import replaces the table and replays what was received.
Imported(list) ==
    [v \in Variable |-> IF v \in list /\ lastValues[v] # NoValue
                        THEN Normal(v, lastValues[v])
                        ELSE ReplaceAll(list)[v]]

-----------------------------------------------------------------------------
(* Requests for the table.                                                   *)

\* fetchVariablesFromBackend up to the first await.  A request that overtakes
\* or may be overtaken by another leaves the table in doubt.
Fetch(r) ==
    /\ requests[r] = Idle
    /\ requests' = [requests EXCEPT ![r] = Asked]
    /\ excused' = (Pending # {})

\* list_points
Answer(r) ==
    /\ requests[r] = Asked
    /\ requests' = [requests EXCEPT ![r] = [state |-> "answered", list |-> server]]
    /\ UNCHANGED <<server, stream, connected, table, refreshTimer, hasFetched, control,
                   excused>>

\* The primary and the fallback address fail, or the answer is not a list.
Fails(r) ==
    /\ requests[r] # Idle
    /\ requests' = [requests EXCEPT ![r] = Idle]
    /\ excused' = TRUE
    /\ UNCHANGED <<server, stream, connected, table, refreshTimer, hasFetched, control>>

\* What follows await resp.json(): mappings, table and replay in one task.
Import(r) ==
    /\ requests[r].state = "answered"
    /\ mapping' = requests[r].list
    /\ defs' = requests[r].list
    /\ values' = Imported(requests[r].list)
    /\ requests' = [requests EXCEPT ![r] = Idle]
    /\ control' = [v \in Variable |-> NoValue]
    /\ UNCHANGED <<server, stream, connected, lastValues, refreshTimer, hasFetched, excused>>

\* configRefreshTimer expires.
RefreshTimer(r) ==
    /\ refreshTimer /\ refreshTimer' = FALSE
    /\ Fetch(r)
    /\ UNCHANGED <<server, stream, connected, table, hasFetched, control>>

\* handleRefreshVariables
RefreshVariables(r) ==
    /\ Fetch(r)
    /\ hasFetched' = FALSE
    /\ UNCHANGED <<server, stream, connected, table, refreshTimer, control>>

-----------------------------------------------------------------------------
(* The socket.                                                               *)

\* The socket opens: a snapshot comes first, and the panel imports the table
\* unless it has done so for this connection.
Connected(r) ==
    /\ ~connected /\ connected' = TRUE
    /\ \E snapshot \in {<<>>} \cup {<<Point(v, x)>> : v \in Variable, x \in Value} :
          stream' = snapshot
    /\ IF hasFetched THEN UNCHANGED <<requests, hasFetched, excused>>
       ELSE Fetch(r) /\ hasFetched' = TRUE
    /\ UNCHANGED <<server, table, refreshTimer, control>>

\* Faulty variant: the panel does not note that the connection is gone.
LostUnnoticed ==
    /\ connected /\ connected' = FALSE
    /\ stream' = <<>>
    /\ UNCHANGED <<server, table, refreshTimer, hasFetched, requests, control, excused>>

\* The connection breaks, with every message on its way.
Lost ==
    /\ connected /\ connected' = FALSE
    /\ stream' = <<>>
    /\ hasFetched' = FALSE
    /\ UNCHANGED <<server, table, refreshTimer, requests, control, excused>>

\* onData: remembered first, then set if the variable is known.
OnData(m) ==
    /\ lastValues' = [lastValues EXCEPT ![m.id] = m.value]
    /\ values' = SetValue(values, defs, m.id, m.value)
    /\ control' = [control EXCEPT ![m.id] = NoValue]
    /\ UNCHANGED <<defs, mapping, refreshTimer>>

\* handleMessage
OnMessage ==
    /\ stream # <<>>
    /\ stream' = Tail(stream)
    /\ IF Head(stream).type = "data" THEN OnData(Head(stream))
       ELSE refreshTimer' = TRUE /\ UNCHANGED <<table, control>>
    /\ UNCHANGED <<server, connected, hasFetched, requests, excused>>

\* sendControl: the variable is set whether or not the command leaves.
SendControl(v, x) ==
    /\ values' = SetValue(values, defs, v, x)
    /\ control' = [control EXCEPT ![v] = x]
    /\ UNCHANGED <<server, stream, connected, defs, mapping, lastValues, refreshTimer,
                   hasFetched, requests, excused>>

\* VariablePanel: a definition is added or removed by hand.
Define(v) ==
    /\ v \notin defs /\ defs' = defs \cup {v}
    /\ values' = IF values[v] = NoValue THEN [values EXCEPT ![v] = 0] ELSE values
    /\ control' = [control EXCEPT ![v] = 0]
    /\ excused' = TRUE
    /\ UNCHANGED <<server, stream, connected, mapping, lastValues, refreshTimer, hasFetched,
                   requests>>

Remove(v) ==
    /\ v \in defs /\ defs' = defs \ {v}
    /\ values' = [values EXCEPT ![v] = NoValue]
    /\ excused' = TRUE
    /\ UNCHANGED <<server, stream, connected, mapping, lastValues, refreshTimer, hasFetched,
                   requests, control>>

-----------------------------------------------------------------------------
(* The backend.                                                              *)

\* A point leaves the list with its row, and joins it if the runtime manages it.
Edited(v) == server' \in {server \ {v}, server \cup {v}}

\* create_point, update_point, delete_point, which tell the clients.
Configure(v) ==
    /\ Edited(v)
    /\ connected => Len(stream) < MaxQueue
    /\ stream' = IF connected THEN Append(stream, ConfigChange) ELSE stream
    /\ UNCHANGED <<connected, table, refreshTimer, hasFetched, requests, control, excused>>

\* import_excel, delete_plugin and apply_config_push do not tell them; nor does a
\* handler whose client hangs up after the row is written.
ConfigureSilently(v) ==
    /\ Edited(v)
    /\ excused' = (excused \/ connected)
    /\ UNCHANGED <<stream, connected, table, refreshTimer, hasFetched, requests, control>>

\* The runtime goes on with a point whose row is gone.
Publish(v, x) ==
    /\ connected /\ Len(stream) < MaxQueue
    /\ stream' = Append(stream, Point(v, x))
    /\ UNCHANGED <<server, connected, table, refreshTimer, hasFetched, requests, control,
                   excused>>

VariablePanel ==
    \E v \in Variable : Define(v) \/ Remove(v) \/ \E x \in Value : SendControl(v, x)

ConnectionPanel == Lost \/ \E r \in Request : RefreshVariables(r) \/ Connected(r)

Next ==
    \/ \E r \in Request : Answer(r) \/ Fails(r) \/ Import(r) \/ RefreshTimer(r)
    \/ OnMessage \/ VariablePanel \/ ConnectionPanel
    \/ \E v \in Variable : \/ Configure(v) \/ ConfigureSilently(v)
                           \/ \E x \in Value : Publish(v, x)

Spec == Init /\ [][Next]_vars

-----------------------------------------------------------------------------
TypeOK ==
    /\ server \subseteq Variable /\ defs \subseteq Variable /\ mapping \subseteq Variable
    /\ values \in [Variable -> Value \cup {0, 1, NoValue}]
    /\ lastValues \in [Variable -> Value \cup {NoValue}]
    /\ control \in [Variable -> Value \cup {0, NoValue}]
    /\ requests \in [Request -> [state : {"idle", "asked", "answered"},
                                 list : SUBSET Variable]]
    /\ {connected, refreshTimer, hasFetched, excused} \subseteq BOOLEAN

\* A defined variable shows the last value received for it, also when that came
\* before the definition, or what the operator has set since; never the default
\* of a definition that was imported after the value.
ShowsReceived ==
    \A v \in defs \cap mapping : lastValues[v] # NoValue =>
        values[v] = Normal(v, IF control[v] # NoValue THEN control[v] ELSE lastValues[v])

\* While connected, a table that differs from the backend's has a reason: a
\* change is announced or about to be fetched, a request is on its way, or the
\* last one failed, was overtaken or was followed by an edit by hand or by a
\* change in the backend that nobody was told of.
OldForAReason ==
    connected /\ defs # server =>
        \/ refreshTimer \/ Pending # {} \/ excused
        \/ \E i \in DOMAIN stream : stream[i] = ConfigChange
=============================================================================
