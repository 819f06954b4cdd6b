------------------------------ MODULE Realtime ------------------------------
(* The editor's connection to its data sources: WebSocketClient.ts and       *)
(* IEC104Simulator.ts, both a DataSource.ts, the part of DataBridge.ts that  *)
(* starts and stops them, the buttons of ConnectionPanel.tsx and the         *)
(* simulation and preview switches of connectionSlice.ts.                    *)
(*                                                                           *)
(* A browser socket outlives the client's reference to it: the client knows  *)
(* only the socket whose onopen came last, every other one it has created    *)
(* still runs its handlers.  A step is one task of the event loop.           *)
EXTENDS Naturals, Sequences

CONSTANTS
    Socket,         \* bound: browser sockets alive at the same time
    NoSocket,       \* the null of WebSocketClient.ws
    Address,        \* addresses of backend nodes
    Malformed,      \* those the WebSocket constructor rejects
    AddressLists    \* lists of addresses the user may configure

VARIABLES
    client,         \* the fields of the WebSocketClient
    sock,           \* of each browser socket: its readyState and address
    up,             \* environment: the nodes that accept connections
    simulator,      \* the IEC104Simulator: a connect() awaited, the scan timer
    active,         \* DataBridge.activeSource
    chosen,         \* the source chosen in the ConnectionPanel
    editor          \* the running flags of connectionSlice and the engines' own

sockets == <<client, sock>>
vars == <<sockets, up, simulator, active, chosen, editor>>

Source == {"simulation", "iec104", "io_backend"}
Status == {"disconnected", "connecting", "connected"}

\* The indexes of the addresses of some list, counted from 0.
UrlIndex == UNION {0..(Len(urls) - 1) : urls \in AddressLists}

\* A socket that does not exist, or not any more.
Gone == [state |-> "none", addr |-> "none"]

Init ==
    /\ \E urls \in AddressLists :
          client = [ws |-> NoSocket, reconnectTimer |-> FALSE, heartbeat |-> FALSE,
                    shouldReconnect |-> FALSE, urlIndex |-> 0, urls |-> urls,
                    status |-> "disconnected",
                    gaveUp |-> FALSE]       \* history: the last attempt threw
    /\ sock = [s \in Socket |-> Gone]
    /\ up \in SUBSET (Address \ Malformed)
    /\ simulator = [connecting |-> FALSE, scan |-> FALSE]
    /\ active = "simulation" /\ chosen = "simulation"
    /\ editor = [sim |-> FALSE, preview |-> FALSE, anim |-> FALSE, random |-> FALSE]

-----------------------------------------------------------------------------
(* WebSocketClient, as functions on its fields.                              *)

\* getUrls()[urlIndex]; an index left over from a longer list falls back to the
\* first address, as config.url does.
CurrentAddress(c) ==
    c.urls[IF c.urlIndex < Len(c.urls) THEN c.urlIndex + 1 ELSE 1]

\* Faulty variant: a pending timer goes on.
DisconnectedKeepsTimer(c) ==
    [c EXCEPT !.shouldReconnect = FALSE, !.heartbeat = FALSE,
              !.ws = NoSocket, !.status = "disconnected"]

Disconnected(c) ==
    [c EXCEPT !.shouldReconnect = FALSE, !.heartbeat = FALSE, !.reconnectTimer = FALSE,
              !.ws = NoSocket, !.status = "disconnected"]

\* The socket the client knows is closed: its onclose comes later.
Closing(c) == IF c.ws # NoSocket THEN [sock EXCEPT ![c.ws].state = "closing"] ELSE sock

\* connect() on fields c and sockets k.
ConnectFrom(c, k) ==
    LET a       == CurrentAddress(c)
        Wanted  == [c EXCEPT !.shouldReconnect = TRUE, !.status = "connecting",
                             !.gaveUp = a \in Malformed]
    IN  IF c.ws # NoSocket /\ k[c.ws].state = "open"
        THEN client' = c /\ sock' = k
        ELSE /\ client' = Wanted
             /\ IF a \in Malformed
                THEN sock' = k
                ELSE \E s \in Socket :
                        /\ k[s] = Gone
                        /\ sock' = [k EXCEPT ![s] = [state |-> "connecting", addr |-> a]]

\* Faulty variant: a connection that is lost is not retried.
ClosedOnce(c) ==
    [c EXCEPT !.ws = NoSocket, !.heartbeat = FALSE, !.status = "disconnected",
              !.urlIndex = (@ + 1) % Len(c.urls),
              !.reconnectTimer = @ \/ (c.shouldReconnect /\ c.ws = NoSocket)]

\* Faulty variant: the same address is tried again.
ClosedSameAddress(c) ==
    [c EXCEPT !.ws = NoSocket, !.heartbeat = FALSE, !.status = "disconnected",
              !.reconnectTimer = @ \/ c.shouldReconnect]

\* onclose with scheduleReconnect: whichever socket it is.
Closed(c) ==
    [c EXCEPT !.ws = NoSocket, !.heartbeat = FALSE, !.status = "disconnected",
              !.urlIndex = (@ + 1) % Len(c.urls),
              !.reconnectTimer = @ \/ c.shouldReconnect]

OnOpen(s) ==
    /\ sock[s].state = "connecting" /\ sock[s].addr \in up
    /\ sock' = [sock EXCEPT ![s].state = "open"]
    /\ client' = [client EXCEPT !.ws = s, !.status = "connected", !.heartbeat = TRUE]
    /\ UNCHANGED <<up, simulator, active, chosen, editor>>

\* onerror, then onclose: the handshake fails.
OnError(s) ==
    /\ sock[s].state = "connecting" /\ sock[s].addr \notin up
    /\ sock' = [sock EXCEPT ![s] = Gone]
    /\ client' = Closed(client)
    /\ UNCHANGED <<up, simulator, active, chosen, editor>>

\* Environment: the connection breaks, or its node ends.  A node that turns Standby
\* means to close it (ws.rs:190), but only stops sending (WsServer).
Drop(s) ==
    /\ sock[s].state = "open"
    /\ sock' = [sock EXCEPT ![s].state = "closing"]
    /\ UNCHANGED <<client, up, simulator, active, chosen, editor>>

OnClose(s) ==
    /\ sock[s].state = "closing"
    /\ sock' = [sock EXCEPT ![s] = Gone]
    /\ client' = Closed(client)
    /\ UNCHANGED <<up, simulator, active, chosen, editor>>

\* The timer of scheduleReconnect.
ReconnectTimer ==
    /\ client.reconnectTimer
    /\ ConnectFrom([client EXCEPT !.reconnectTimer = FALSE, !.status = "connecting"], sock)
    /\ UNCHANGED <<up, simulator, active, chosen, editor>>

\* send: a control, a subscription or a heartbeat leaves on the current socket.
Delivered == client.ws # NoSocket /\ sock[client.ws].state = "open"

-----------------------------------------------------------------------------
(* IEC104Simulator                                                           *)

SimulatorConnects(m) == [m EXCEPT !.connecting = TRUE]
SimulatorStops(m) == [m EXCEPT !.scan = FALSE]

\* connect() goes on after the latency it simulates, whatever happened since.
SimulatorReady ==
    /\ simulator.connecting
    /\ simulator' = [connecting |-> FALSE, scan |-> TRUE]
    /\ UNCHANGED <<sockets, up, active, chosen, editor>>

-----------------------------------------------------------------------------
(* connectionSlice                                                           *)

\* Faulty variant: the animations stop although the preview needs them.
SimulationStoppedAll(e) == [e EXCEPT !.sim = FALSE, !.random = FALSE, !.anim = FALSE]

\* toggleSimulation when it runs: dataBridge.stop() ends the connections too.
SimulationStopped(e) ==
    [e EXCEPT !.sim = FALSE, !.random = FALSE, !.anim = e.preview]

SimulationStarted(e) ==
    [e EXCEPT !.sim = TRUE, !.anim = TRUE, !.random = @ \/ active = "simulation"]

\* DataBridge.stop and the disconnectAll of setActiveSource
Stopped(e) == [e EXCEPT !.random = FALSE]

\* if (simRunning) toggleSimulation()
EndSimulation == IF editor.sim THEN SimulationStopped(editor) ELSE editor

ToggleSimulation ==
    /\ IF editor.sim
       THEN /\ editor' = SimulationStopped(editor)
            /\ client' = Disconnected(client) /\ sock' = Closing(client)
            /\ simulator' = SimulatorStops(simulator)
       ELSE editor' = SimulationStarted(editor) /\ UNCHANGED <<client, sock, simulator>>
    /\ UNCHANGED <<up, active, chosen>>

TogglePreview ==
    /\ editor' = IF editor.preview
                 THEN [editor EXCEPT !.preview = FALSE, !.anim = editor.sim]
                 ELSE [editor EXCEPT !.preview = TRUE, !.anim = TRUE]
    /\ UNCHANGED <<sockets, up, simulator, active, chosen>>

-----------------------------------------------------------------------------
(* ConnectionPanel                                                           *)

\* updateConfig({urls}): a connected client is connected anew.
UpdateConfig(c, k, urls) ==
    IF c.status = "connected"
    THEN ConnectFrom([Disconnected(c) EXCEPT !.urls = urls],
                     IF c.ws # NoSocket THEN [k EXCEPT ![c.ws].state = "closing"] ELSE k)
    ELSE /\ client' = [Disconnected(c) EXCEPT !.urls = urls]
         /\ sock' = IF c.ws # NoSocket THEN [k EXCEPT ![c.ws].state = "closing"] ELSE k

\* handleSourceChange: the old source is stopped unless it is the simulation,
\* and the addresses are set when the backend is chosen.
ChooseSource(src, urls) ==
    LET stops == editor.sim \/ active # "simulation"
        c     == IF stops THEN Disconnected(client) ELSE client
        k     == IF stops THEN Closing(client) ELSE sock
    IN  /\ src # chosen
        /\ chosen' = src
        /\ editor' = IF active # "simulation" THEN Stopped(EndSimulation) ELSE EndSimulation
        /\ simulator' = IF stops THEN SimulatorStops(simulator) ELSE simulator
        /\ IF src = "io_backend" THEN UpdateConfig(c, k, urls)
           ELSE client' = c /\ sock' = k
        /\ UNCHANGED <<up, active>>

\* setActiveSource, of a client with fields c: the source is connected.
SetActiveSource(src, c) ==
    /\ active' = src
    /\ simulator' = IF src = "iec104" THEN SimulatorConnects(SimulatorStops(simulator))
                    ELSE SimulatorStops(simulator)
    /\ IF src = "io_backend" THEN ConnectFrom(c, Closing(client))
       ELSE client' = c /\ sock' = Closing(client)

\* handleConnect: stop, updateConfig (twice), setActiveSource.
Connect(urls) ==
    /\ SetActiveSource(chosen, IF chosen = "io_backend"
                               THEN [Disconnected(client) EXCEPT !.urls = urls]
                               ELSE Disconnected(client))
    /\ editor' = Stopped(EndSimulation)
    /\ UNCHANGED <<up, chosen>>

\* handleDisconnect
Disconnect ==
    /\ editor' = Stopped(EndSimulation)
    /\ client' = Disconnected(client) /\ sock' = Closing(client)
    /\ simulator' = SimulatorStops(simulator)
    /\ UNCHANGED <<up, active, chosen>>

\* fetchVariablesFromBackend has imported the points: replaceAll stops the
\* random values.
Imported ==
    /\ active = "io_backend" /\ editor.random
    /\ editor' = [editor EXCEPT !.random = FALSE]
    /\ UNCHANGED <<sockets, up, simulator, active, chosen>>

-----------------------------------------------------------------------------
\* Environment: a node starts or stops accepting connections.
Turn(a) ==
    /\ a \notin Malformed
    /\ up' = IF a \in up THEN up \ {a} ELSE up \cup {a}
    /\ UNCHANGED <<sockets, simulator, active, chosen, editor>>

Panel ==
    \/ \E urls \in AddressLists : Connect(urls) \/ \E src \in Source : ChooseSource(src, urls)
    \/ Disconnect \/ ToggleSimulation \/ TogglePreview

SocketStep(s) == OnOpen(s) \/ OnError(s) \/ OnClose(s)

Next ==
    \/ \E s \in Socket : SocketStep(s) \/ Drop(s)
    \/ ReconnectTimer \/ SimulatorReady \/ Imported
    \/ Panel
    \/ \E a \in Address : Turn(a)

\* Timers expire and sockets run their handlers.
Fairness == /\ \A s \in Socket : WF_vars(SocketStep(s))
            /\ WF_vars(ReconnectTimer)

Spec == Init /\ [][Next]_vars /\ Fairness

-----------------------------------------------------------------------------
TypeOK ==
    /\ client \in [ws : Socket \cup {NoSocket}, reconnectTimer : BOOLEAN,
                   heartbeat : BOOLEAN, shouldReconnect : BOOLEAN,
                   urlIndex : UrlIndex, urls : AddressLists, status : Status,
                   gaveUp : BOOLEAN]
    /\ sock \in [Socket -> {Gone} \cup
                   [state : {"connecting", "open", "closing"}, addr : Address]]
    /\ up \subseteq Address
    /\ simulator \in [connecting : BOOLEAN, scan : BOOLEAN]
    /\ active \in Source /\ chosen \in Source
    /\ editor \in [sim : BOOLEAN, preview : BOOLEAN, anim : BOOLEAN, random : BOOLEAN]

\* A client that should be connected always has something under way that leads
\* to a connection: a timer or a socket; unless the constructor has thrown on a
\* malformed address, after which nothing tries again.
NeverGivesUp ==
    client.shouldReconnect =>
        \/ client.reconnectTimer \/ client.gaveUp
        \/ \E s \in Socket : sock[s] # Gone

\* A client the user has disconnected does not connect by itself: no timer is
\* left over from a socket that was closing or still connecting.
StaysDown == ~client.shouldReconnect => ~client.reconnectTimer

\* The animations run exactly while the simulation or the preview needs them,
\* in whatever order the switches and the connection buttons are used.
AnimationsRun == editor.anim = (editor.sim \/ editor.preview)

\* While a socket the client counts on is open the client says so; the other
\* sides of the editor ask connectionStatus before they send a control.
StatusIsTrue == Delivered => client.status = "connected"

\* Once the user leaves a client alone that should be connected, with no address
\* malformed and one of its nodes up for good, it gets a connection, again after
\* every break: it goes through the addresses.
Reconnects ==
    LET Reachable == /\ client.shouldReconnect
                     /\ \A i \in DOMAIN client.urls : client.urls[i] \notin Malformed
        UpForGood(a) == <>[](Reachable /\ a \in up /\ \E i \in DOMAIN client.urls : client.urls[i] = a)
    IN  \A a \in Address \ Malformed :
          (UpForGood(a) /\ <>[][~Panel]_vars) => []<>(\E s \in Socket : sock[s].state = "open")
=============================================================================
