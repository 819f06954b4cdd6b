----------------------------- MODULE Iec104Link -----------------------------
(* The IEC 60870-5-104 master plugin (plugins/iec104, on shared/iec104-core   *)
(* and shared/plugin-kit) and a station with one point.  The plugin's actor   *)
(* makes its calls one after the other; connect waits for STARTDT_CON, all    *)
(* others are one step here.  A frame the plugin writes is handled by the     *)
(* station at once, the station's frames wait in the socket until a call      *)
(* reads them.  Sequence numbers are kept in one bit more than the wire has:  *)
(* Wire is 2^15 in the code, and the counters are of type u16.                *)
(* The station answers as test-servers/iec104-slave does; that it counts what *)
(* is acknowledged, and sends no further than its window, is the standard's.  *)
(* Left out: the commands waiting for their confirmation, which are only      *)
(* logged; interrogation_sent, which every scan finds set; scaling, quality   *)
(* and time tags.                                                             *)
EXTENDS Naturals, SequencesExt

CONSTANTS
    Value,      \* values of the point
    None,       \* no value
    Wire,       \* the sequence numbers on the wire are 0 .. Wire - 1
    SyncEvery,  \* scans from one clock sync and interrogation to the next
    MaxFrames   \* bound: frames in the socket for one without information to join

VARIABLES
    plugin,     \* PluginState: connected, send, recv, testing, scans modulo SyncEvery
    call,       \* "idle", or "starting" while connect waits for STARTDT_CON
    trapped,    \* a call has panicked: the instance cannot be entered again
    silence,    \* time since last_rx: 0, 1 after T3, 2 after T3_DISCONNECT
    station,    \* its value, its counters, what it has not seen acknowledged
    link,       \* "none", "open", "closed" by the station, or "broken"
    socket,     \* frames of the station the plugin has not read
    reported,   \* the value the host has
    said        \* the last value the station has sent (history)

vars == <<plugin, call, trapped, silence, station, link, socket, reported, said>>

Counter == 0 .. 2 * Wire - 1        \* u16
Frame == [kind : {"startCon", "testCon", "other"}]
            \cup [kind : {"info"}, no : 0 .. Wire - 1, value : Value \cup {None}]

TypeOK ==
    /\ plugin \in [connected : BOOLEAN, send : Counter, recv : 0 .. Wire,
                   testing : BOOLEAN, scans : 0 .. SyncEvery - 1]
    /\ call \in {"idle", "starting"} /\ trapped \in BOOLEAN /\ silence \in 0 .. 2
    /\ station \in [value : Value, sent : 0 .. Wire - 1, expects : 0 .. Wire - 1,
                    unacked : 0 .. Wire - 1, started : BOOLEAN]
    /\ link \in {"none", "open", "closed", "broken"}
    /\ socket \in Seq(Frame)
    /\ reported \in Value \cup {None} /\ said \in Value \cup {None}

Fresh == [connected |-> FALSE, send |-> 0, recv |-> 0, testing |-> FALSE, scans |-> 0]

Init ==
    /\ plugin = Fresh /\ call = "idle" /\ trapped = FALSE /\ silence = 0
    /\ station \in [value : Value, sent : {0}, expects : {0}, unacked : {0}, started : {FALSE}]
    /\ link = "none" /\ socket = << >> /\ reported = None /\ said = None

-----------------------------------------------------------------------------
(* The station.  It is a pair of its state and the frames it has sent.        *)

\* It sends an information frame, with its value or without one (a confirmation).
Says(p, value) ==
    [st |-> [p.st EXCEPT !.sent = (@ + 1) % Wire, !.unacked = @ + 1],
     out |-> Append(p.out, [kind |-> "info", no |-> p.st.sent, value |-> value])]

\* A number received acknowledges every frame before it.
Acked(p, n) == [p EXCEPT !.st.unacked = (p.st.sent - n) % Wire]

\* It handles an information frame numbered no, which acknowledges n.
Takes(p, no, n) == [Acked(p, n % Wire) EXCEPT !.st.expects = (no + 1) % Wire]

\* The number of information frames it has not seen acknowledged stays below
\* Wire: a station stops at its window.  Every answer is cut to one frame.
Room(p, n) == p.st.unacked + n < Wire

\* What the station answers: the value to an interrogation, a confirmation to a
\* command or a clock sync.
Interrogated(p, no, n) == LET q == Takes(p, no, n) IN Says(q, q.st.value)
Commanded(p, no, n) == Says(Takes(p, no, n), None)

Heard(p, kind) == [p EXCEPT !.out = Append(@, [kind |-> kind])]

Station == [st |-> station, out |-> socket]

\* The station as p says, if the link carries what the plugin writes; rest is what
\* a call has left unread.
StationAfter(p, rest) ==
    IF link = "open" THEN station' = p.st /\ socket' = p.out
                     ELSE station' = station /\ socket' = rest

\* Its value changes, or is pushed again: sent while the transfer is started.
Push ==
    \E v \in Value :
        IF link = "open" /\ station.started
        THEN /\ Room(Station, 1)
             /\ LET p == Says([Station EXCEPT !.st.value = v], v) IN
                station' = p.st /\ socket' = p.out
             /\ said' = v
             /\ UNCHANGED <<plugin, call, trapped, silence, link, reported>>
        ELSE /\ station' = [station EXCEPT !.value = v]
             /\ UNCHANGED <<plugin, call, trapped, silence, link, socket, reported, said>>

\* It tests the link, or acknowledges; MaxFrames bounds what waits then.
Other ==
    /\ link = "open" /\ Len(socket) < MaxFrames
    /\ socket' = Append(socket, [kind |-> "other"])
    /\ UNCHANGED <<plugin, call, trapped, silence, station, link, reported, said>>

\* It closes the connection, or the connection breaks.
Ends ==
    /\ link = "open"
    /\ link' \in {"closed", "broken"}
    /\ UNCHANGED <<plugin, call, trapped, silence, station, socket, reported, said>>

-----------------------------------------------------------------------------
(* Reading.                                                                  *)

\* What a call finds in the socket: the frames that have arrived.
Arrived == {SubSeq(socket, 1, n) : n \in 0 .. Len(socket)}
Unread(frames) == SubSeq(socket, Len(frames) + 1, Len(socket))

\* A read of part of a frame: frame_len asks for its first two bytes only, and
\* taking the frame from the buffer panics.
Splits(frames) == Unread(frames) # << >>

\* link_lost: nothing of the call's state is committed but the count of scans.
Loses(scans) ==
    /\ plugin' = [plugin EXCEPT !.connected = FALSE, !.scans = scans]
    /\ link' = "none" /\ socket' = << >> /\ call' = "idle"
    /\ UNCHANGED <<trapped, silence, station, reported, said>>

Trap(frames) ==
    /\ Splits(frames)
    /\ trapped' = TRUE /\ call' = "idle" /\ socket' = Unread(frames)
    /\ UNCHANGED <<plugin, silence, station, link, reported, said>>

\* A frame a scan handles.  A number is counted if it is not behind the one
\* expected, by a difference of u16.
Counts(s, f) == f.kind = "info" /\ (f.no - s.recv) % (2 * Wire) < Wire

\* Faulty: the number of the frame instead of the next one.
ReadPlain(s, f) ==
    [recv |-> IF Counts(s, f) THEN f.no ELSE s.recv,
     got |-> s.got \/ Counts(s, f),
     testing |-> s.testing /\ f.kind \notin {"testCon", "info"},
     reported |-> IF f.kind = "info" /\ f.value # None THEN f.value ELSE s.reported]

Read(s, f) ==
    [recv |-> IF Counts(s, f) THEN f.no + 1 ELSE s.recv,
     got |-> s.got \/ Counts(s, f),
     testing |-> s.testing /\ f.kind \notin {"testCon", "info"},
     reported |-> IF f.kind = "info" /\ f.value # None THEN f.value ELSE s.reported]

ReadAll(frames) ==
    FoldLeft(Read, [recv |-> plugin.recv, got |-> FALSE, testing |-> plugin.testing,
                    reported |-> reported], frames)

-----------------------------------------------------------------------------
(* The plugin's calls.                                                       *)

Idle == call = "idle" /\ ~trapped

\* connect, to where it waits: the counters start anew and STARTDT is sent.  It may
\* find nobody at the address.
Dial ==
    /\ Idle /\ ~plugin.connected /\ link = "none"
    /\ call' = "starting" /\ link' = "open"
    /\ station' = [station EXCEPT !.sent = 0, !.expects = 0, !.unacked = 0, !.started = TRUE]
    /\ socket' = <<[kind |-> "startCon"]>>
    /\ plugin' = [plugin EXCEPT !.send = 0, !.recv = 0, !.testing = FALSE]
    /\ silence' = 0
    /\ UNCHANGED <<trapped, reported, said>>

Started(frames) == \E i \in DOMAIN frames : frames[i].kind = "startCon"

\* Faulty: nothing is asked after the start.
StartUnasked(frames) ==
    /\ Started(frames)
    /\ plugin' = [plugin EXCEPT !.connected = TRUE]
    /\ call' = "idle" /\ silence' = 0 /\ socket' = Unread(frames)
    /\ UNCHANGED <<trapped, station, link, reported, said>>

\* STARTDT_CON is among the frames read, all others are dropped; the interrogation
\* is sent and the state committed.
Start(frames) ==
    LET p == Interrogated([Station EXCEPT !.out = Unread(frames)], plugin.send, plugin.recv) IN
    /\ Started(frames) /\ Room(Station, 1)
    /\ StationAfter(p, Unread(frames))
    /\ said' = IF link = "open" THEN station.value ELSE said
    /\ plugin' = [plugin EXCEPT !.connected = TRUE, !.send = (@ + 1) % (2 * Wire)]
    /\ call' = "idle" /\ silence' = 0
    /\ UNCHANGED <<trapped, link, reported>>

\* It has not come: the loop goes on, or ends by the deadline or a read error.
Wait(frames) ==
    /\ ~Started(frames)
    /\ \/ /\ frames # << >> /\ socket' = Unread(frames)
          /\ UNCHANGED <<plugin, call, trapped, silence, station, link, reported, said>>
       \/ Loses(plugin.scans)

Connect ==
    /\ call = "starting"
    /\ \/ \E frames \in Arrived : Start(frames) \/ Wait(frames) \/ Trap(frames)
       \/ link = "broken" /\ Loses(plugin.scans)

\* The parts of a scan after its frames: the acknowledgement, the clock sync with
\* its interrogation, the test of a silent link.
Acknowledge(p, s) == IF s.got THEN Acked(p, s.recv % Wire) ELSE p

Synchronise(p, s) ==
    Interrogated(Commanded(p, plugin.send, s.recv), plugin.send + 1, s.recv)

Test(p) == Heard(p, "testCon")

\* begin_scan counts a scan before it reads.
ScanCount == (plugin.scans + 1) % SyncEvery
Syncs == ScanCount = 0

\* scan_points, over the frames that have arrived.  The link is lost after
\* T3_DISCONNECT of silence.
Scan(frames) ==
    LET s == ReadAll(frames)
        since == IF frames = << >> THEN silence ELSE 0
        tests == since > 0 /\ ~s.testing
        p1 == Acknowledge([Station EXCEPT !.out = Unread(frames)], s)
        p2 == IF Syncs THEN Synchronise(p1, s) ELSE p1
        p3 == IF tests THEN Test(p2) ELSE p2
    IN
    /\ reported' = s.reported
    /\ IF since = 2
       THEN /\ plugin' = [plugin EXCEPT !.connected = FALSE, !.scans = ScanCount]
            /\ link' = "none" /\ socket' = << >>
            /\ UNCHANGED <<call, trapped, silence, station, said>>
       ELSE /\ Syncs => Room(p1, 2)
            /\ StationAfter(p3, Unread(frames))
            /\ said' = IF Syncs /\ link = "open" THEN station.value ELSE said
            /\ plugin' = [plugin EXCEPT !.recv = s.recv,
                                        !.testing = s.testing \/ tests,
                                        !.send = (@ + (IF Syncs THEN 2 ELSE 0)) % (2 * Wire),
                                        !.scans = ScanCount]
            /\ silence' = since
            /\ UNCHANGED <<call, trapped, link>>

ScanPoints ==
    /\ Idle /\ plugin.connected
    /\ \/ \E frames \in Arrived : Scan(frames) \/ Trap(frames)
       \/ link = "broken" /\ Loses(ScanCount)

\* write_point: the command is counted once it is written.
Write ==
    /\ Idle /\ plugin.connected
    /\ \/ /\ link = "open" => Room(Station, 1)
          /\ \E v \in Value :
               StationAfter([Commanded(Station, plugin.send, plugin.recv)
                               EXCEPT !.st.value = v], socket)
          /\ plugin' = [plugin EXCEPT !.send = (@ + 1) % (2 * Wire)]
          /\ UNCHANGED <<call, trapped, silence, link, reported, said>>
       \/ link # "open" /\ Loses(plugin.scans)

\* The instance is shut down, disconnect included, and made anew.
Restart ==
    /\ call = "idle"
    /\ plugin' = Fresh /\ trapped' = FALSE
    /\ link' = "none" /\ socket' = << >>
    /\ UNCHANGED <<call, silence, station, reported, said>>

Tick ==
    /\ plugin.connected /\ silence < 2
    /\ silence' = silence + 1
    /\ UNCHANGED <<plugin, call, trapped, station, link, socket, reported, said>>

Next == Push \/ Other \/ Ends \/ Dial \/ Connect \/ ScanPoints \/ Write \/ Restart \/ Tick

Spec == Init /\ [][Next]_vars

-----------------------------------------------------------------------------
\* The plugin has read all the station has sent on an open connection.
Quiet == link = "open" /\ socket = << >> /\ plugin.connected /\ ~trapped

\* Whatever was dropped with STARTDT_CON, lost with a connection or changed between
\* two, the host has the value the station has sent last (connect's interrogation).
Current == Quiet => reported = said

\* Every information frame read is acknowledged, and the numbers the plugin sends
\* are the ones the station expects (README.md:362, acknowledgement in batches).
AlwaysAcknowledges ==
    Quiet => station.unacked = 0 /\ plugin.send % Wire = station.expects

\* The same until Wire frames were received on the connection: recv is then Wire,
\* which no number on the wire follows, and nothing is acknowledged any more.
Acknowledges == plugin.recv < Wire => AlwaysAcknowledges

=============================================================================
