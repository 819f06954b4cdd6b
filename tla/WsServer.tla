------------------------------ MODULE WsServer ------------------------------
(* The data server (crates/server/src/ws.rs) between the bridge, which       *)
(* updates the PointManager and broadcasts in batches, and one client with   *)
(* one point.  The broadcast channel keeps Capacity messages for a receiver, *)
(* the oldest is dropped for a newer one.  A connection has two tasks, one   *)
(* that sends and one that reads; each holds its half of the socket, which is*)
(* closed when both are gone.  Left out: the alarms' snapshots, and what     *)
(* the client asks to be written.                                            *)
EXTENDS Naturals, Sequences

CONSTANTS
    Value,      \* values of the point
    None,       \* no value
    Capacity,   \* messages the channel keeps (256)
    MaxBatch    \* bound: values waiting for the batch timer

VARIABLES
    active,     \* PointManager::active
    held,       \* the value the PointManager keeps
    batch,      \* what the bridge has not broadcast
    at,         \* the connection: "none", "passed" the role test, "subscribed",
                \* "greeted" with the snapshot, "serving"
    sends,      \* the send task runs
    queue,      \* what it has not received
    wanted,     \* the client's filter lets the point through
    shown,      \* the value the client has been sent last
    behind      \* why it may have missed the latest (history)

vars == <<active, held, batch, at, sends, queue, wanted, shown, behind>>

Message == [type : {"data"}, value : Value] \cup [type : {"standby", "other"}]

TypeOK ==
    /\ active \in BOOLEAN /\ held \in Value \cup {None}
    /\ batch \in Seq(Value) /\ queue \in Seq(Message) /\ Len(queue) <= Capacity
    /\ at \in {"none", "passed", "subscribed", "greeted", "serving"} /\ sends \in BOOLEAN
    /\ wanted \in BOOLEAN /\ shown \in Value \cup {None}
    /\ behind \subseteq {"dropped", "filtered", "synced"}

Init ==
    /\ active \in BOOLEAN /\ held = None /\ batch = << >>
    /\ at = "none" /\ sends = FALSE /\ queue = << >> /\ wanted = TRUE
    /\ shown = None /\ behind = {}

Attached == at \in {"subscribed", "greeted", "serving"}

-----------------------------------------------------------------------------
(* Messages.                                                                 *)

\* Faulty: the receiver is made with the tasks, after the snapshot.
ReceivingLate == sends

\* The channel delivers to a connection that has its receiver.
Receiving == sends \/ at \in {"subscribed", "greeted"}

Broadcast(message) ==
    IF ~Receiving THEN UNCHANGED <<queue, behind>>
    ELSE LET all == Append(queue, message) IN
         IF Len(all) <= Capacity
         THEN queue' = all /\ UNCHANGED behind
         ELSE /\ queue' = Tail(all)
              /\ behind' = IF Head(all).type = "data" THEN behind \cup {"dropped"}
                                                      ELSE behind

\* A plugin reports: what has not changed goes no further, and what has is the last
\* to be broadcast.
Update ==
    \E v \in Value \ {held} :
        /\ Len(batch) < MaxBatch
        /\ held' = v /\ batch' = Append(batch, v)
        /\ behind' = behind \ {"synced"}
        /\ UNCHANGED <<active, at, sends, queue, wanted, shown>>

\* The batch timer; a batch stands for its last value.
Flush ==
    /\ batch # << >>
    /\ Broadcast([type |-> "data", value |-> batch[Len(batch)]])
    /\ batch' = << >>
    /\ UNCHANGED <<active, held, at, sends, wanted, shown>>

\* An alarm, a change of the rules, of the points.
Other ==
    /\ Broadcast([type |-> "other"])
    /\ UNCHANGED <<active, held, batch, at, sends, wanted, shown>>

\* A Standby keeps what the Active node sends it, and broadcasts nothing.
ApplySync ==
    \E v \in Value :
        /\ ~active /\ held' = v
        /\ behind' = IF v # held THEN behind \cup {"synced"} ELSE behind
        /\ UNCHANGED <<active, batch, at, sends, queue, wanted, shown>>

Demote ==
    /\ active /\ active' = FALSE
    /\ Broadcast([type |-> "standby"])
    /\ UNCHANGED <<held, batch, at, sends, wanted, shown>>

Promote ==
    /\ ~active /\ active' = TRUE
    /\ UNCHANGED <<held, batch, at, sends, queue, wanted, shown, behind>>

-----------------------------------------------------------------------------
(* The connection.                                                           *)

\* A client is accepted by an Active node only ...
Accept ==
    /\ at = "none" /\ active
    /\ at' = "passed"
    /\ UNCHANGED <<active, held, batch, sends, queue, wanted, shown, behind>>

\* ... whose role is not looked at again; the receiver is made.
Subscribed ==
    /\ at = "passed"
    /\ at' = "subscribed" /\ queue' = << >> /\ wanted' = TRUE /\ shown' = None
    /\ behind' = behind \cap {"synced"}
    /\ UNCHANGED <<active, held, batch, sends>>

\* After the handshake: the snapshot ...
Snapshot ==
    /\ at = "subscribed"
    /\ at' = "greeted" /\ shown' = held
    /\ behind' = IF batch = << >> /\ queue = << >> THEN behind \ {"synced"} ELSE behind
    /\ UNCHANGED <<active, held, batch, sends, queue, wanted>>

\* ... and when it is sent, the two tasks.
Serve ==
    /\ at = "greeted"
    /\ at' = "serving" /\ sends' = TRUE
    /\ UNCHANGED <<active, held, batch, queue, wanted, shown, behind>>

\* The send task takes a message: values pass the filter, the role ends the task.
Send ==
    /\ sends /\ queue # << >>
    /\ queue' = Tail(queue)
    /\ LET m == Head(queue) IN
       CASE m.type = "data" /\ wanted ->
                /\ shown' = m.value /\ behind' = behind \ {"dropped", "filtered"}
                /\ UNCHANGED sends
         [] m.type = "data" /\ ~wanted ->
                /\ behind' = behind \cup {"filtered"} /\ UNCHANGED <<shown, sends>>
         [] m.type = "standby" -> sends' = FALSE /\ UNCHANGED <<shown, behind>>
         [] OTHER -> UNCHANGED <<shown, behind, sends>>
    /\ UNCHANGED <<active, held, batch, at, wanted>>

\* The read task: the filter, without the values it let pass.
Filter ==
    /\ at = "serving"
    /\ wanted' \in BOOLEAN
    /\ UNCHANGED <<active, held, batch, at, sends, queue, shown, behind>>

\* The client is gone: at the handshake, or with a connection served.  The send task
\* is not waited for, and ends with what it cannot send.
Close ==
    /\ at # "none"
    /\ at' = "none" /\ sends' = FALSE /\ queue' = << >>
    /\ UNCHANGED <<active, held, batch, wanted, shown, behind>>

Next ==
    \/ Update \/ Flush \/ Other \/ ApplySync \/ Demote \/ Promote
    \/ Accept \/ Subscribed \/ Snapshot \/ Serve \/ Send \/ Filter \/ Close

Spec == Init /\ [][Next]_vars

-----------------------------------------------------------------------------
\* All that was broadcast has been sent to a client the node serves.
Drained == at = "serving" /\ sends /\ queue = << >> /\ batch = << >>

\* Whatever was reported while it was accepted, a client served has the value the
\* PointManager keeps (README.md:222, the snapshot after the connection).
AlwaysFed == Drained => shown = held

\* The same, unless a message was dropped for newer ones or the filter kept a value
\* back, and nothing was sent since; or the value came from the peer, beside a batch
\* or a connection the demotion should have ended.
Fed == behind = {} => AlwaysFed

\* A Standby has no clients (ws.rs:190).
NoClients == ~active /\ queue = << >> => ~Attached
=============================================================================
