----------------------------- MODULE Connections -----------------------------
(* Realtime, the editor's connection to the backend, and InstanceGroups, the *)
(* backend's connections to its devices.  They do not interact in this       *)
(* model: one part runs while the other stands still.                        *)
EXTENDS InstanceGroups

CONSTANTS Socket, NoSocket, Address, Malformed, AddressLists    \* Realtime

VARIABLES
    part,                                                       \* what runs
    client, sock, up, simulator, active, chosen, editor         \* Realtime

realtime == <<client, sock, up, simulator, active, chosen, editor>>

RT == INSTANCE Realtime

\* NoSocket is no socket, and a list has an address at least.
ASSUME RealtimeAssumption ==
    /\ NoSocket \notin Socket
    /\ AddressLists \subseteq Seq(Address)
    /\ << >> \notin AddressLists

Still == CHOOSE urls \in AddressLists : TRUE

\* A part that stands still does so in one of its initial states.
InitOne ==
    /\ part \in {"realtime", "groups"}
    /\ RT!Init /\ (part # "realtime" => up = {} /\ client.urls = Still)
    /\ Init
    /\ part # "groups" => /\ node = "standby" /\ broken = {}
                          /\ \A i \in Instances : device[i] = "up"

NextOne ==
    \/ part = "realtime" /\ RT!Next /\ UNCHANGED <<part, vars>>
    \/ part = "groups" /\ Next /\ UNCHANGED <<part, realtime>>

\* The fairness of Realtime and of InstanceGroups, where they are what runs.
FairnessOne ==
    /\ \A s \in Socket : WF_realtime(part = "realtime" /\ RT!SocketStep(s))
    /\ WF_realtime(part = "realtime" /\ RT!ReconnectTimer)
    /\ WF_vars(part = "groups" /\ Supervise)
    /\ WF_vars(part = "groups" /\ RoleStep)
    /\ SF_vars(part = "groups" /\ Cool)
    /\ SF_vars(part = "groups" /\ Judge /\ status[Primary].connected)
    /\ \A i \in Instances : /\ WF_vars(part = "groups" /\ Scan(i))
                            /\ WF_vars(part = "groups" /\ Stop(i))
                            /\ WF_vars(part = "groups" /\ Expire(i))

SpecOne == InitOne /\ [][NextOne]_<<part, vars, realtime>> /\ FairnessOne

-----------------------------------------------------------------------------
\* The type invariants of Realtime and InstanceGroups.
TypesOK == RT!TypeOK /\ TypeOK

\* The realtime client that should be connected has something under way, and the
\* one the user has disconnected has no timer left (Realtime).
ConnectsAsAsked == RT!NeverGivesUp /\ RT!StaysDown

\* The animations run while the simulation or the preview needs them (Realtime).
AnimationsRun == RT!AnimationsRun

\* The realtime client left alone gets a connection (Realtime).
Reconnects == RT!Reconnects
=============================================================================
