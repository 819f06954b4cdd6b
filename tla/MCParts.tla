------------------------------- MODULE MCParts ------------------------------
(* Model checking of the parts of the editor; and of four more, which do not *)
(* interact with them in this model either: the contracts' guards, which     *)
(* describe what its socket lets through, the data server at the other end   *)
(* of it, the configuration two nodes exchange, and the IEC 104 link.        *)
EXTENDS Editor, TLC

CONSTANTS
    LinkValue, Wire, SyncEvery, MaxFrames,      \* Iec104Link
    ServerNode, MaxConfigEdits,                 \* ConfigSync, with Pair
    Capacity, MaxBatch                          \* WsServer, with LinkValue

CT == INSTANCE Contracts WITH frame <- v1, direction <- v2

LK == INSTANCE Iec104Link WITH
    plugin <- v1, call <- v2, trapped <- v3, silence <- v4, station <- v5,
    link <- v6, socket <- v7, reported <- v8, said <- v9, Value <- LinkValue

CS == INSTANCE ConfigSync WITH
    active <- v1, db <- v2, memory <- v3, tasks <- v4, edits <- v5, lost <- v6,
    marks <- v7, Node <- ServerNode, Task <- Pair, MaxEdits <- MaxConfigEdits

WS == INSTANCE WsServer WITH
    active <- v1, held <- v2, batch <- v3, at <- v4, sends <- v5, queue <- v6,
    wanted <- v7, shown <- v8, behind <- v9, Value <- LinkValue

\* None is no value; a number on the wire is left for a frame, and some scans
\* synchronise; there are two nodes; a message can be kept; the bounds are numbers.
ASSUME PartsAssumption ==
    /\ None \notin LinkValue
    /\ Wire \in Nat \ {0, 1} /\ SyncEvery \in Nat \ {0} /\ MaxFrames \in Nat
    /\ Cardinality(ServerNode) = 2 /\ MaxConfigEdits \in Nat
    /\ Capacity \in Nat \ {0} /\ MaxBatch \in Nat

Unused3 == <<v3, v4, v5, Unused6>>
Unused8 == <<v8, Unused9>>

InitOne ==
    \/ Init
    \/ /\ part = "contracts" /\ CT!Init
       /\ v3 = None /\ v4 = None /\ v5 = None /\ v6 = None /\ v7 = None
       /\ v8 = None /\ v9 = None /\ v10 = None /\ v11 = None /\ v12 = None
       /\ v13 = None /\ v14 = None /\ v15 = None /\ v16 = None
    \/ /\ \/ part = "link" /\ LK!Init
          \/ part = "config" /\ CS!Init /\ v8 = None /\ v9 = None
          \/ part = "server" /\ WS!Init
       /\ v10 = None /\ v11 = None /\ v12 = None /\ v13 = None /\ v14 = None
       /\ v15 = None /\ v16 = None

NextOne ==
    \/ Next
    \/ part = "contracts" /\ CT!Next /\ UNCHANGED <<part, Unused3>>
    \/ part = "link" /\ LK!Next /\ UNCHANGED <<part, Unused10>>
    \/ part = "config" /\ CS!Next /\ UNCHANGED <<part, Unused8>>
    \/ part = "server" /\ WS!Next /\ UNCHANGED <<part, Unused10>>

SpecOne == InitOne /\ [][NextOne]_vars

\* The members of Pair only differ by their names.
Symmetry == Permutations(Pair)

\* The variables of every part have their types.
TypesOK ==
    /\ TypeOK
    /\ part = "link" => LK!TypeOK
    /\ part = "config" => CS!TypeOK
    /\ part = "server" => WS!TypeOK

\* The guards and the schemas accept the same frames (Contracts).
GuardsMatchSchemas == part = "contracts" => CT!GuardsMatchSchemas

\* The host has the station's last value, and the station's frames are acknowledged
\* (Iec104Link).
LinkInStep == part = "link" => LK!Current /\ LK!Acknowledges

\* The Standby has the Active node's configuration, and every engine the stored rules
\* (ConfigSync).
ConfigInStep == part = "config" => CS!InStep

\* A client the data server serves has the value the backend keeps (WsServer).
Fed == part = "server" => WS!Fed
=============================================================================
