---------------------------- MODULE SingleActive ----------------------------
(* What the redundancy pair promises while nothing fails: at most one node   *)
(* is Active, and the duty moves only by the Active node stepping down       *)
(* before the other one takes over (the claim handshake of the dual-node     *)
(* design).  NodeRedundancy is shown to implement this specification when    *)
(* no message is lost and no node crashes.                                   *)
CONSTANT Node

VARIABLE active     \* the set of nodes that believe they are Active

Init == \E n \in Node : active = {n}

\* The Active node accepts its peer's claim and steps down.
Yield == /\ active # {}
         /\ active' = {}

\* With nobody Active, one node takes over.
TakeOver == /\ active = {}
            /\ \E n \in Node : active' = {n}

Next == Yield \/ TakeOver

\* A handover that has begun is completed.
Spec == Init /\ [][Next]_active /\ WF_active(TakeOver)
=============================================================================
