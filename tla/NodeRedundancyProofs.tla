------------------------ MODULE NodeRedundancyProofs ------------------------
(* Theorems about NodeRedundancy for every threshold and every bound.        *)
EXTENDS NodeRedundancy, TLAPS

LEMMA PeerFacts ==
    ASSUME NEW n \in Node
    PROVE  /\ Peer(n) \in Node /\ Peer(n) # n /\ Peer(Peer(n)) = n
           /\ \A m \in Node : m = n \/ m = Peer(n)
BY RolesDiffer DEF Node, Peer

LEMMA CapFacts ==
    ASSUME NEW max \in Nat, NEW x \in 0..max
    PROVE  Cap(x, max) \in 0..max /\ Cap(x, max) <= x + 1
BY DEF Cap

-----------------------------------------------------------------------------
LEMMA TypeInit == Init => TypeOK
<1> SUFFICES ASSUME Init
             PROVE  TypeOK
    OBVIOUS
<1>1. /\ state \in [Node -> {"active", "standby"}]
      /\ pc \in [Node -> {"down", "boot", "idle"} \cup Waiting]
      BY DEF Init, Each
<1>2. field \in [Node -> BOOLEAN]
      BY DEF Init, Each
<1>3. /\ failures \in [Node -> 0..FailoverThreshold]
      /\ stable \in [Node -> 0..MaxStable] /\ steady \in [Node -> 0..MaxStable]
      /\ unhealthy \in [Node -> 0..UnhealthyThreshold]
      /\ lag \in [Node -> 0..MaxLag]
      /\ version \in [Node -> 0..MaxVersion] /\ saved \in [Node -> 0..MaxVersion]
      /\ faults \in 0..MaxFaults
      BY Thresholds, Bounds DEF Init, Each
<1> QED
    BY <1>1, <1>2, <1>3 DEF Init, TypeOK, Each

LEMMA TypeStep == TypeOK /\ [Next]_vars => TypeOK'
<1> SUFFICES ASSUME TypeOK, [Next]_vars
             PROVE  TypeOK'
    OBVIOUS
<1> USE Thresholds, Bounds
<1>1. ASSUME NEW n \in Node, Probe(n)
      PROVE  TypeOK'
  <2>1. Peer(n) \in Node
        BY PeerFacts
  <2>2. lag' \in [Node -> 0..MaxLag]
        BY <1>1, <2>1, CapFacts DEF Probe, TypeOK
  <2> QED
        BY <1>1, <2>2 DEF Probe, TypeOK, counters, net, config, plant, Waiting
<1>2. ASSUME NEW n \in Node, ServeHeartbeat(n)
      PROVE  TypeOK'
  <2>1. Peer(n) \in Node
        BY PeerFacts
  <2>2. [active |-> Active(Peer(n)), healthy |-> healthy[Peer(n)]] \in Beat
        BY <2>1 DEF Beat, Active, TypeOK
  <2> QED
        BY <1>2, <2>2 DEF ServeHeartbeat, TypeOK, counters, net, config, plant
<1>3. ASSUME NEW n \in Node, HeartbeatOk(n)
      PROVE  TypeOK'
  <2>1. /\ failures' \in [Node -> 0..FailoverThreshold]
        /\ stable' \in [Node -> 0..MaxStable] /\ steady' \in [Node -> 0..MaxStable]
        /\ splitBrain' \in [Node -> BOOLEAN]
        /\ beat' \in [Node -> SUBSET Beat]
    <3>1. /\ Cap(stable[n], MaxStable) \in 0..MaxStable
          /\ Cap(steady[n], MaxStable) \in 0..MaxStable
          BY CapFacts DEF TypeOK
    <3> QED
          BY <1>3, <3>1 DEF HeartbeatOk, RecordHeartbeatOk, TypeOK
  <2>2. /\ unhealthy' \in [Node -> 0..UnhealthyThreshold]
        /\ pc' \in [Node -> {"down", "boot", "idle"} \cup Waiting]
        /\ claims' \in [Node -> SUBSET {"live", "stale"}]
    <3>1. PICK b \in beat[n] : \/ BeginFailback(n, b)
                               \/ CountUnhealthy(n, b)
                               \/ PeerIsWell(n, b)
          BY <1>3 DEF HeartbeatOk
    <3>2. Cap(unhealthy[n], UnhealthyThreshold) \in 0..UnhealthyThreshold
          BY CapFacts DEF TypeOK
    <3>3. CASE BeginFailback(n, b)
          BY <3>3 DEF BeginFailback, TypeOK, Waiting
    <3>4. CASE CountUnhealthy(n, b)
      <4>1. unhealthy' \in [Node -> 0..UnhealthyThreshold]
            BY <3>2, <3>4 DEF CountUnhealthy, TypeOK
      <4>2. \/ SendClaim(n)
            \/ pc' = [pc EXCEPT ![n] = "idle"] /\ UNCHANGED claims
            BY <3>4 DEF CountUnhealthy
      <4> QED
            BY <4>1, <4>2 DEF SendClaim, TypeOK, Waiting
    <3>5. CASE PeerIsWell(n, b)
          BY <3>5 DEF PeerIsWell, TypeOK
    <3> QED
          BY <3>1, <3>3, <3>4, <3>5
  <2> QED
        BY <1>3, <2>1, <2>2 DEF HeartbeatOk, TypeOK, config, plant
<1>4. ASSUME NEW n \in Node, HeartbeatLost(n)
      PROVE  TypeOK'
  <2>1. failures' \in [Node -> 0..FailoverThreshold]
        BY <1>4, CapFacts DEF HeartbeatLost, TypeOK
  <2> QED
        BY <1>4, <2>1 DEF HeartbeatLost, TypeOK, net, config, plant, Waiting
<1>5. ASSUME NEW n \in Node, PeerListens(n) \/ PromoteOnLoss(n)
      PROVE  TypeOK'
  <2>1. CASE PeerListens(n)
        BY <2>1 DEF PeerListens, TypeOK, counters, net, config, plant
  <2>2. CASE PromoteOnLoss(n)
        BY <2>2 DEF PromoteOnLoss, Promote, TypeOK, net, config, plant
  <2> QED
        BY <1>5, <2>1, <2>2
<1>6. ASSUME NEW n \in Node, LocalDataReady(n) \/ LocalDataMissing(n)
      PROVE  TypeOK'
  <2>1. CASE LocalDataReady(n)
    <3>1. /\ pc' \in [Node -> {"down", "boot", "idle"} \cup Waiting]
          /\ claims' \in [Node -> SUBSET {"live", "stale"}]
          BY <2>1 DEF LocalDataReady, SendClaim, TypeOK, Waiting
    <3> QED
          BY <2>1, <3>1 DEF LocalDataReady, TypeOK, counters, config, plant
  <2>2. CASE LocalDataMissing(n)
    <3>1. /\ pc' \in [Node -> {"down", "boot", "idle"} \cup Waiting]
          /\ stable' \in [Node -> 0..MaxStable] /\ steady' \in [Node -> 0..MaxStable]
          BY <2>2 DEF LocalDataMissing, TypeOK
    <3> QED
          BY <2>2, <3>1 DEF LocalDataMissing, TypeOK, net, config, plant
  <2> QED
      BY <1>6, <2>1, <2>2
<1>7. ASSUME NEW n \in Node, ClaimAccepted(n)
      PROVE  TypeOK'
      BY <1>7 DEF ClaimAccepted, Promote, AnswerRead, TypeOK, net, config, plant
<1>8. ASSUME NEW n \in Node, ClaimRejected(n) \/ ClaimTimeout(n)
      PROVE  TypeOK'
  <2>1. claims' \in [Node -> SUBSET {"live", "stale"}]
        BY <1>8 DEF ClaimRejected, ClaimTimeout, Abandon, TypeOK
  <2>2. GiveUpClaim(n)
        BY <1>8 DEF ClaimRejected, ClaimTimeout
  <2> QED
        BY <2>1, <2>2 DEF GiveUpClaim, AnswerRead, TypeOK, config, plant
<1>9. ASSUME NEW n \in Node, HandleClaim(n)
      PROVE  TypeOK'
  <2>1. state' \in [Node -> {"active", "standby"}]
        BY <1>9 DEF HandleClaim, Demote, TypeOK
  <2>2. claims' \in [Node -> SUBSET {"live", "stale"}]
        BY <1>9, PeerFacts DEF HandleClaim, TypeOK
  <2>3. /\ answer' \in [Node -> {"none", "accepted", "rejected"}]
        /\ lag' \in [Node -> 0..MaxLag]
        BY <1>9, PeerFacts DEF HandleClaim, TypeOK
  <2> QED
      BY <1>9, <2>1, <2>2, <2>3 DEF HandleClaim, TypeOK, counters, config, plant
<1>10. ASSUME NEW n \in Node, PushSync(n)
       PROVE  TypeOK'
       BY <1>10 DEF PushSync, TypeOK, counters, config, plant
<1>11. ASSUME NEW n \in Node, HandleSync(n)
       PROVE  TypeOK'
  <2>1. /\ syncs' \in [Node -> SUBSET (0..MaxVersion)]
        /\ UNCHANGED <<counters, cooling, pc, beat, answer, lag, claims,
                       pushes, config, healthy, field, link, faults>>
        BY <1>11, PeerFacts DEF HandleSync, TypeOK
  <2>2. /\ state' \in [Node -> {"active", "standby"}]
        /\ splitBrain' \in [Node -> BOOLEAN]
        /\ cached' \in [Node -> BOOLEAN]
    <3>1. \/ UNCHANGED <<state, splitBrain, cached>>
          \/ MeetActivePeer(n) /\ UNCHANGED cached
          \/ /\ cached' = [cached EXCEPT ![n] = TRUE]
             /\ UNCHANGED <<state, splitBrain>>
          BY <1>11 DEF HandleSync
    <3>2. CASE MeetActivePeer(n) /\ UNCHANGED cached
          BY <3>2 DEF MeetActivePeer, Demote, TypeOK
    <3> QED
        BY <3>1, <3>2 DEF TypeOK
  <2> QED
        BY <2>1, <2>2 DEF TypeOK, counters, config
<1>12. ASSUME NEW n \in Node, EditConfig(n)
       PROVE  TypeOK'
  <2>1. saved[n] + 1 \in 0..MaxVersion
        BY <1>12 DEF EditConfig, TypeOK
  <2> QED
        BY <1>12, <2>1 DEF EditConfig, TypeOK, counters, plant
<1>13. ASSUME NEW n \in Node, HandlePush(n)
       PROVE  TypeOK'
  <2>1. PICK v \in pushes[Peer(n)] :
             /\ pushes' = [pushes EXCEPT ![Peer(n)] = @ \ {v}]
             /\ IF v < saved[n] THEN UNCHANGED config
                ELSE /\ saved' = [saved EXCEPT ![n] = v]
                     /\ version' = [version EXCEPT ![n] = v]
        BY <1>13 DEF HandlePush
  <2>2. v \in 0..MaxVersion
        BY <2>1, PeerFacts DEF TypeOK
  <2>3. /\ saved' \in [Node -> 0..MaxVersion]
        /\ version' \in [Node -> 0..MaxVersion]
        /\ pushes' \in [Node -> SUBSET (0..MaxVersion)]
        BY <2>1, <2>2, PeerFacts DEF TypeOK, config
  <2> QED
        BY <1>13, <2>3 DEF HandlePush, TypeOK, counters, plant
<1>14. ASSUME NEW n \in Node, Boot(n) \/ BootDone(n)
       PROVE  TypeOK'
  <2>1. CASE Boot(n)
        BY <2>1 DEF Boot, TypeOK, counters, net, config, plant
  <2>2. ASSUME NEW a, StartAs(n, a)
        PROVE  TypeOK'
    <3>1. /\ state' \in [Node -> {"active", "standby"}]
          /\ pc' \in [Node -> {"down", "boot", "idle"} \cup Waiting]
          /\ beat' \in [Node -> SUBSET Beat]
          BY <2>2 DEF StartAs, TypeOK
    <3> QED
          BY <2>2, <3>1 DEF StartAs, TypeOK, counters, net, config, plant
  <2> QED
       BY <1>14, <2>1, <2>2 DEF BootDone
<1>15. ASSUME NEW n \in Node, Collect(n) \/ StopCollecting(n) \/ CooldownEnds(n)
       PROVE  TypeOK'
       BY <1>15
       DEF Collect, StopCollecting, CooldownEnds, Active, TypeOK, counters, net,
           config, plant
<1>16. ASSUME NEW n \in Node, Crash(n)
       PROVE  TypeOK'
  <2>1. faults' \in 0..MaxFaults
        BY <1>16 DEF Crash, Fault, TypeOK
  <2>2. /\ claims' \in [Node -> SUBSET {"live", "stale"}]
        /\ syncs' \in [Node -> SUBSET (0..MaxVersion)]
        /\ pushes' \in [Node -> SUBSET (0..MaxVersion)]
        BY <1>16, PeerFacts DEF Crash, Abandon, TypeOK
  <2> QED
        BY <1>16, <2>1, <2>2 DEF Crash, AnswerRead, TypeOK
<1>17. ASSUME Cut \/ Heal
       PROVE  TypeOK'
  <2>1. faults' \in 0..MaxFaults
        BY <1>17 DEF Cut, Heal, Fault, TypeOK
  <2> QED
        BY <1>17, <2>1 DEF Cut, Heal, TypeOK, counters, net, config, plant
<1>18. ASSUME NEW n \in Node, FieldChanges(n)
       PROVE  TypeOK'
  <2>1. faults' \in 0..MaxFaults
        BY <1>18 DEF FieldChanges, Fault, TypeOK
  <2> QED
        BY <1>18, <2>1 DEF FieldChanges, TypeOK, counters, net, config
<1>19. ASSUME NEW n \in Node, Lose(n)
       PROVE  TypeOK'
  <2>1. /\ claims' \in [Node -> SUBSET {"live", "stale"}]
        /\ syncs' \in [Node -> SUBSET (0..MaxVersion)]
        /\ pushes' \in [Node -> SUBSET (0..MaxVersion)]
    <3>1. CASE \E c \in claims[n] : /\ claims' = [claims EXCEPT ![n] = @ \ {c}]
                                   /\ UNCHANGED <<syncs, pushes>>
          BY <3>1 DEF TypeOK
    <3>2. CASE \E v \in syncs[n] : /\ syncs' = [syncs EXCEPT ![n] = @ \ {v}]
                                  /\ UNCHANGED <<claims, pushes>>
          BY <3>2 DEF TypeOK
    <3>3. CASE \E v \in pushes[n] : /\ pushes' = [pushes EXCEPT ![n] = @ \ {v}]
                                   /\ UNCHANGED <<claims, syncs>>
          BY <3>3 DEF TypeOK
    <3> QED
        BY <1>19, <3>1, <3>2, <3>3 DEF Lose
  <2> QED
       BY <1>19, <2>1 DEF Lose, TypeOK, counters, config, plant
<1>20. CASE UNCHANGED vars
       BY <1>20 DEF vars, TypeOK, counters, net, config, plant
<1> QED
    BY <1>1, <1>2, <1>3, <1>4, <1>5, <1>6, <1>7, <1>8, <1>9, <1>10, <1>11,
       <1>12, <1>13, <1>14, <1>15, <1>16, <1>17, <1>18, <1>19, <1>20
    DEF Next, Tick, Serve

\* The variables keep their types, whatever the environment does.
THEOREM TypeCorrect == Spec => []TypeOK
BY TypeInit, TypeStep, PTL DEF Spec

-----------------------------------------------------------------------------
(* The failback delay.  Whichever step clears or raises the counter does so   *)
(* as an observer of the heartbeats would, and the rounded-up division never  *)
(* falls short of the delay.                                                  *)

\* The beats required last at least as long as the delay.
LEMMA RequiredBeatsSuffice ==
    ASSUME NEW k \in Nat, k >= RequiredStableBeats
    PROVE  k * HeartbeatInterval >= FailbackDelay
<1> DEFINE i == HeartbeatInterval
           q == (FailbackDelay + i - 1) \div i
<1>1. i \in Nat \ {0} /\ FailbackDelay \in Nat
      BY Thresholds
<1>2. q \in Nat /\ k >= q
      BY <1>1 DEF RequiredStableBeats, DivCeil
<1>3. q * i + i > FailbackDelay + i - 1
      BY <1>1
<1>4. q * i >= FailbackDelay
      BY <1>1, <1>2, <1>3
<1>5. k * i >= q * i
      BY <1>1, <1>2
<1> QED
    BY <1>1, <1>2, <1>4, <1>5

\* The counter is what has been seen.
Counted == \A n \in Node : stable[n] = steady[n]

LEMMA CountedStep == TypeOK /\ Counted /\ [Next]_vars => Counted'
<1> SUFFICES ASSUME TypeOK, Counted, [Next]_vars
             PROVE  Counted'
    OBVIOUS
<1>1. ASSUME UNCHANGED <<stable, steady>>
      PROVE  Counted'
      BY <1>1 DEF Counted
<1>2. ASSUME NEW n \in Node, stable' = [stable EXCEPT ![n] = 0],
                              steady' = [steady EXCEPT ![n] = 0]
      PROVE  Counted'
      BY <1>2 DEF Counted, TypeOK
<1>3. ASSUME NEW n \in Node, HeartbeatOk(n)
      PROVE  Counted'
      BY <1>3 DEF HeartbeatOk, RecordHeartbeatOk, Counted, TypeOK
<1>4. ASSUME NEW n \in Node, Tick(n), ~HeartbeatOk(n)
      PROVE  Counted'
      BY <1>1, <1>2, <1>4
      DEF Tick, Probe, HeartbeatLost, PeerListens, PromoteOnLoss, Promote,
          LocalDataReady, LocalDataMissing, ClaimAccepted, ClaimRejected,
          ClaimTimeout, GiveUpClaim, counters
<1>5. ASSUME NEW n \in Node, Serve(n) \/ ServeHeartbeat(n) \/ PushSync(n)
                              \/ EditConfig(n) \/ Boot(n) \/ BootDone(n)
      PROVE  Counted'
      BY <1>1, <1>5
      DEF Serve, HandleClaim, HandleSync, HandlePush, ServeHeartbeat, PushSync,
          EditConfig, Boot, BootDone, StartAs, counters
<1>6. ASSUME NEW n \in Node, \/ Collect(n) \/ StopCollecting(n)
                             \/ CooldownEnds(n) \/ FieldChanges(n) \/ Lose(n)
      PROVE  Counted'
      BY <1>1, <1>6
      DEF Collect, StopCollecting, CooldownEnds, FieldChanges, Lose, counters
<1>7. ASSUME NEW n \in Node, Crash(n)
      PROVE  Counted'
      BY <1>2, <1>7 DEF Crash
<1>8. CASE Cut \/ Heal \/ UNCHANGED vars
      BY <1>1, <1>8 DEF Cut, Heal, vars, counters
<1> QED
    BY <1>3, <1>4, <1>5, <1>6, <1>7, <1>8 DEF Next

\* Only on_tick begins a failback.
LEMMA FailbackBegins ==
    ASSUME TypeOK, Counted, Next, pc[Primary] # "local", pc'[Primary] = "local"
    PROVE  steady'[Primary] * HeartbeatInterval >= FailbackDelay
<1>1. Primary \in Node
      BY DEF Node
<1>2. ASSUME NEW n \in Node, HeartbeatOk(n)
      PROVE  steady'[Primary] * HeartbeatInterval >= FailbackDelay
  <2>1. PICK b \in beat[n] : BeginFailback(n, b) \/ CountUnhealthy(n, b)
                                                \/ PeerIsWell(n, b)
        BY <1>2 DEF HeartbeatOk
  <2>2. BeginFailback(n, b) /\ n = Primary
        BY <1>1, <2>1
        DEF BeginFailback, CountUnhealthy, PeerIsWell, SendClaim, TypeOK
  <2>3. /\ steady'[Primary] = Cap(stable[Primary], MaxStable)
        /\ Cap(stable[Primary], MaxStable) >= RequiredStableBeats
        /\ Cap(stable[Primary], MaxStable) \in Nat
    <3>1. Cap(stable[Primary], MaxStable) \in 0..MaxStable
          BY <1>1, Bounds, CapFacts DEF TypeOK
    <3>2. steady'[Primary] = Cap(steady[Primary], MaxStable)
          BY <1>1, <1>2, <2>2 DEF HeartbeatOk, TypeOK
    <3> QED
          BY <1>1, <2>2, <3>1, <3>2
          DEF BeginFailback, ShouldFailback, Counted
  <2> QED
        BY <2>3, RequiredBeatsSuffice
<1>3. ASSUME NEW n \in Node, ~HeartbeatOk(n),
             Tick(n) \/ Boot(n) \/ BootDone(n) \/ Crash(n)
      PROVE  pc'[Primary] # "local"
      BY <1>1, <1>3
      DEF Tick, Probe, HeartbeatLost, PeerListens, PromoteOnLoss, Promote,
          LocalDataReady, LocalDataMissing, SendClaim, ClaimAccepted,
          ClaimRejected, ClaimTimeout, GiveUpClaim, Boot, BootDone, StartAs,
          Crash, TypeOK
<1>4. ASSUME NEW n \in Node,
             \/ Serve(n) \/ ServeHeartbeat(n) \/ PushSync(n) \/ EditConfig(n)
             \/ Collect(n) \/ StopCollecting(n) \/ CooldownEnds(n)
             \/ FieldChanges(n) \/ Lose(n) \/ Cut \/ Heal
      PROVE  pc' = pc
      BY <1>4
      DEF Serve, HandleClaim, HandleSync, HandlePush, ServeHeartbeat, PushSync,
          EditConfig, Collect, StopCollecting, CooldownEnds, FieldChanges, Lose,
          Cut, Heal
<1> QED
    BY <1>1, <1>2, <1>3, <1>4 DEF Next

\* The primary tries to take the duty back only after it has seen its peer
\* steadily for the failback delay, for every delay and interval.
THEOREM FailbackIsPatient == Spec => FailbackWaits
<1>1. Init => TypeOK /\ Counted
      BY TypeInit DEF Init, Each, Counted
<1>2. TypeOK /\ Counted /\ [Next]_vars => (TypeOK /\ Counted)'
      BY TypeStep, CountedStep
<1>3. TypeOK /\ Counted /\ [Next]_vars =>
          [pc[Primary] # "local" /\ pc'[Primary] = "local" =>
               steady'[Primary] * HeartbeatInterval >= FailbackDelay]_vars
      BY FailbackBegins
<1> QED
    BY <1>1, <1>2, <1>3, PTL DEF Spec, FailbackWaits

-----------------------------------------------------------------------------
(* What is at rest: needed for every statement about roles, because only a   *)
(* node with a request outstanding can be promoted by its answer.  TaskInv   *)
(* says so of the task's own variables: an answer or a live claim belongs to *)
(* a task in the claim phase, never both, and a process starts from zero.    *)

TaskInv ==
    \A n \in Node :
        /\ answer[n] # "none" \/ "live" \in claims[n] => pc[n] = "claim"
        /\ answer[n] = "none" \/ "live" \notin claims[n]
        /\ pc[n] \in {"down", "boot"} =>
               failures[n] = 0 /\ stable[n] = 0 /\ unhealthy[n] = 0

RestInv == TypeOK /\ ActiveAtRest /\ TaskInv

LEMMA RestInit == Init => RestInv
<1> SUFFICES ASSUME Init
             PROVE  ActiveAtRest /\ TaskInv
    BY TypeInit DEF RestInv
<1>1. \A n \in Node : /\ answer[n] = "none" /\ claims[n] = {}
                      /\ failures[n] = 0 /\ stable[n] = 0 /\ unhealthy[n] = 0
      BY DEF Init, Each
<1>2. \A n \in Node : Active(n) => pc[n] = "idle"
      BY DEF Init, Each, Active
<1> QED
    BY <1>1, <1>2 DEF ActiveAtRest, ActiveNodes, TaskInv

\* A step that leaves the roles, the counters and the requests of the
\* heartbeat tasks alone keeps what is at rest.
LEMMA RestKept ==
    ASSUME ActiveAtRest, TaskInv,
           UNCHANGED <<counters, pc, answer>>,
           \A n \in Node : Active(n)' => Active(n),
           \A n \in Node : claims'[n] \subseteq claims[n]
    PROVE  ActiveAtRest' /\ TaskInv'
BY DEF ActiveAtRest, ActiveNodes, TaskInv, counters

\* A step of the heartbeat task of n, which is not Active and not Active after
\* the step either.
LEMMA RestKeptByTask ==
    ASSUME TypeOK, ActiveAtRest, TaskInv, NEW n \in Node,
           ~Active(n), ~Active(n)',
           \A m \in Node : m # n =>
               /\ state'[m] = state[m] /\ pc'[m] = pc[m]
               /\ failures'[m] = failures[m] /\ stable'[m] = stable[m]
               /\ unhealthy'[m] = unhealthy[m] /\ answer'[m] = answer[m]
               /\ claims'[m] \subseteq claims[m],
           answer'[n] = "none",
           "live" \in claims'[n] => pc'[n] = "claim",
           pc'[n] \notin {"down", "boot"}
    PROVE  ActiveAtRest' /\ TaskInv'
BY DEF ActiveAtRest, ActiveNodes, Active, TaskInv

\* promote() of a node whose claim, if any, has been answered.
LEMMA RestKeptByPromote ==
    ASSUME TypeOK, ActiveAtRest, TaskInv, NEW n \in Node, Promote(n),
           claims' = claims, "live" \notin claims[n],
           answer' = [answer EXCEPT ![n] = "none"]
    PROVE  ActiveAtRest' /\ TaskInv'
BY DEF ActiveAtRest, ActiveNodes, Active, TaskInv, Promote, TypeOK

LEMMA RestStep == RestInv /\ [Next]_vars => RestInv'
<1> SUFFICES ASSUME TypeOK, ActiveAtRest, TaskInv, [Next]_vars
             PROVE  ActiveAtRest' /\ TaskInv'
    BY TypeStep DEF RestInv
\* A node whose task waits for something is not Active.
<1>a. ASSUME NEW n \in Node, pc[n] # "idle"
      PROVE  ~Active(n)
      BY <1>a DEF ActiveAtRest, ActiveNodes
<1>1. ASSUME NEW n \in Node,
             Probe(n) \/ HeartbeatOk(n) \/ HeartbeatLost(n) \/ PeerListens(n)
             \/ LocalDataReady(n) \/ LocalDataMissing(n)
      PROVE  ActiveAtRest' /\ TaskInv'
  <2>1. ~Active(n) /\ ~Active(n)'
        BY <1>1, <1>a
        DEF Probe, HeartbeatOk, HeartbeatLost, PeerListens, LocalDataReady,
            LocalDataMissing, Active
  <2>2. \A m \in Node : m # n =>
            /\ state'[m] = state[m] /\ pc'[m] = pc[m]
            /\ failures'[m] = failures[m] /\ stable'[m] = stable[m]
            /\ unhealthy'[m] = unhealthy[m] /\ answer'[m] = answer[m]
            /\ claims'[m] \subseteq claims[m]
    <3>1. CASE HeartbeatOk(n)
          BY <3>1
          DEF HeartbeatOk, RecordHeartbeatOk, BeginFailback, CountUnhealthy,
              PeerIsWell, SendClaim, TypeOK
    <3>2. CASE ~HeartbeatOk(n)
          BY <1>1, <3>2
          DEF Probe, HeartbeatLost, PeerListens, LocalDataReady,
              LocalDataMissing, SendClaim, TypeOK, counters, net
    <3> QED
          BY <3>1, <3>2
  <2>3. answer[n] = "none" /\ "live" \notin claims[n] /\ answer'[n] = answer[n]
        BY <1>1
        DEF TaskInv, Probe, HeartbeatOk, HeartbeatLost, PeerListens,
            LocalDataReady, LocalDataMissing
  <2>4. "live" \in claims'[n] => pc'[n] = "claim"
    <3>1. claims' = claims \/ SendClaim(n)
          BY <1>1
          DEF Probe, HeartbeatOk, HeartbeatLost, PeerListens, LocalDataReady,
              LocalDataMissing, BeginFailback, CountUnhealthy, PeerIsWell, net
    <3> QED
          BY <2>3, <3>1 DEF SendClaim, TypeOK
  <2>5. pc'[n] \notin {"down", "boot"}
        BY <1>1
        DEF Probe, HeartbeatOk, HeartbeatLost, PeerListens, LocalDataReady,
            LocalDataMissing, BeginFailback, CountUnhealthy, PeerIsWell,
            SendClaim, TypeOK
  <2> QED
        BY <2>1, <2>2, <2>3, <2>4, <2>5, RestKeptByTask
<1>2. ASSUME NEW n \in Node, PromoteOnLoss(n)
      PROVE  ActiveAtRest' /\ TaskInv'
  <2>1. answer[n] = "none" /\ "live" \notin claims[n]
        BY <1>2 DEF PromoteOnLoss, TaskInv
  <2>2. answer' = [answer EXCEPT ![n] = "none"] /\ claims' = claims
        BY <1>2, <2>1 DEF PromoteOnLoss, TypeOK, net
  <2> QED
        BY <1>2, <2>1, <2>2, RestKeptByPromote DEF PromoteOnLoss
<1>3. ASSUME NEW n \in Node, ClaimAccepted(n)
      PROVE  ActiveAtRest' /\ TaskInv'
  <2>1. "live" \notin claims[n]
        BY <1>3 DEF ClaimAccepted, TaskInv
  <2> QED
        BY <1>3, <2>1, RestKeptByPromote DEF ClaimAccepted, AnswerRead, net
<1>4. ASSUME NEW n \in Node, ClaimRejected(n) \/ ClaimTimeout(n)
      PROVE  ActiveAtRest' /\ TaskInv'
  <2>1. ~Active(n) /\ ~Active(n)'
        BY <1>4, <1>a DEF ClaimRejected, ClaimTimeout, GiveUpClaim, Active
  <2>2. \A m \in Node : m # n =>
            /\ state'[m] = state[m] /\ pc'[m] = pc[m]
            /\ failures'[m] = failures[m] /\ stable'[m] = stable[m]
            /\ unhealthy'[m] = unhealthy[m] /\ answer'[m] = answer[m]
            /\ claims'[m] \subseteq claims[m]
        BY <1>4
        DEF ClaimRejected, ClaimTimeout, GiveUpClaim, Abandon, AnswerRead, TypeOK
  <2>3. answer'[n] = "none" /\ "live" \notin claims'[n] /\ pc'[n] = "idle"
        BY <1>4
        DEF ClaimRejected, ClaimTimeout, GiveUpClaim, Abandon, AnswerRead,
            TaskInv, TypeOK
  <2> QED
        BY <2>1, <2>2, <2>3, RestKeptByTask
<1>5. ASSUME NEW p \in Node, HandleClaim(p)
      PROVE  ActiveAtRest' /\ TaskInv'
  <2> DEFINE n == Peer(p)
  <2>1. n \in Node /\ n # p /\ \A m \in Node : m = n \/ m = p
        BY PeerFacts
  <2>2. /\ UNCHANGED <<counters, pc>>
        /\ state' = state \/ Demote(p)
        BY <1>5 DEF HandleClaim
  <2>3. PICK c \in claims[n] :
            /\ claims' = [claims EXCEPT ![n] = @ \ {c}]
            /\ IF c = "live"
               THEN answer' = [answer EXCEPT ![n] =
                       IF ~Active(p) \/ MustYield(p, n) THEN "accepted" ELSE "rejected"]
               ELSE answer' = answer
        BY <1>5 DEF HandleClaim
  <2>4. \A m \in Node : Active(m)' => Active(m)
        BY <2>2 DEF Demote, Active, TypeOK
  <2>5. \A m \in Node : Active(m) => answer'[m] = "none"
        BY <2>1, <2>3, <1>a DEF ActiveAtRest, ActiveNodes, TaskInv, TypeOK
  <2>6. ActiveAtRest'
        BY <2>2, <2>4, <2>5 DEF ActiveAtRest, ActiveNodes, counters
  <2>7. TaskInv'
        BY <2>1, <2>2, <2>3 DEF TaskInv, TypeOK, counters
  <2> QED
        BY <2>6, <2>7
<1>6. ASSUME NEW p \in Node, HandleSync(p)
      PROVE  ActiveAtRest' /\ TaskInv'
  <2>1. UNCHANGED <<counters, pc, answer>> /\ claims' = claims
        BY <1>6 DEF HandleSync
  <2>2. \A m \in Node : Active(m)' => Active(m)
        BY <1>6 DEF HandleSync, MeetActivePeer, Demote, Active, TypeOK
  <2> QED
        BY <2>1, <2>2, RestKept
<1>7. ASSUME NEW n \in Node, BootDone(n)
      PROVE  ActiveAtRest' /\ TaskInv'
  <2>1. /\ pc[n] = "boot" /\ pc' = [pc EXCEPT ![n] = "idle"]
        /\ UNCHANGED <<counters, answer, claims>>
        BY <1>7 DEF BootDone, StartAs, net
  <2>2. \A m \in Node : m # n => state'[m] = state[m]
        BY <1>7 DEF BootDone, StartAs, TypeOK
  <2> QED
        BY <2>1, <2>2
        DEF ActiveAtRest, ActiveNodes, Active, TaskInv, counters, TypeOK
<1>8. ASSUME NEW n \in Node, Crash(n)
      PROVE  ActiveAtRest' /\ TaskInv'
  <2>1. /\ ~Active(n)' /\ pc'[n] = "down"
        /\ answer'[n] = "none" /\ "live" \notin claims'[n]
        /\ failures'[n] = 0 /\ stable'[n] = 0 /\ unhealthy'[n] = 0
        BY <1>8, PeerFacts DEF Crash, AnswerRead, Abandon, Active, TypeOK
  <2>2. \A m \in Node : m # n =>
            /\ state'[m] = state[m] /\ pc'[m] = pc[m]
            /\ failures'[m] = failures[m] /\ stable'[m] = stable[m]
            /\ unhealthy'[m] = unhealthy[m] /\ answer'[m] = answer[m]
            /\ claims'[m] \subseteq claims[m]
        BY <1>8, PeerFacts DEF Crash, AnswerRead, Abandon, TypeOK
  <2> QED
        BY <2>1, <2>2 DEF ActiveAtRest, ActiveNodes, Active, TaskInv
<1>9. ASSUME NEW n \in Node, Lose(n)
      PROVE  ActiveAtRest' /\ TaskInv'
  <2>1. UNCHANGED <<state, counters, pc, answer>>
        BY <1>9 DEF Lose
  <2>2. claims' = claims \/ \E c \in claims[n] : claims' = [claims EXCEPT ![n] = @ \ {c}]
        BY <1>9 DEF Lose
  <2>3. \A m \in Node : claims'[m] \subseteq claims[m]
        BY <2>2 DEF TypeOK
  <2> QED
        BY <2>1, <2>3, RestKept DEF Active
<1>10. ASSUME NEW n \in Node, Boot(n)
       PROVE  ActiveAtRest' /\ TaskInv'
       BY <1>10, <1>a
       DEF Boot, ActiveAtRest, ActiveNodes, Active, TaskInv, TypeOK,
           counters, net
<1>11. ASSUME UNCHANGED <<state, counters, pc, answer, claims>>
       PROVE  ActiveAtRest' /\ TaskInv'
       BY <1>11, RestKept DEF Active
<1>12. ASSUME NEW n \in Node,
              ServeHeartbeat(n) \/ PushSync(n) \/ EditConfig(n) \/ HandlePush(n)
              \/ Collect(n) \/ StopCollecting(n) \/ CooldownEnds(n)
              \/ FieldChanges(n)
       PROVE  ActiveAtRest' /\ TaskInv'
       BY <1>11, <1>12
       DEF ServeHeartbeat, PushSync, EditConfig, HandlePush, Collect,
           StopCollecting, CooldownEnds, FieldChanges, net
<1>13. CASE Cut \/ Heal \/ UNCHANGED vars
       BY <1>11, <1>13 DEF Cut, Heal, vars, net
<1> QED
    BY <1>1, <1>2, <1>3, <1>4, <1>5, <1>6, <1>7, <1>8, <1>9, <1>10, <1>12, <1>13
    DEF Next, Tick, Serve

\* The heartbeat task of an Active node waits for nothing, and its counters are
\* clear, whatever the environment does.
THEOREM ActiveRests == Spec => []ActiveAtRest
<1>1. RestInv => ActiveAtRest
      BY DEF RestInv
<1> QED
    BY RestInit, RestStep, <1>1, PTL DEF Spec

-----------------------------------------------------------------------------
(* A primary that does its work keeps it.                                    *)

LEMMA PrimaryKept ==
    ASSUME RestInv, [Next]_vars, Active(Primary), healthy[Primary]
    PROVE  Active(Primary)' \/ pc'[Primary] = "down"
<1> USE RolesDiffer DEF Active, Node
<1>0. TypeOK /\ Primary \in Node /\ pc[Primary] = "idle"
      BY DEF RestInv, ActiveAtRest, ActiveNodes
<1>1. ASSUME state' = state
      PROVE  Active(Primary)'
      BY <1>1
<1>2. ASSUME NEW n \in Node, PromoteOnLoss(n) \/ ClaimAccepted(n)
      PROVE  Active(Primary)'
      BY <1>0, <1>2 DEF PromoteOnLoss, ClaimAccepted, Promote, TypeOK
<1>3. ASSUME NEW n \in Node, BootDone(n)
      PROVE  Active(Primary)'
      BY <1>0, <1>3 DEF BootDone, StartAs, TypeOK
<1>4. ASSUME NEW p \in Node, HandleClaim(p)
      PROVE  Active(Primary)'
  <2>1. CASE p = Primary
    <3>1. ~MustYield(p, Peer(p))
          BY <2>1 DEF MustYield, Peer
    <3> QED
          BY <1>4, <2>1, <3>1 DEF HandleClaim
  <2>2. CASE p # Primary
        BY <1>0, <1>4, <2>2 DEF HandleClaim, Demote, TypeOK
  <2> QED
        BY <2>1, <2>2
<1>5. ASSUME NEW p \in Node, HandleSync(p)
      PROVE  Active(Primary)'
      BY <1>0, <1>5 DEF HandleSync, MeetActivePeer, Demote, TypeOK
<1>6. ASSUME NEW n \in Node, Crash(n)
      PROVE  Active(Primary)' \/ pc'[Primary] = "down"
      BY <1>0, <1>6 DEF Crash, TypeOK
<1>7. ASSUME NEW n \in Node,
             \/ Probe(n) \/ HeartbeatOk(n) \/ HeartbeatLost(n)
             \/ PeerListens(n) \/ LocalDataReady(n) \/ LocalDataMissing(n)
             \/ ClaimRejected(n) \/ ClaimTimeout(n) \/ HandlePush(n)
             \/ ServeHeartbeat(n) \/ PushSync(n) \/ EditConfig(n) \/ Boot(n)
             \/ Collect(n) \/ StopCollecting(n) \/ CooldownEnds(n)
             \/ FieldChanges(n) \/ Lose(n)
      PROVE  Active(Primary)'
      BY <1>1, <1>7
      DEF Probe, HeartbeatOk, HeartbeatLost, PeerListens, LocalDataReady,
          LocalDataMissing, ClaimRejected, ClaimTimeout, GiveUpClaim,
          HandlePush, ServeHeartbeat, PushSync, EditConfig, Boot, Collect,
          StopCollecting, CooldownEnds, FieldChanges, Lose
<1>8. CASE Cut \/ Heal \/ UNCHANGED vars
      BY <1>1, <1>8 DEF Cut, Heal, vars
<1> QED
    BY <1>2, <1>3, <1>4, <1>5, <1>6, <1>7, <1>8 DEF Next, Tick, Serve

\* No claim, current or given up by its sender, no sync and no push demotes a
\* primary that is Active and collects data.
THEOREM HealthyPrimaryIsKept == Spec => HealthyPrimaryStays
<1>1. RestInv /\ [Next]_vars =>
          [Active(Primary) /\ healthy[Primary] =>
              Active(Primary)' \/ pc'[Primary] = "down"]_vars
      BY PrimaryKept
<1> QED
    BY RestInit, RestStep, <1>1, PTL DEF Spec, HealthyPrimaryStays

-----------------------------------------------------------------------------
(* When nothing fails, NodeRedundancy keeps one node Active and hands the    *)
(* duty over as SingleActive promises, for all thresholds and bounds.        *)

\* Both nodes run in the normal state, every request is answered in time, and
\* so often in succession that the claim's answer is read before the reports
\* that the waiting peer counts meanwhile reach its threshold.
Calm == Faults \subseteq {"field"} /\ ~ColdStart /\ MaxLag < UnhealthyThreshold

\* Nothing fails: a claim is on its way, or its answer is, while and only while
\* the claimant waits for it.
Undisturbed ==
    /\ link = TRUE
    /\ \A n \in Node :
           /\ pc[n] \in {"idle", "heartbeat", "local", "claim"}
           /\ beat[n] # {} => pc[n] = "heartbeat"
           /\ claims[n] \subseteq {"live"}
           /\ pc[n] = "claim" <=> (claims[n] # {} \/ answer[n] # "none")

\* p has given way to n and will not claim before n has read the answer.
GaveWay(p, n) ==
    /\ ~Active(p) /\ ~Active(n)
    /\ pc[p] \in {"idle", "heartbeat"}
    /\ \A b \in beat[p] : ~b.active
    /\ unhealthy[p] + (IF pc[p] = "heartbeat" THEN 1 ELSE 0) <= lag[n]

Exclusive ==
    /\ OneActive
    /\ \A n \in Node : answer[n] = "accepted" => GaveWay(Peer(n), n)
    /\ (\A n \in Node : ~Active(n)) => \E n \in Node : answer[n] = "accepted"
    /\ \A m \in Node : syncs[m] # {} => Active(m) \/ answer[Peer(m)] = "accepted"

CalmInv == RestInv /\ Undisturbed /\ Exclusive

LEMMA CalmInit == ASSUME Calm, Init PROVE CalmInv
<1>1. RestInv
      BY RestInit
<1>2. /\ state = [n \in Node |-> IF n = Primary THEN "active" ELSE "standby"]
      /\ \A n \in Node : /\ pc[n] = "idle" /\ beat[n] = {} /\ claims[n] = {}
                         /\ answer[n] = "none" /\ syncs[n] = {}
      /\ link = TRUE
      BY DEF Calm, Init, Each
<1>3. Undisturbed
      BY <1>2 DEF Undisturbed
<1>4. Exclusive
      BY <1>2, RolesDiffer DEF Exclusive, OneActive, DualActive, Active, Node
<1> QED
    BY <1>1, <1>3, <1>4 DEF CalmInv

LEMMA NothingFails ==
    ASSUME Calm, CalmInv, NEW n \in Node
    PROVE  /\ ~HeartbeatLost(n) /\ ~PeerListens(n) /\ ~PromoteOnLoss(n)
           /\ ~ClaimTimeout(n) /\ ~Boot(n) /\ ~BootDone(n) /\ ~Crash(n)
           /\ ~Lose(n) /\ ~Cut /\ ~Heal
<1>1. link = TRUE /\ pc[Peer(n)] \notin {"down", "boot"}
      BY PeerFacts DEF CalmInv, Undisturbed
<1>2. ~MayTimeOut(n)
      BY <1>1 DEF MayTimeOut, Reachable, Up, Calm
<1>3. pc[n] = "claim" => "live" \in claims[n] \/ answer[n] # "none"
      BY DEF CalmInv, Undisturbed
<1>4. ~Fault("crash") /\ ~Fault("cut")
      BY DEF Fault, Calm
<1> QED
    BY <1>1, <1>2, <1>3, <1>4
    DEF HeartbeatLost, PeerListens, PromoteOnLoss, ClaimTimeout, Boot, BootDone,
        Crash, Lose, Cut, Heal, CalmInv, Undisturbed

-----------------------------------------------------------------------------
(* How each step that can happen preserves the invariant.                    *)

\* A task that waits for no claim goes on to another phase, or sends one.
LEMMA Phases ==
    ASSUME CalmInv, NEW n \in Node, claims[n] = {}, answer[n] = "none",
           \/ /\ \E phase \in {"idle", "local"} : pc' = [pc EXCEPT ![n] = phase]
              /\ UNCHANGED claims
           \/ SendClaim(n),
           beat'[n] = {}, \A m \in Node : m # n => beat'[m] = beat[m],
           UNCHANGED <<link, answer>>
    PROVE  Undisturbed'
<1>1. pc \in [Node -> {"down", "boot", "idle"} \cup Waiting]
      /\ claims \in [Node -> SUBSET {"live", "stale"}]
      BY DEF CalmInv, RestInv, TypeOK
<1>2. \A m \in Node : m # n => pc'[m] = pc[m] /\ claims'[m] = claims[m]
      BY <1>1 DEF SendClaim
<1>3. \/ pc'[n] \in {"idle", "local"} /\ claims'[n] = {}
      \/ pc'[n] = "claim" /\ claims'[n] = {"live"}
      BY <1>1 DEF SendClaim
<1> QED
    BY <1>2, <1>3 DEF CalmInv, Undisturbed

LEMMA UndisturbedStep ==
    ASSUME Calm, CalmInv, Next
    PROVE  Undisturbed'
<1> USE DEF CalmInv, RestInv
<1>1. ASSUME NEW n \in Node, Probe(n)
      PROVE  Undisturbed'
      BY <1>1 DEF Probe, Undisturbed, TypeOK, net
<1>2. ASSUME NEW n \in Node, ServeHeartbeat(n)
      PROVE  Undisturbed'
      BY <1>2 DEF ServeHeartbeat, Undisturbed, TypeOK, net
<1>3. ASSUME NEW n \in Node, HeartbeatOk(n)
      PROVE  Undisturbed'
  <2>1. claims[n] = {} /\ answer[n] = "none"
        BY <1>3 DEF HeartbeatOk, Undisturbed
  <2>2. /\ beat' = [beat EXCEPT ![n] = {}]
        /\ \/ pc' = [pc EXCEPT ![n] = "local"] /\ UNCHANGED claims
           \/ pc' = [pc EXCEPT ![n] = "idle"] /\ UNCHANGED claims
           \/ SendClaim(n)
        /\ UNCHANGED <<link, answer>>
        BY <1>3
        DEF HeartbeatOk, RecordHeartbeatOk, BeginFailback, CountUnhealthy, PeerIsWell
  <2>3. beat'[n] = {} /\ \A m \in Node : m # n => beat'[m] = beat[m]
        BY <2>2 DEF TypeOK
  <2> QED
        BY <2>1, <2>2, <2>3, Phases
<1>4. ASSUME NEW n \in Node, LocalDataReady(n) \/ LocalDataMissing(n)
      PROVE  Undisturbed'
  <2>1. claims[n] = {} /\ answer[n] = "none" /\ beat[n] = {}
        BY <1>4 DEF LocalDataReady, LocalDataMissing, Undisturbed
  <2>2. /\ \/ pc' = [pc EXCEPT ![n] = "idle"] /\ UNCHANGED claims
           \/ SendClaim(n)
        /\ UNCHANGED <<link, answer, beat>>
        BY <1>4 DEF LocalDataReady, LocalDataMissing, net
  <2> QED
        BY <2>1, <2>2, Phases
<1>5. ASSUME NEW n \in Node, ClaimAccepted(n) \/ ClaimRejected(n)
      PROVE  Undisturbed'
  <2>1. /\ pc' = [pc EXCEPT ![n] = "idle"] /\ answer' = [answer EXCEPT ![n] = "none"]
        /\ UNCHANGED <<claims, link, beat>>
        BY <1>5
        DEF ClaimAccepted, Promote, ClaimRejected, GiveUpClaim, AnswerRead, net
  <2>2. claims[n] = {} /\ pc[n] = "claim"
        BY <1>5 DEF ClaimAccepted, ClaimRejected, Undisturbed, TaskInv
  <2> QED
        BY <2>1, <2>2 DEF Undisturbed, TypeOK
<1>6. ASSUME NEW p \in Node, HandleClaim(p)
      PROVE  Undisturbed'
  <2>1. Peer(p) \in Node
        BY PeerFacts
  <2>2. PICK c \in claims[Peer(p)] :
            /\ claims' = [claims EXCEPT ![Peer(p)] = @ \ {c}]
            /\ c = "live" => \E a \in {"accepted", "rejected"} :
                                 answer' = [answer EXCEPT ![Peer(p)] = a]
            /\ UNCHANGED <<link, pc, beat>>
        BY <1>6 DEF HandleClaim
  <2>3. c = "live" /\ pc[Peer(p)] = "claim"
        BY <2>1, <2>2 DEF Undisturbed
  <2> QED
        BY <2>1, <2>2, <2>3 DEF Undisturbed, TypeOK
<1>7. ASSUME UNCHANGED <<link, pc, beat, claims, answer>>
      PROVE  Undisturbed'
      BY <1>7 DEF Undisturbed
<1>8. ASSUME NEW n \in Node,
             \/ HandleSync(n) \/ HandlePush(n) \/ PushSync(n) \/ EditConfig(n)
             \/ Collect(n) \/ StopCollecting(n) \/ CooldownEnds(n)
             \/ FieldChanges(n)
      PROVE  Undisturbed'
      BY <1>7, <1>8
      DEF HandleSync, HandlePush, PushSync, EditConfig, Collect, StopCollecting,
          CooldownEnds, FieldChanges, net
<1> QED
    BY <1>1, <1>2, <1>3, <1>4, <1>5, <1>6, <1>8, NothingFails DEF Next, Tick, Serve, Node

\* The nodes are a pair: what is said of each node is said of n and its peer.
LEMMA ByPair ==
    ASSUME NEW n \in Node, OneActive',
           answer'[n] = "accepted" => GaveWay(Peer(n), n)',
           answer'[Peer(n)] = "accepted" => GaveWay(n, Peer(n))',
           \/ Active(n)' \/ Active(Peer(n))'
           \/ answer'[n] = "accepted" \/ answer'[Peer(n)] = "accepted",
           syncs'[n] # {} => Active(n)' \/ answer'[Peer(n)] = "accepted",
           syncs'[Peer(n)] # {} => Active(Peer(n))' \/ answer'[n] = "accepted"
    PROVE  Exclusive'
<1>1. /\ Peer(n) \in Node /\ Peer(Peer(n)) = n
      /\ \A m \in Node : m = n \/ m = Peer(n)
      BY PeerFacts
<1>2. \A m \in Node : answer'[m] = "accepted" => GaveWay(Peer(m), m)'
      BY <1>1 DEF GaveWay
<1>3. (\A m \in Node : ~Active(m)') => \E m \in Node : answer'[m] = "accepted"
      BY <1>1
<1>4. \A m \in Node : syncs'[m] # {} => Active(m)' \/ answer'[Peer(m)] = "accepted"
      BY <1>1
<1> QED
    BY <1>2, <1>3, <1>4 DEF Exclusive, Active

\* A node whose peer's claim was accepted is between two probes or in one.
LEMMA NoneAccepted ==
    ASSUME CalmInv, NEW n \in Node, pc[n] \in {"local", "claim"}, answer[n] # "accepted"
    PROVE  \A m \in Node : answer[m] # "accepted"
<1>1. answer[Peer(n)] = "accepted" => pc[n] \in {"idle", "heartbeat"}
      BY PeerFacts DEF CalmInv, Exclusive, GaveWay
<1> QED
    BY <1>1, PeerFacts

\* Steps that leave the roles and the heartbeat tasks alone.
LEMMA Elsewhere ==
    ASSUME CalmInv, UNCHANGED <<state, answer, pc, beat, unhealthy, lag>>,
           \A m \in Node : syncs'[m] # {} => syncs[m] # {} \/ Active(m)
    PROVE  Exclusive'
BY DEF CalmInv, Exclusive, OneActive, DualActive, Active, GaveWay

\* Where no claim is accepted, only the roles and the syncs count.
LEMMA Unclaimed ==
    ASSUME CalmInv, UNCHANGED <<state, syncs>>,
           \A m \in Node : answer[m] # "accepted" /\ answer'[m] # "accepted"
    PROVE  Exclusive'
<1>1. \A m \in Node : syncs[m] # {} => Active(m)
      BY PeerFacts DEF CalmInv, Exclusive
<1> QED
    BY <1>1 DEF CalmInv, Exclusive, OneActive, DualActive, Active

LEMMA AcceptedStep ==
    ASSUME Calm, CalmInv, NEW n \in Node, ClaimAccepted(n)
    PROVE  /\ Exclusive'
           /\ ActiveNodes = {} /\ ActiveNodes' = {n}
<1>1. /\ Peer(n) \in Node /\ Peer(n) # n
      /\ \A m \in Node : m = n \/ m = Peer(n)
      BY PeerFacts
<1>2. GaveWay(Peer(n), n)
      BY DEF CalmInv, Exclusive, ClaimAccepted
<1>3. answer[Peer(n)] = "none" /\ syncs[Peer(n)] = {}
      BY <1>1, <1>2
      DEF GaveWay, CalmInv, Undisturbed, ClaimAccepted, Calm
<1>4. /\ Active(n)' /\ ~Active(Peer(n))'
      /\ answer'[n] = "none" /\ answer'[Peer(n)] = "none"
      /\ syncs' = syncs
  <2>1. /\ state' = [state EXCEPT ![n] = "active"]
        /\ answer' = [answer EXCEPT ![n] = "none"] /\ syncs' = syncs
        BY DEF ClaimAccepted, Promote, AnswerRead, net
  <2> QED
        BY <1>1, <1>2, <1>3, <2>1 DEF GaveWay, Active, CalmInv, RestInv, TypeOK
<1>5. OneActive'
      BY <1>1, <1>4 DEF OneActive, DualActive, Active, Node, Peer
<1>6. Exclusive'
      BY <1>3, <1>4, <1>5, ByPair
<1>7. ActiveNodes = {} /\ ActiveNodes' = {n}
      BY <1>1, <1>2, <1>4 DEF GaveWay, ActiveNodes, Active
<1> QED
    BY <1>6, <1>7

LEMMA ClaimStep ==
    ASSUME Calm, CalmInv, NEW p \in Node, HandleClaim(p)
    PROVE  /\ Exclusive'
           /\ ActiveNodes # {}
           /\ ActiveNodes' \in {ActiveNodes, {}}
<1> DEFINE n == Peer(p)
<1>1. /\ n \in Node /\ n # p /\ Peer(n) = p
      /\ \A m \in Node : m = n \/ m = p
      BY PeerFacts
<1>2. /\ pc[n] = "claim" /\ answer[n] = "none"
  <2>1. claims[n] = {"live"}
        BY <1>1 DEF HandleClaim, CalmInv, Undisturbed
  <2> QED
        BY <1>1, <2>1 DEF CalmInv, Undisturbed, RestInv, TaskInv
<1>3. ~Active(n)
      BY <1>1, <1>2 DEF CalmInv, RestInv, ActiveAtRest, ActiveNodes
<1>4. answer[p] # "accepted"
      BY <1>1, <1>2, NoneAccepted
<1>5. Active(p)
      BY <1>1, <1>2, <1>3, <1>4 DEF CalmInv, Exclusive
<1>6. pc[p] = "idle" /\ answer[p] = "none" /\ unhealthy[p] = 0 /\ beat[p] = {}
  <2>1. pc[p] = "idle" /\ answer[p] = "none" /\ unhealthy[p] = 0
        BY <1>5 DEF CalmInv, RestInv, ActiveAtRest, ActiveNodes
  <2> QED
        BY <2>1 DEF CalmInv, Undisturbed
<1>7. syncs[n] = {}
      BY <1>1, <1>3, <1>4 DEF CalmInv, Exclusive
<1>8. ActiveNodes = {p}
      BY <1>1, <1>3, <1>5 DEF ActiveNodes
<1>9. /\ \/ state' = [state EXCEPT ![p] = "standby"]
            /\ answer' = [answer EXCEPT ![n] = "accepted"]
         \/ state' = state /\ answer' = [answer EXCEPT ![n] = "rejected"]
      /\ lag' = [lag EXCEPT ![n] = 0]
      /\ UNCHANGED <<unhealthy, pc, beat, syncs>>
  <2>1. PICK c \in claims[n] : c = "live" /\ HandleClaim(p)
        BY <1>1 DEF HandleClaim, CalmInv, Undisturbed
  <2> QED
        BY <1>1, <1>5, <2>1
        DEF HandleClaim, Demote, CalmInv, Undisturbed, counters
<1>10. CASE /\ state' = [state EXCEPT ![p] = "standby"]
            /\ answer' = [answer EXCEPT ![n] = "accepted"]
  <2>1. /\ ~Active(p)' /\ ~Active(n)'
        /\ answer'[n] = "accepted" /\ answer'[p] = "none"
        BY <1>1, <1>3, <1>6, <1>10 DEF Active, CalmInv, RestInv, TypeOK
  <2>2. lag'[n] = 0
        BY <1>1, <1>9 DEF CalmInv, RestInv, TypeOK
  <2>3. GaveWay(p, n)'
        BY <1>6, <1>9, <2>1, <2>2 DEF GaveWay
  <2>4. OneActive'
        BY <2>1, RolesDiffer DEF OneActive, DualActive, n, Peer, Node
  <2>5. Exclusive'
        BY <1>1, <1>7, <1>9, <2>1, <2>3, <2>4, ByPair
  <2> QED
        BY <1>1, <1>8, <2>1, <2>5 DEF ActiveNodes
<1>11. CASE /\ state' = state /\ answer' = [answer EXCEPT ![n] = "rejected"]
  <2>1. \A m \in Node : answer[m] # "accepted" /\ answer'[m] # "accepted"
        BY <1>1, <1>2, <1>4, <1>11 DEF CalmInv, RestInv, TypeOK
  <2> QED
        BY <1>8, <1>9, <1>11, <2>1, Unclaimed DEF ActiveNodes, Active
<1> QED
    BY <1>9, <1>10, <1>11

LEMMA ProbeStep ==
    ASSUME Calm, CalmInv, NEW n \in Node,
           Probe(n) \/ ServeHeartbeat(n) \/ HeartbeatOk(n)
    PROVE  Exclusive'
<1> DEFINE m == Peer(n)
<1>1. /\ m \in Node /\ m # n /\ Peer(m) = n
      /\ \A x \in Node : x = n \/ x = m
      BY PeerFacts
<1>2. UNCHANGED <<state, answer, syncs>>
      BY DEF Probe, ServeHeartbeat, HeartbeatOk, net
<1>3. answer[n] # "accepted" \/ ServeHeartbeat(n)
      BY DEF Probe, HeartbeatOk, CalmInv, Undisturbed
<1>4. CASE answer[n] # "accepted" /\ answer[m] # "accepted"
      BY <1>1, <1>2, <1>4, Unclaimed
<1>5. CASE answer[n] = "accepted"
  <2>1. pc[n] = "claim" /\ beat[n] = {}
        BY <1>5 DEF CalmInv, Undisturbed
  <2> QED
        BY <1>3, <1>5, <2>1 DEF ServeHeartbeat
<1>6. CASE answer[m] = "accepted"
  <2>1. GaveWay(n, m)
        BY <1>1, <1>6 DEF CalmInv, Exclusive
  <2>2. lag[m] \in 0..MaxLag /\ unhealthy[n] \in 0..UnhealthyThreshold
        BY <1>1 DEF CalmInv, RestInv, TypeOK
  <2>3. answer[n] # "accepted"
        BY <2>1 DEF GaveWay, CalmInv, Undisturbed
  <2>4. GaveWay(n, m)'
    <3>1. CASE Probe(n)
      <4>1. lag[m] < MaxLag
            BY <1>6, <3>1 DEF Probe, InStep, Calm
      <4>2. lag'[m] = lag[m] + 1 /\ unhealthy' = unhealthy /\ beat' = beat
            BY <1>1, <1>6, <2>2, <3>1, <4>1, Bounds
            DEF Probe, Cap, CalmInv, RestInv, TypeOK, counters
      <4>3. pc[n] = "idle" /\ pc'[n] = "heartbeat"
            BY <3>1 DEF Probe, CalmInv, RestInv, TypeOK
      <4> QED
            BY <1>2, <2>1, <2>2, <4>2, <4>3 DEF GaveWay, Active
    <3>2. CASE ServeHeartbeat(n)
      <4>1. beat'[n] = {[active |-> Active(m), healthy |-> healthy[m]]}
            BY <3>2 DEF ServeHeartbeat, CalmInv, RestInv, TypeOK
      <4>2. \A b \in beat'[n] : ~b.active
            BY <2>1, <4>1 DEF GaveWay
      <4>3. UNCHANGED <<state, unhealthy, pc, lag>>
            BY <3>2 DEF ServeHeartbeat, counters
      <4> QED
            BY <2>1, <4>2, <4>3 DEF GaveWay, Active
    <3>3. CASE HeartbeatOk(n)
      <4>1. pc[n] = "heartbeat" /\ unhealthy[n] + 1 <= lag[m]
            BY <2>1, <3>3 DEF GaveWay, HeartbeatOk
      <4>2. Cap(unhealthy[n], UnhealthyThreshold) = unhealthy[n] + 1
            BY <2>2, <4>1, Bounds, Thresholds DEF Cap, Calm
      <4>3. ~ShouldClaim(n)
            BY <2>2, <4>1, <4>2, Bounds, Thresholds DEF ShouldClaim, Calm
      <4>4. PICK b \in beat[n] : CountUnhealthy(n, b) \/ PeerIsWell(n, b)
            BY <2>1, <3>3 DEF HeartbeatOk, BeginFailback, ShouldFailback, GaveWay
      <4>5. /\ pc'[n] = "idle"
            /\ unhealthy'[n] = unhealthy[n] + 1 \/ unhealthy'[n] = 0
            BY <4>2, <4>3, <4>4
            DEF CountUnhealthy, PeerIsWell, CalmInv, RestInv, TypeOK
      <4>6. beat'[n] = {} /\ UNCHANGED <<state, lag>>
            BY <3>3 DEF HeartbeatOk, RecordHeartbeatOk, CalmInv, RestInv, TypeOK
      <4> QED
            BY <2>1, <2>2, <4>1, <4>5, <4>6 DEF GaveWay, Active
    <3> QED
          BY <3>1, <3>2, <3>3
  <2>5. /\ OneActive' /\ answer'[m] = "accepted" /\ answer'[n] # "accepted"
        /\ syncs'[n] # {} => Active(n)' \/ answer'[m] = "accepted"
        /\ syncs'[m] # {} => Active(m)' \/ answer'[n] = "accepted"
        BY <1>1, <1>2, <1>6, <2>3
        DEF CalmInv, Exclusive, OneActive, DualActive, Active
  <2> QED
        BY <2>4, <2>5, ByPair
<1> QED
    BY <1>3, <1>4, <1>5, <1>6

LEMMA SyncStep ==
    ASSUME Calm, CalmInv, NEW p \in Node, HandleSync(p)
    PROVE  Exclusive' /\ UNCHANGED state
<1>1. Peer(p) \in Node /\ Peer(p) # p /\ Peer(Peer(p)) = p
      BY PeerFacts
<1>2. syncs[Peer(p)] # {}
      BY DEF HandleSync
<1>3. ~Active(p)
  <2>1. CASE Active(Peer(p))
        BY <1>1, <2>1
        DEF CalmInv, Exclusive, OneActive, DualActive, Node
  <2>2. CASE answer[p] = "accepted"
        BY <2>2 DEF CalmInv, Exclusive, GaveWay
  <2> QED
        BY <1>1, <1>2, <2>1, <2>2 DEF CalmInv, Exclusive
<1>4. /\ UNCHANGED <<state, answer, pc, beat, unhealthy, lag>>
      /\ \A m \in Node : syncs'[m] # {} => syncs[m] # {}
      BY <1>1, <1>3 DEF HandleSync, counters, CalmInv, RestInv, TypeOK
<1> QED
    BY <1>4, Elsewhere

LEMMA CalmStep ==
    ASSUME Calm, CalmInv, [Next]_vars
    PROVE  CalmInv' /\ [Handover!Next]_ActiveNodes
<1>1. RestInv'
      BY RestStep DEF CalmInv
<1>2. ASSUME UNCHANGED <<state, answer, pc, beat, unhealthy, lag>>,
             \A m \in Node : syncs'[m] # {} => syncs[m] # {} \/ Active(m)
      PROVE  Exclusive' /\ UNCHANGED ActiveNodes
      BY <1>2, Elsewhere DEF ActiveNodes, Active
<1>3. ASSUME NEW n \in Node, Probe(n) \/ ServeHeartbeat(n) \/ HeartbeatOk(n)
      PROVE  Exclusive' /\ UNCHANGED ActiveNodes
  <2>1. state' = state
        BY <1>3 DEF Probe, ServeHeartbeat, HeartbeatOk
  <2> QED
        BY <1>3, <2>1, ProbeStep DEF ActiveNodes, Active
<1>4. ASSUME NEW n \in Node, LocalDataReady(n) \/ LocalDataMissing(n)
      PROVE  Exclusive' /\ UNCHANGED ActiveNodes
  <2>1. pc[n] = "local" /\ UNCHANGED <<state, syncs, answer>>
        BY <1>4 DEF LocalDataReady, LocalDataMissing, net
  <2>2. \A m \in Node : answer[m] # "accepted"
        BY <2>1, NoneAccepted DEF CalmInv, RestInv, TaskInv
  <2> QED
        BY <2>1, <2>2, Unclaimed DEF ActiveNodes, Active
<1>5. ASSUME NEW n \in Node, ClaimAccepted(n)
      PROVE  Exclusive' /\ Handover!TakeOver
      BY <1>5, AcceptedStep DEF Handover!TakeOver
<1>6. ASSUME NEW n \in Node, ClaimRejected(n)
      PROVE  Exclusive' /\ UNCHANGED ActiveNodes
  <2>1. /\ pc[n] = "claim" /\ answer[n] = "rejected"
        /\ answer' = [answer EXCEPT ![n] = "none"] /\ UNCHANGED <<state, syncs>>
        BY <1>6 DEF ClaimRejected, GiveUpClaim, AnswerRead
  <2>2. \A m \in Node : answer[m] # "accepted" /\ answer'[m] # "accepted"
        BY <2>1, NoneAccepted DEF CalmInv, RestInv, TypeOK
  <2> QED
        BY <2>1, <2>2, Unclaimed DEF ActiveNodes, Active
<1>7. ASSUME NEW p \in Node, HandleClaim(p)
      PROVE  Exclusive' /\ [Handover!Yield]_ActiveNodes
      BY <1>7, ClaimStep DEF Handover!Yield
<1>8. ASSUME NEW p \in Node, HandleSync(p)
      PROVE  Exclusive' /\ UNCHANGED ActiveNodes
      BY <1>8, SyncStep DEF ActiveNodes, Active
<1>9. ASSUME NEW n \in Node, PushSync(n)
      PROVE  Exclusive' /\ UNCHANGED ActiveNodes
      BY <1>2, <1>9 DEF PushSync, counters, CalmInv, RestInv, TypeOK
<1>10. ASSUME NEW n \in Node,
              \/ HandlePush(n) \/ EditConfig(n) \/ Collect(n)
              \/ StopCollecting(n) \/ CooldownEnds(n) \/ FieldChanges(n)
       PROVE  Exclusive' /\ UNCHANGED ActiveNodes
       BY <1>2, <1>10
       DEF HandlePush, EditConfig, Collect, StopCollecting, CooldownEnds,
           FieldChanges, counters, net
<1>11. CASE UNCHANGED vars
       BY <1>1, <1>2, <1>11 DEF vars, counters, net, CalmInv, Undisturbed
<1>12. CASE Next
  <2>1. Exclusive' /\ [Handover!Next]_ActiveNodes
        BY <1>3, <1>4, <1>5, <1>6, <1>7, <1>8, <1>9, <1>10, <1>12, NothingFails
        DEF Next, Tick, Serve, Handover!Next, Node
  <2> QED
        BY <1>1, <1>12, <2>1, UndisturbedStep DEF CalmInv
<1> QED
    BY <1>11, <1>12

-----------------------------------------------------------------------------
\* Through every takeover and failback at most one node is Active, whatever the
\* devices of either node do, when no request is lost or late.
THEOREM NeverTwoActive ==
    ASSUME Calm
    PROVE  Spec => []OneActive
<1>1. Init => CalmInv
      BY CalmInit
<1>2. CalmInv /\ [Next]_vars => CalmInv'
      BY CalmStep
<1>3. CalmInv => OneActive
      BY DEF CalmInv, Exclusive
<1> QED
    BY <1>1, <1>2, <1>3, PTL DEF Spec

\* ... and the steps of the two nodes are the steps of SingleActive: the Active
\* node yields before the other one takes over.
THEOREM HandoverIsSafe ==
    ASSUME Calm
    PROVE  Spec => Handover!Init /\ [][Handover!Next]_ActiveNodes
<1>1. Init => CalmInv
      BY CalmInit
<1>2. CalmInv /\ [Next]_vars => CalmInv'
      BY CalmStep
<1>3. CalmInv /\ [Next]_vars => [Handover!Next]_ActiveNodes
      BY CalmStep
<1>4. Init => Handover!Init
  <2>1. ASSUME Init
        PROVE  ActiveNodes = {Primary}
        BY <2>1, RolesDiffer DEF Calm, Init, ActiveNodes, Active, Node
  <2> QED
        BY <2>1 DEF Handover!Init, Node
<1> QED
    BY <1>1, <1>2, <1>3, <1>4, PTL DEF Spec
=============================================================================
