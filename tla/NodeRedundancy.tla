--------------------------- MODULE NodeRedundancy ---------------------------
(* Node-level redundancy of the IO backend: two processes, one with the      *)
(* static role primary and one with the role backup, decide over HTTP which  *)
(* of them is Active.  Source: crates/point/src/redundancy/{state,engine}.rs *)
(* with the handlers of crates/web/src/api/redundancy.rs and the start-up    *)
(* and plugin health code of crates/bin/src/main.rs.                         *)
(*                                                                           *)
(* Each node runs one heartbeat task (on_tick), whose phase is pc, and       *)
(* serves its peer's requests on other threads at any moment.  A request     *)
(* whose caller gave up may still reach the peer.  The code's counters have  *)
(* no cap; here each stops at a bound from which on every comparison of the  *)
(* code gives the same answer.                                               *)
EXTENDS Naturals, FiniteSets

CONSTANTS
    Primary, Backup,        \* the two nodes, named by their static role
    FailoverThreshold,      \* failover_threshold.max(1)
    FailbackDelay,          \* failback_delay_ms
    HeartbeatInterval,      \* heartbeat_interval_ms.max(1), the same unit
    MaxStable,              \* bound: stable heartbeats told apart
    UnhealthyThreshold,     \* plugin_unhealthy_threshold.max(1)
    StandbyCollects,        \* nodes whose instance supervisor keeps a plugin
                            \* of a redundancy group running on Standby
    ColdStart,              \* start with both processes down, or in the
                            \* normal state (primary Active, backup Standby)
    Faults,                 \* what the environment may do, see FaultKinds
    MaxFaults,              \* bound: crashes, cuts and field changes together
    MaxVersion,             \* bound: configuration edits
    MaxLag                  \* heartbeat rounds a node may begin while an answer
                            \* to its peer's claim is on its way: the claim's
                            \* timeout is one heartbeat interval

FaultKinds == {"crash",     \* a process stops and may be started again
               "cut",       \* the network between the nodes is down a while
               "field",     \* a node loses or regains its field devices
               "loss",      \* timeouts though the network is up
               "reorder",   \* a value sync arrives after a later claim answer
               "slow"}      \* MaxLag does not hold

ASSUME RolesDiffer == Primary # Backup
ASSUME Thresholds == /\ FailoverThreshold \in Nat \ {0}
                     /\ FailbackDelay \in Nat /\ HeartbeatInterval \in Nat \ {0}
                     /\ UnhealthyThreshold \in Nat \ {0}

DivCeil(a, b) == (a + b - 1) \div b

\* Faulty variant (FailbackWaits): the division rounds down.
RoundedDownBeats ==
    LET beats == FailbackDelay \div HeartbeatInterval
    IN  IF beats = 0 THEN 1 ELSE beats

\* required_stable_beats: the delay in heartbeats, rounded up, at least one
RequiredStableBeats ==
    LET beats == DivCeil(FailbackDelay, HeartbeatInterval)
    IN  IF beats = 0 THEN 1 ELSE beats

ASSUME Bounds == /\ MaxFaults \in Nat /\ MaxVersion \in Nat /\ MaxLag \in Nat
                 /\ MaxStable \in Nat /\ MaxStable >= RequiredStableBeats
ASSUME Environment == /\ Faults \subseteq FaultKinds
                      /\ StandbyCollects \subseteq {Primary, Backup}
                      /\ ColdStart \in BOOLEAN

Node == {Primary, Backup}
Peer(n) == IF n = Primary THEN Backup ELSE Primary

VARIABLES
    state,      \* NodeState of each node (Standby while the process is down)
    splitBrain, \* RedundancyStateInner.split_brain
    failures,   \* heartbeat_failures, up to FailoverThreshold
    stable,     \* stable_heartbeats, up to MaxStable
    unhealthy,  \* unhealthy_reports, up to UnhealthyThreshold
    steady,     \* history: heartbeats answered in a row since the node last
                \* started, lost one, took over or gave an attempt up
    cooling,    \* last_promotion_ms is within plugin_promotion_cooldown_ms
    pc,         \* what the node's start-up or heartbeat task waits for
    beat,       \* the heartbeat answer on its way to the node, if any
    answer,     \* the claim answer on its way to the node
    lag,        \* rounds the peer has begun since that answer was sent
    claims,     \* claim requests on their way from the node
    syncs,      \* config_version of the value syncs on their way from it
    pushes,     \* config_version of the config pushes on their way from it
    version,    \* config_version in the engine's memory
    saved,      \* config_version in the node's database
    cached,     \* the PointManager holds at least one value
    healthy,    \* data_healthy as the health provider evaluates it
    field,      \* the node reaches its field devices
    link,       \* the network between the nodes is up
    faults      \* crashes, cuts and field changes so far

counters == <<failures, stable, unhealthy, steady>>
net      == <<claims, syncs, pushes>>
config   == <<version, saved>>
plant    == <<healthy, cached, field>>
vars == <<state, splitBrain, counters, cooling, pc, beat, answer, lag, net,
          config, plant, link, faults>>

Beat == [active : BOOLEAN, healthy : BOOLEAN]
Waiting == {"heartbeat", "tcp", "local", "claim"}

Cap(x, max) == IF x < max THEN x + 1 ELSE max

Active(n)     == state[n] = "active"
Up(n)         == pc[n] \notin {"down", "boot"}
\* The node's HTTP and WS ports answer its peer.
Reachable(n)  == link /\ Up(n)
\* A request of n may end without an answer.
MayTimeOut(n) == "loss" \in Faults \/ ~Reachable(Peer(n))
InStep(n)     == \/ answer[Peer(n)] = "none"
                 \/ lag[Peer(n)] < MaxLag
                 \/ "slow" \in Faults

-----------------------------------------------------------------------------
Each(x) == [n \in Node |-> x]

Init ==
    /\ IF ColdStart
       THEN state = Each("standby") /\ pc = Each("down")
       ELSE /\ state = [n \in Node |-> IF n = Primary THEN "active"
                                                      ELSE "standby"]
            /\ pc = Each("idle")
    /\ splitBrain = Each(FALSE) /\ cooling = Each(FALSE)
    /\ failures = Each(0) /\ stable = Each(0) /\ unhealthy = Each(0)
    /\ steady = Each(0)
    /\ beat = Each({}) /\ answer = Each("none") /\ lag = Each(0)
    /\ claims = Each({}) /\ syncs = Each({}) /\ pushes = Each({})
    /\ version = Each(0) /\ saved = Each(0)
    /\ cached = Each(FALSE) /\ healthy = Each(FALSE)
    /\ IF "field" \in Faults THEN field \in [Node -> BOOLEAN] ELSE field = Each(TRUE)
    /\ link = TRUE /\ faults = 0

-----------------------------------------------------------------------------
(* The heartbeat task: on_tick on a Standby node.                            *)

\* Faulty variant (ActiveAtRest): unhealthy_reports survives the promotion.
PromoteKeepsReports(n) ==
    /\ state' = [state EXCEPT ![n] = "active"]
    /\ failures' = [failures EXCEPT ![n] = 0]
    /\ stable' = [stable EXCEPT ![n] = 0]
    /\ cooling' = [cooling EXCEPT ![n] = TRUE]
    /\ steady' = [steady EXCEPT ![n] = 0]
    /\ pc' = [pc EXCEPT ![n] = "idle"]
    /\ UNCHANGED unhealthy

\* promote(), called by the heartbeat task only; set_state(Active) clears the
\* three counters and increment_failover_count stamps last_promotion_ms.
Promote(n) ==
    /\ state' = [state EXCEPT ![n] = "active"]
    /\ failures' = [failures EXCEPT ![n] = 0]
    /\ stable' = [stable EXCEPT ![n] = 0]
    /\ unhealthy' = [unhealthy EXCEPT ![n] = 0]
    /\ steady' = [steady EXCEPT ![n] = 0]
    /\ cooling' = [cooling EXCEPT ![n] = TRUE]
    /\ pc' = [pc EXCEPT ![n] = "idle"]

\* on_tick reads Standby and asks the peer for its heartbeat.
Probe(n) ==
    /\ pc[n] = "idle" /\ state[n] = "standby" /\ InStep(n)
    /\ pc' = [pc EXCEPT ![n] = "heartbeat"]
    /\ lag' = [lag EXCEPT ![Peer(n)] =
                   IF answer[Peer(n)] = "none" THEN @ ELSE Cap(@, MaxLag)]
    /\ UNCHANGED <<state, splitBrain, counters, cooling, beat, answer, net,
                   config, plant, link, faults>>

\* GET /heartbeat at the peer: heartbeat_info is read at this moment and may
\* be old when n uses it.
ServeHeartbeat(n) ==
    /\ pc[n] \in {"heartbeat", "boot"} /\ beat[n] = {}
    /\ Reachable(Peer(n))
    /\ beat' = [beat EXCEPT ![n] = {[active  |-> Active(Peer(n)),
                                     healthy |-> healthy[Peer(n)]]}]
    /\ UNCHANGED <<state, splitBrain, counters, cooling, pc, answer, lag, net,
                   config, plant, link, faults>>

\* record_heartbeat_ok
RecordHeartbeatOk(n) ==
    /\ failures' = [failures EXCEPT ![n] = 0]
    /\ stable' = [stable EXCEPT ![n] = Cap(@, MaxStable)]
    /\ splitBrain' = [splitBrain EXCEPT ![n] = FALSE]
    /\ beat' = [beat EXCEPT ![n] = {}]

\* Faulty variant (PrimaryReturns): the count must meet the threshold exactly,
\* and beats of a peer that was not Active have carried it past.
ShouldFailbackExactly(n, b) ==
    n = Primary /\ b.active /\ Cap(stable[n], MaxStable) = RequiredStableBeats

\* should_attempt_failback, on the counter record_heartbeat_ok has just raised
ShouldFailback(n, b) ==
    n = Primary /\ b.active /\ Cap(stable[n], MaxStable) >= RequiredStableBeats

\* Faulty variant (HandoverSpec): the first unhealthy report is enough.
ShouldClaimAtOnce(n) == ~cooling[n]

\* should_promote_unhealthy, on the counter just raised
ShouldClaim(n) ==
    Cap(unhealthy[n], UnhealthyThreshold) >= UnhealthyThreshold /\ ~cooling[n]

SendClaim(n) ==
    /\ pc' = [pc EXCEPT ![n] = "claim"]
    /\ claims' = [claims EXCEPT ![n] = @ \cup {"live"}]

\* The primary has seen its Active peer long enough: probe the local data.
BeginFailback(n, b) ==
    /\ ShouldFailback(n, b)
    /\ pc' = [pc EXCEPT ![n] = "local"]
    /\ UNCHANGED <<unhealthy, claims>>

\* Faulty variant (SomebodyServes): only an Active peer's reports are counted.
CountActiveUnhealthy(n, b) ==
    /\ ~ShouldFailback(n, b) /\ ~b.healthy
    /\ unhealthy' = [unhealthy EXCEPT ![n] =
                         IF b.active THEN Cap(@, UnhealthyThreshold) ELSE @]
    /\ IF b.active /\ ShouldClaim(n) THEN SendClaim(n)
       ELSE pc' = [pc EXCEPT ![n] = "idle"] /\ UNCHANGED claims

\* The peer collects nothing: count it, and claim at the threshold.
CountUnhealthy(n, b) ==
    /\ ~ShouldFailback(n, b) /\ ~b.healthy
    /\ unhealthy' = [unhealthy EXCEPT ![n] = Cap(@, UnhealthyThreshold)]
    /\ IF ShouldClaim(n) THEN SendClaim(n)
       ELSE pc' = [pc EXCEPT ![n] = "idle"] /\ UNCHANGED claims

PeerIsWell(n, b) ==
    /\ ~ShouldFailback(n, b) /\ b.healthy
    /\ unhealthy' = [unhealthy EXCEPT ![n] = 0]
    /\ pc' = [pc EXCEPT ![n] = "idle"]
    /\ UNCHANGED claims

\* on_tick, the peer answered
HeartbeatOk(n) ==
    /\ pc[n] = "heartbeat"
    /\ \E b \in beat[n] : \/ BeginFailback(n, b)
                          \/ CountUnhealthy(n, b)
                          \/ PeerIsWell(n, b)
    /\ RecordHeartbeatOk(n)
    /\ steady' = [steady EXCEPT ![n] = Cap(@, MaxStable)]
    /\ UNCHANGED <<state, cooling, answer, lag, syncs, pushes, config, plant,
                   link, faults>>

\* on_tick, no answer in time; an answer under way is dropped.
HeartbeatLost(n) ==
    /\ pc[n] = "heartbeat" /\ MayTimeOut(n)
    /\ beat' = [beat EXCEPT ![n] = {}]
    /\ failures' = [failures EXCEPT ![n] = Cap(@, FailoverThreshold)]
    /\ stable' = [stable EXCEPT ![n] = 0]
    /\ steady' = [steady EXCEPT ![n] = 0]
    /\ pc' = [pc EXCEPT ![n] =
                  IF failures'[n] >= FailoverThreshold THEN "tcp" ELSE "idle"]
    /\ UNCHANGED <<state, splitBrain, unhealthy, cooling, answer, lag, net,
                   config, plant, link, faults>>

\* probe_peer_tcp connects: stay Standby.
PeerListens(n) ==
    /\ pc[n] = "tcp" /\ Reachable(Peer(n))
    /\ pc' = [pc EXCEPT ![n] = "idle"]
    /\ UNCHANGED <<state, splitBrain, counters, cooling, beat, answer, lag,
                   net, config, plant, link, faults>>

\* probe_peer_tcp fails as well: promote without asking.
PromoteOnLoss(n) ==
    /\ pc[n] = "tcp" /\ MayTimeOut(n)
    /\ Promote(n)
    /\ UNCHANGED <<splitBrain, beat, answer, lag, net, config, plant, link,
                   faults>>

\* probe_local_data: the role task starts the plugins, reports whether one
\* connected, and shuts them down again.
LocalDataReady(n) ==
    /\ pc[n] = "local" /\ field[n]
    /\ SendClaim(n)
    /\ UNCHANGED <<state, splitBrain, counters, cooling, beat, answer, lag,
                   syncs, pushes, config, plant, link, faults>>

LocalDataMissing(n) ==
    /\ pc[n] = "local" /\ ~field[n]
    /\ stable' = [stable EXCEPT ![n] = 0]
    /\ steady' = [steady EXCEPT ![n] = 0]
    /\ pc' = [pc EXCEPT ![n] = "idle"]
    /\ UNCHANGED <<state, splitBrain, failures, unhealthy, cooling, beat,
                   answer, lag, net, config, plant, link, faults>>

-----------------------------------------------------------------------------
(* Claim and answer.                                                         *)

\* Faulty variant (OneActive): the claim is accepted, the role kept.
DemoteForgotten(n) == UNCHANGED state

\* demote(): only the handlers of the peer's requests call it.
Demote(n) == state' = [state EXCEPT ![n] = "standby"]

\* Faulty variant (HealthyPrimaryStays): any claimant is given way to.
YieldToAnyone(p, claimant) == claimant \in Node

\* handle_claim's rule for an Active node; a Standby node accepts.
MustYield(p, claimant) == claimant = Primary \/ ~healthy[p]

\* POST /claim at p.  "live" is the request the claimant still waits for; a
\* "stale" one is handled all the same, but nobody reads the answer.
HandleClaim(p) ==
    LET n == Peer(p)
        accept == ~Active(p) \/ MustYield(p, n) IN
    \E c \in claims[n] :
        /\ Reachable(p)
        /\ claims' = [claims EXCEPT ![n] = @ \ {c}]
        /\ IF Active(p) /\ accept THEN Demote(p) ELSE UNCHANGED state
        /\ IF c = "live"
           THEN /\ answer' = [answer EXCEPT ![n] =
                                 IF accept THEN "accepted" ELSE "rejected"]
                /\ lag' = [lag EXCEPT ![n] = 0]
           ELSE UNCHANGED <<answer, lag>>
        /\ UNCHANGED <<splitBrain, counters, cooling, pc, beat, syncs, pushes,
                       config, plant, link, faults>>

AnswerRead(n) == /\ answer' = [answer EXCEPT ![n] = "none"]
                 /\ lag' = [lag EXCEPT ![n] = 0]

\* claim_and_promote, accepted: promote whatever happened meanwhile.
ClaimAccepted(n) ==
    /\ pc[n] = "claim" /\ answer[n] = "accepted"
    /\ "reorder" \in Faults \/ syncs[Peer(n)] = {}
    /\ Promote(n)
    /\ AnswerRead(n)
    /\ UNCHANGED <<splitBrain, beat, net, config, plant, link, faults>>

\* claim_and_promote, rejected or no answer
GiveUpClaim(n) ==
    /\ stable' = [stable EXCEPT ![n] = 0]
    /\ unhealthy' = [unhealthy EXCEPT ![n] = 0]
    /\ steady' = [steady EXCEPT ![n] = 0]
    /\ pc' = [pc EXCEPT ![n] = "idle"]
    /\ AnswerRead(n)
    /\ UNCHANGED <<state, splitBrain, failures, cooling, beat, syncs, pushes,
                   config, plant, link, faults>>

ClaimRejected(n) ==
    /\ pc[n] = "claim" /\ answer[n] = "rejected"
    /\ GiveUpClaim(n)
    /\ UNCHANGED claims

Abandon(n) == [claims EXCEPT ![n] =
                   IF "live" \in @ THEN {"stale"} ELSE @]

ClaimTimeout(n) ==
    /\ pc[n] = "claim"
    /\ MayTimeOut(n) \/ (answer[n] = "none" /\ "live" \notin claims[n])
    /\ GiveUpClaim(n)
    /\ claims' = Abandon(n)

-----------------------------------------------------------------------------
(* Value sync and configuration push.                                        *)

\* forward_data_message and push_full_snapshot: the Active node sends the
\* values it holds, with the version it has in memory.
PushSync(n) ==
    /\ Active(n) /\ cached[n]
    /\ version[n] \notin syncs[n]
    /\ syncs' = [syncs EXCEPT ![n] = @ \cup {version[n]}]
    /\ UNCHANGED <<state, splitBrain, counters, cooling, pc, beat, answer, lag,
                   claims, pushes, config, plant, link, faults>>

\* Faulty variant (SplitBrainHeals): only the alarm is raised.
AlarmOnly(p) == /\ splitBrain' = [splitBrain EXCEPT ![p] = TRUE]
                /\ UNCHANGED state

\* An Active node that receives a sync is one of two: the backup gives way.
MeetActivePeer(p) ==
    /\ splitBrain' = [splitBrain EXCEPT ![p] = TRUE]
    /\ IF p = Backup THEN Demote(p) ELSE UNCHANGED state

\* Faulty variant (SplitBrainNoticed): a sync of the same version is ignored.
OutdatedOrSame(p, v) == v <= version[p]

\* handle_sync's version test
Outdated(p, v) == v < version[p]

\* POST /sync at p (handle_sync): an older version is ignored before anything
\* else is looked at.
HandleSync(p) ==
    \E v \in syncs[Peer(p)] :
        /\ Reachable(p)
        /\ syncs' = [syncs EXCEPT ![Peer(p)] = @ \ {v}]
        /\ \/ Outdated(p, v) /\ UNCHANGED <<state, splitBrain, cached>>
           \/ /\ ~Outdated(p, v) /\ Active(p)
              /\ MeetActivePeer(p) /\ UNCHANGED cached
           \/ /\ ~Outdated(p, v) /\ ~Active(p)
              /\ cached' = [cached EXCEPT ![p] = TRUE]
              /\ UNCHANGED <<state, splitBrain>>
        /\ UNCHANGED <<counters, cooling, pc, beat, answer, lag, claims,
                       pushes, config, healthy, field, link, faults>>

\* bump_version_and_push on the Active node; the push is not repeated.
EditConfig(n) ==
    /\ Active(n) /\ saved[n] < MaxVersion
    /\ saved' = [saved EXCEPT ![n] = @ + 1]
    /\ version' = [version EXCEPT ![n] = saved[n] + 1]
    /\ pushes' = [pushes EXCEPT ![n] = @ \cup {saved[n] + 1}]
    /\ UNCHANGED <<state, splitBrain, counters, cooling, pc, beat, answer, lag,
                   claims, syncs, plant, link, faults>>

\* POST /config/push at p (apply_config_push), on an Active node too
HandlePush(p) ==
    \E v \in pushes[Peer(p)] :
        /\ Reachable(p)
        /\ pushes' = [pushes EXCEPT ![Peer(p)] = @ \ {v}]
        /\ IF v < saved[p] THEN UNCHANGED config
           ELSE /\ saved' = [saved EXCEPT ![p] = v]
                /\ version' = [version EXCEPT ![p] = v]
        /\ UNCHANGED <<state, splitBrain, counters, cooling, pc, beat, answer,
                       lag, claims, syncs, plant, link, faults>>

-----------------------------------------------------------------------------
(* Start-up, plugins and the environment.                                    *)

\* The process starts and, before it serves anything, asks for its peer's
\* heartbeat (decide_initial_state); its memory is new, its database is not.
Boot(n) ==
    /\ pc[n] = "down"
    /\ pc' = [pc EXCEPT ![n] = "boot"]
    /\ UNCHANGED <<state, splitBrain, counters, cooling, beat, answer, lag,
                   net, config, plant, link, faults>>

\* decide_initial_state and apply_initial_state
StartAs(n, peerActive) ==
    /\ state' = [state EXCEPT ![n] = IF n = Primary /\ ~peerActive
                                     THEN "active" ELSE "standby"]
    /\ pc' = [pc EXCEPT ![n] = "idle"]
    /\ beat' = [beat EXCEPT ![n] = {}]
    /\ UNCHANGED <<splitBrain, counters, cooling, answer, lag, net, config,
                   plant, link, faults>>

BootDone(n) ==
    /\ pc[n] = "boot"
    /\ \/ \E b \in beat[n] : StartAs(n, b.active)
       \/ MayTimeOut(n) /\ StartAs(n, FALSE)

\* A plugin of n is connected and scans.
Collect(n) ==
    /\ Up(n) /\ field[n] /\ (Active(n) \/ n \in StandbyCollects)
    /\ ~healthy[n] \/ (Active(n) /\ ~cached[n])
    /\ healthy' = [healthy EXCEPT ![n] = TRUE]
    /\ cached' = [cached EXCEPT ![n] = @ \/ Active(n)]
    /\ UNCHANGED <<state, splitBrain, counters, cooling, pc, beat, answer, lag,
                   net, config, field, link, faults>>

\* No plugin of n has scanned lately.
StopCollecting(n) ==
    /\ healthy[n]
    /\ ~field[n] \/ (~Active(n) /\ n \notin StandbyCollects)
    /\ healthy' = [healthy EXCEPT ![n] = FALSE]
    /\ UNCHANGED <<state, splitBrain, counters, cooling, pc, beat, answer, lag,
                   net, config, cached, field, link, faults>>

CooldownEnds(n) ==
    /\ cooling[n]
    /\ cooling' = [cooling EXCEPT ![n] = FALSE]
    /\ UNCHANGED <<state, splitBrain, counters, pc, beat, answer, lag, net,
                   config, plant, link, faults>>

Fault(kind) == /\ kind \in Faults /\ faults < MaxFaults
               /\ faults' = faults + 1

\* Everything but the database is lost; connections to n break.
Crash(n) ==
    /\ Fault("crash") /\ pc[n] # "down"
    /\ state' = [state EXCEPT ![n] = "standby"]
    /\ splitBrain' = [splitBrain EXCEPT ![n] = FALSE]
    /\ failures' = [failures EXCEPT ![n] = 0]
    /\ stable' = [stable EXCEPT ![n] = 0]
    /\ unhealthy' = [unhealthy EXCEPT ![n] = 0]
    /\ steady' = [steady EXCEPT ![n] = 0]
    /\ cooling' = [cooling EXCEPT ![n] = FALSE]
    /\ pc' = [pc EXCEPT ![n] = "down"]
    /\ beat' = [beat EXCEPT ![n] = {}]
    /\ AnswerRead(n)
    /\ claims' = [Abandon(n) EXCEPT ![Peer(n)] = {}]
    /\ syncs' = [syncs EXCEPT ![Peer(n)] = {}]
    /\ pushes' = [pushes EXCEPT ![Peer(n)] = {}]
    /\ version' = [version EXCEPT ![n] = 0]
    /\ cached' = [cached EXCEPT ![n] = FALSE]
    /\ healthy' = [healthy EXCEPT ![n] = FALSE]
    /\ UNCHANGED <<saved, field, link>>

Cut == /\ Fault("cut") /\ link /\ link' = FALSE
       /\ UNCHANGED <<state, splitBrain, counters, cooling, pc, beat, answer,
                      lag, net, config, plant>>

Heal == /\ ~link /\ link' = TRUE
        /\ UNCHANGED <<state, splitBrain, counters, cooling, pc, beat, answer,
                       lag, net, config, plant, faults>>

FieldChanges(n) ==
    /\ Fault("field")
    /\ field' = [field EXCEPT ![n] = ~@]
    /\ UNCHANGED <<state, splitBrain, counters, cooling, pc, beat, answer, lag,
                   net, config, healthy, cached, link>>

\* A message from n is lost.
Lose(n) ==
    /\ MayTimeOut(n)
    /\ \/ \E c \in claims[n] : /\ claims' = [claims EXCEPT ![n] = @ \ {c}]
                               /\ UNCHANGED <<syncs, pushes>>
       \/ \E v \in syncs[n] : /\ syncs' = [syncs EXCEPT ![n] = @ \ {v}]
                              /\ UNCHANGED <<claims, pushes>>
       \/ \E v \in pushes[n] : /\ pushes' = [pushes EXCEPT ![n] = @ \ {v}]
                               /\ UNCHANGED <<claims, syncs>>
    /\ UNCHANGED <<state, splitBrain, counters, cooling, pc, beat, answer, lag,
                   config, plant, link, faults>>

-----------------------------------------------------------------------------
\* What n's heartbeat task does next.
Tick(n) == \/ Probe(n) \/ HeartbeatOk(n) \/ HeartbeatLost(n)
           \/ PeerListens(n) \/ PromoteOnLoss(n)
           \/ LocalDataReady(n) \/ LocalDataMissing(n)
           \/ ClaimAccepted(n) \/ ClaimRejected(n) \/ ClaimTimeout(n)

\* What n does for its peer, on the web server's threads.
Serve(n) == HandleClaim(n) \/ HandleSync(n) \/ HandlePush(n)

Next == \/ \E n \in Node : \/ Tick(n) \/ Serve(n) \/ ServeHeartbeat(n)
                           \/ PushSync(n) \/ EditConfig(n)
                           \/ Boot(n) \/ BootDone(n)
                           \/ Collect(n) \/ StopCollecting(n) \/ CooldownEnds(n)
                           \/ Crash(n) \/ FieldChanges(n) \/ Lose(n)
        \/ Cut \/ Heal

Spec == Init /\ [][Next]_vars

\* The heartbeat task, the web server, the snapshot timer and the plugins of a
\* process that runs keep running, the cooldown ends, and a cut heals.  Nobody
\* has to restart a crashed process or edit the configuration.
Fairness ==
    /\ \A n \in Node : /\ WF_vars(Tick(n))
                       /\ WF_vars(ServeHeartbeat(n))
                       /\ WF_vars(HandleClaim(n))
                       /\ WF_vars(HandleSync(n))
                       /\ WF_vars(HandlePush(n))
                       /\ WF_vars(PushSync(n))
                       /\ WF_vars(BootDone(n))
                       /\ WF_vars(Collect(n) \/ StopCollecting(n))
                       /\ WF_vars(CooldownEnds(n))
    /\ WF_vars(Heal)

FairSpec == Spec /\ Fairness

\* Value syncs keep flowing between nodes that can reach each other: all that
\* finding a split brain needs.
SyncSpec == /\ Spec
            /\ \A n \in Node : WF_vars(PushSync(n)) /\ WF_vars(HandleSync(n))
            /\ WF_vars(Heal)
-----------------------------------------------------------------------------
(* Properties.                                                               *)

\* Types and ranges of the variables.
TypeOK ==
    /\ state \in [Node -> {"active", "standby"}]
    /\ splitBrain \in [Node -> BOOLEAN] /\ cooling \in [Node -> BOOLEAN]
    /\ failures \in [Node -> 0..FailoverThreshold]
    /\ stable \in [Node -> 0..MaxStable]
    /\ steady \in [Node -> 0..MaxStable]
    /\ unhealthy \in [Node -> 0..UnhealthyThreshold]
    /\ pc \in [Node -> {"down", "boot", "idle"} \cup Waiting]
    /\ beat \in [Node -> SUBSET Beat]
    /\ answer \in [Node -> {"none", "accepted", "rejected"}]
    /\ lag \in [Node -> 0..MaxLag]
    /\ claims \in [Node -> SUBSET {"live", "stale"}]
    /\ syncs \in [Node -> SUBSET (0..MaxVersion)]
    /\ pushes \in [Node -> SUBSET (0..MaxVersion)]
    /\ version \in [Node -> 0..MaxVersion] /\ saved \in [Node -> 0..MaxVersion]
    /\ cached \in [Node -> BOOLEAN] /\ healthy \in [Node -> BOOLEAN]
    /\ field \in [Node -> BOOLEAN] /\ link \in BOOLEAN /\ faults \in 0..MaxFaults

\* A primary that finds its peer Active tries to take the duty back only after
\* it has seen it steadily for the whole failback delay: a lost heartbeat, a
\* restart or an attempt that failed in between starts the delay anew, and no
\* rounding shortens it.
FailbackWaits ==
    [][pc[Primary] # "local" /\ pc'[Primary] = "local" =>
          steady'[Primary] * HeartbeatInterval >= FailbackDelay]_vars

ActiveNodes == {n \in Node : Active(n)}
DualActive  == Active(Primary) /\ Active(Backup)

\* An Active node's heartbeat task never has a request of its own outstanding
\* (so no answer can promote it again), and all three counters are clear, so
\* a node that is demoted starts to count from zero whichever handler did it.
ActiveAtRest ==
    \A n \in ActiveNodes : /\ pc[n] = "idle" /\ answer[n] = "none"
                           /\ failures[n] = 0 /\ stable[n] = 0 /\ unhealthy[n] = 0

\* A running primary that is Active and collects data is never demoted: not by
\* a claim (even one its sender gave up), not by a sync, not by a push.
HealthyPrimaryStays ==
    [][Active(Primary) /\ healthy[Primary] =>
          Active(Primary)' \/ pc'[Primary] = "down"]_vars

\* While no message is lost and no process stops, the two nodes are never
\* Active together, through takeovers and failbacks.
OneActive == ~DualActive

\* ... and the duty is handed over one step at a time.
Handover == INSTANCE SingleActive WITH active <- ActiveNodes
HandoverSpec == Handover!Spec

\* A node that runs does not wait for ever with nobody Active: after a crash,
\* after an accepted claim whose answer was lost, or after a false split-brain
\* alarm has demoted the backup, somebody takes over.
SomebodyServes == \A n \in Node : Up(n) ~> (ActiveNodes # {} \/ ~Up(n))

\* Two Active nodes are found out: the backup gives way, or the primary raises
\* split_brain, whichever of them has the older configuration version.
SplitBrainNoticed ==
    (DualActive /\ \A n \in Node : cached[n]) ~> (~DualActive \/ splitBrain[Primary])

\* Two Active nodes do not stay Active, unless the backup's configuration
\* version is ahead: the primary's syncs are then ignored as outdated.
SplitBrainHeals ==
    (DualActive /\ cached[Primary]) ~>
        (~DualActive \/ version[Primary] < version[Backup])

\* A primary that runs beside a running peer and reaches its devices becomes
\* Active again and again: failback is never given up for good.
PrimaryReturns ==
    <>[](field[Primary] /\ \A n \in Node : Up(n)) => []<>Active(Primary)
=============================================================================
