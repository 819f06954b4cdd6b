--------------------------- MODULE InstanceGroups ---------------------------
(* The plugin registry of one node with one redundancy group of instances:   *)
(* registry/mod.rs, registry/groups.rs, registry/actor.rs, supervisor.rs and *)
(* the role task of main.rs.  Two tasks start and stop instances without     *)
(* knowing of each other: the supervisor, which runs on every node from the  *)
(* start, and the role task, which obeys the redundancy engine.  Starting an *)
(* instance is awaited, so either task may act while the other waits.  An    *)
(* instance runs in an actor of its own, which the registry only tells to    *)
(* stop.  Failback is enabled; instances outside the group are left out.     *)
EXTENDS Naturals, Sequences

CONSTANTS
    Members,        \* the group in order of takeover, its primary first
    Threshold,      \* instance_failover_threshold
    FailbackTicks,  \* instance_failback_delay_ms in scan intervals
    MaxCommands,    \* bound: commands the role task has not taken yet
    Mute,           \* bound: instances whose device may be mute
    Breakable       \* bound: instances that may be impossible to start

Instances == {Members[k] : k \in DOMAIN Members}
Primary   == Members[1]

ASSUME GroupAssumption ==
    /\ Members \in Seq(Instances) /\ Members # <<>>
    /\ Threshold \in Nat \ {0} /\ FailbackTicks \in Nat \ {0}
    /\ MaxCommands \in Nat \ {0}

VARIABLES
    node,           \* the redundancy engine's state
    commands,       \* role_rx
    role,           \* what the role task awaits
    plugins,        \* PluginRegistry.plugins
    stopping,       \* instances whose actor has yet to find its Shutdown; two
                    \* such actors of one instance count as one
    status,         \* MonitorCollector: connected (state 2), fresh (last scan)
    group,          \* GroupStateInner
    routing,        \* GroupRouting.active_group_instance of the PointManager
    supervisor,     \* what the supervisor awaits, and which instance it starts
    device,         \* environment: of each instance up, mute or down
    broken,         \* instances that cannot be started (no file, bad settings)
    raced,          \* history: both tasks were starting instances at once,
                    \* and what they started is still there
    reset           \* history: rebuild_groups has left the routing behind

registry == <<plugins, stopping, status>>
environment == <<node, device, broken>>
vars == <<environment, commands, role, registry, group, routing, supervisor, raced, reset>>

NoStatus == [connected |-> FALSE, fresh |-> FALSE]
Resting  == [doing |-> "resting", starts |-> Primary]

\* A mute device accepts connections and answers nothing.
Devices == {d \in [Instances -> {"up", "mute", "down"}] :
               \A i \in Instances : d[i] = "mute" => i \in Mute}

\* rebuild_groups
Rebuilt == [active |-> Primary, failures |-> 0, probeTicks |-> 0, cooling |-> FALSE]

\* main: an Active node starts the instances as a promotion does.
Init ==
    /\ node \in {"active", "standby"}
    /\ commands = IF node = "active" THEN <<"promote">> ELSE <<>>
    /\ role = "resting"
    /\ plugins = {} /\ stopping = {} /\ status = [i \in Instances |-> NoStatus]
    /\ group = Rebuilt /\ routing = Primary /\ supervisor = Resting
    /\ device \in Devices
    /\ broken \in SUBSET Breakable
    /\ raced = FALSE /\ reset = FALSE

-----------------------------------------------------------------------------
(* The registry                                                              *)

\* The start of load_and_start, on the status s.  It may fail before the
\* instance is registered with the monitor or after it.
Registered(i, s) == {[s EXCEPT ![i] = NoStatus]} \union (IF i \in broken THEN {s} ELSE {})

\* The end of load_and_start: connect has been awaited, whatever it returned,
\* and the actor of an instance that was there already ends with its channel.
Connected(i) == [status EXCEPT ![i].connected = device[i] # "down"]

Insert(i) == plugins' = plugins \union {i} /\ status' = Connected(i) /\ UNCHANGED stopping

\* shutdown_instance, or shutdown for all of them.
TellToStop(these) ==
    /\ plugins' = plugins \ these
    /\ stopping' = stopping \union (plugins \intersect these)

Shutdown(these) == TellToStop(these) /\ UNCHANGED status

\* The two tasks start instances at once, or what came of it is still running.
Watch ==
    raced' = \/ supervisor'.doing # "resting" /\ role' \in {"starting", "probing"}
             \/ /\ raced
                /\ \/ supervisor'.doing # "resting" \/ role' \in {"starting", "probing"}
                   \/ ~(plugins' \subseteq {group'.active})

\* Faulty variant: the time of the last scan is not looked at.
HealthyWhenConnected(i) == status[i].connected

\* What the supervisor takes for healthy.
Healthy(i) == status[i].connected /\ status[i].fresh

-----------------------------------------------------------------------------
(* The actor of an instance                                                  *)

\* One scan.  Without an answer the link is lost, and made again if the device
\* accepts connections and the last attempt is long enough ago.
Scan(i) ==
    /\ i \in plugins \union stopping
    /\ \E again \in {FALSE, device[i] = "mute"} :
          status' = [status EXCEPT
             ![i].connected = device[i] = "up" \/ again,
             ![i].fresh = @ \/ (device[i] = "up" /\ status[i].connected)]
    /\ UNCHANGED <<environment, commands, role, plugins, stopping, group, routing,
                   supervisor, raced, reset>>

\* The actor takes Shutdown from its queue and disconnects.
Stop(i) ==
    /\ i \in stopping
    /\ stopping' = stopping \ {i}
    /\ status' = [status EXCEPT ![i].connected = FALSE]
    /\ UNCHANGED <<environment, commands, role, plugins, group, routing, supervisor,
                   raced, reset>>

\* Three scan intervals pass without a scan that was answered.
Expire(i) ==
    /\ status[i].fresh
    /\ i \in plugins => device[i] # "up"
    /\ status' = [status EXCEPT ![i].fresh = FALSE]
    /\ UNCHANGED <<environment, commands, role, plugins, stopping, group, routing,
                   supervisor, raced, reset>>

-----------------------------------------------------------------------------
(* The supervisor                                                            *)

\* next_member
NextMember(i) ==
    LET k == CHOOSE k \in DOMAIN Members : Members[k] = i
    IN Members[(k % Len(Members)) + 1]

\* evaluate_group
MustSwitch == /\ ~Healthy(group.active)
              /\ group.failures + 1 >= Threshold /\ ~group.cooling
              /\ NextMember(group.active) # group.active

\* The failures counted; from one below the threshold on, the next one counts
\* as the last.
Counted == [group EXCEPT !.failures =
              IF Healthy(group.active) THEN 0 ELSE IF @ + 1 < Threshold THEN @ + 1 ELSE @]

\* The second half of supervise_groups, on the group g, the registry p and the
\* status s, up to the load_and_start of a probe.
Failback(g, p, s) ==
    LET due    == g.active # Primary /\ g.probeTicks + 1 >= FailbackTicks
        probes == due /\ Primary \notin p
    IN /\ group' = [g EXCEPT !.probeTicks = IF due THEN 0
                                            ELSE IF g.active = Primary THEN @ ELSE @ + 1]
       /\ supervisor' = IF probes THEN [doing |-> "probing", starts |-> Primary]
                        ELSE Resting
       /\ status' \in IF probes THEN Registered(Primary, s) ELSE {s}

\* supervise_groups when the active member is healthy or given more time.
Tick ==
    /\ supervisor = Resting /\ ~MustSwitch
    /\ Failback(Counted, plugins, status)
    /\ UNCHANGED <<environment, commands, role, plugins, stopping, routing, reset>>
    /\ Watch

\* supervise_groups up to load_and_start in switch_group.
Switch ==
    /\ supervisor = Resting /\ MustSwitch
    /\ TellToStop({group.active})
    /\ status' \in Registered(NextMember(group.active), status)
    /\ supervisor' = [doing |-> "switching", starts |-> NextMember(group.active)]
    /\ UNCHANGED <<environment, commands, role, group, routing, reset>>
    /\ Watch

Became(i) == [group EXCEPT !.active = i, !.failures = 0, !.cooling = TRUE]

\* switch_group after load_and_start, and the rest of supervise_groups.
Switched ==
    LET i == supervisor.starts
    IN /\ supervisor.doing = "switching"
       /\ IF i \in broken
          THEN Failback(group, plugins, status) /\ UNCHANGED <<plugins, routing, reset>>
          ELSE /\ plugins' = plugins \union {i}
               /\ Failback(Became(i), plugins', Connected(i))
               /\ routing' = i /\ reset' = FALSE
       /\ UNCHANGED <<environment, commands, role, stopping>>
       /\ Watch

\* probe_primary_and_takeover after load_and_start.
Probed ==
    /\ supervisor.doing = "probing"
    /\ IF Primary \in broken
       THEN supervisor' = Resting /\ UNCHANGED registry
       ELSE supervisor' = [supervisor EXCEPT !.doing = "judging"] /\ Insert(Primary)
    /\ UNCHANGED <<environment, commands, role, group, routing, reset>>
    /\ Watch

\* Faulty variant: the primary takes over beside the backup.
TakeOverBeside ==
    /\ group' = [Became(Primary) EXCEPT !.probeTicks = 0]
    /\ routing' = Primary /\ reset' = FALSE
    /\ UNCHANGED registry

\* The primary takes over from the member that was active.
TakeOver ==
    /\ group' = [Became(Primary) EXCEPT !.probeTicks = 0]
    /\ routing' = Primary /\ reset' = FALSE
    /\ Shutdown({group.active})

\* The rest of probe_primary_and_takeover.
Judge ==
    /\ supervisor.doing = "judging" /\ supervisor' = Resting
    /\ CASE ~status[Primary].connected ->
               Shutdown({Primary}) /\ UNCHANGED <<group, routing, reset>>
         [] status[Primary].connected /\ group.active # Primary -> TakeOver
         [] OTHER -> UNCHANGED <<registry, group, routing, reset>>
    /\ UNCHANGED <<environment, commands, role>>
    /\ Watch

\* The cooldown ends.  It is longer than a scan that is answered, or the end of
\* an actor, takes.
Cool ==
    /\ group.cooling /\ stopping = {}
    /\ \A i \in plugins : device[i] = "up" => Healthy(i)
    /\ group' = [group EXCEPT !.cooling = FALSE]
    /\ UNCHANGED <<environment, commands, role, registry, routing, supervisor, raced, reset>>

-----------------------------------------------------------------------------
(* The role task                                                             *)

\* Promote and ProbeData: start_instances up to its first await.  It does
\* nothing if anything runs.
Start(command, awaits, otherwise) ==
    /\ role = "resting" /\ commands # <<>> /\ Head(commands) = command
    /\ commands' = Tail(commands)
    /\ IF plugins # {}
       THEN role' = otherwise /\ UNCHANGED <<status, group, reset>>
       ELSE /\ role' = awaits /\ group' = Rebuilt /\ reset' = (routing # Primary)
            /\ status' \in Registered(Primary, status)
    /\ UNCHANGED <<environment, plugins, stopping, routing, supervisor>>
    /\ Watch

\* The end of start_instances.
Started ==
    /\ role \in {"starting", "probing"}
    /\ role' = IF role = "starting" THEN "resting" ELSE "waiting"
    /\ IF Primary \in broken THEN UNCHANGED registry ELSE Insert(Primary)
    /\ UNCHANGED <<environment, commands, group, routing, supervisor, reset>>
    /\ Watch

\* ProbeData: something is connected, or 8 s are over.
ProbeAnswered ==
    /\ role = "waiting" /\ role' = "resting"
    /\ Shutdown(Instances)
    /\ UNCHANGED <<environment, commands, group, routing, supervisor, reset>>
    /\ Watch

Demote ==
    /\ role = "resting" /\ commands # <<>> /\ Head(commands) = "demote"
    /\ commands' = Tail(commands) /\ role' = role
    /\ Shutdown(Instances)
    /\ UNCHANGED <<environment, group, routing, supervisor, reset>>
    /\ Watch

RoleStep == \/ Start("promote", "starting", "resting")
            \/ Start("probe", "probing", "waiting")
            \/ Started \/ ProbeAnswered \/ Demote

-----------------------------------------------------------------------------
(* The redundancy engine and the devices                                     *)

\* promote, demote and the probe of a failback, which a Standby node asks for.
Command(command, before, after) ==
    /\ node = before /\ node' = after
    /\ Len(commands) < MaxCommands
    /\ commands' = Append(commands, command)
    /\ UNCHANGED <<device, broken, role, registry, group, routing, supervisor, raced, reset>>

Turn(i) ==
    /\ \E d \in Devices :
          /\ d[i] # device[i] /\ \A j \in Instances \ {i} : d[j] = device[j]
          /\ device' = d
    /\ UNCHANGED <<node, broken, commands, role, registry, group, routing, supervisor,
                   raced, reset>>

Next ==
    \/ Tick \/ Switch \/ Switched \/ Probed \/ Judge \/ Cool
    \/ RoleStep
    \/ Command("promote", "standby", "active") \/ Command("demote", "active", "standby")
    \/ Command("probe", "standby", "standby")
    \/ \E i \in Instances : Scan(i) \/ Stop(i) \/ Expire(i) \/ Turn(i)

\* The steps of the program; the engine and the devices owe nothing.
Supervise == Tick \/ Switch \/ Switched \/ Probed \/ Judge

Fairness ==
    /\ WF_vars(Supervise) /\ WF_vars(RoleStep)
    /\ SF_vars(Cool) /\ SF_vars(Judge /\ status[Primary].connected)
    /\ \A i \in Instances : WF_vars(Scan(i)) /\ WF_vars(Stop(i)) /\ WF_vars(Expire(i))

Spec == Init /\ [][Next]_vars /\ Fairness

-----------------------------------------------------------------------------
TypeOK ==
    /\ node \in {"active", "standby"}
    /\ commands \in Seq({"promote", "demote", "probe"}) /\ Len(commands) <= MaxCommands
    /\ role \in {"resting", "starting", "probing", "waiting"}
    /\ plugins \subseteq Instances /\ stopping \subseteq Instances
    /\ status \in [Instances -> [connected : BOOLEAN, fresh : BOOLEAN]]
    /\ group \in [active : Instances, failures : 0..(Threshold - 1),
                  probeTicks : 0..FailbackTicks, cooling : BOOLEAN]
    /\ routing \in Instances
    /\ supervisor \in [doing : {"resting", "switching", "probing", "judging"},
                       starts : Instances]
    /\ device \in Devices /\ broken \subseteq Breakable
    /\ raced \in BOOLEAN /\ reset \in BOOLEAN

\* Between its decisions the supervisor leaves at most one member running, the
\* active one, and it is the member whose values the PointManager lets through:
\* through failovers, probes and failbacks, promotions, demotions and probes of
\* the node, in any order.  Excepted is a group that both tasks were starting at
\* once (raced), and routing that start_instances has not set back (reset).
OneSpeaks ==
    supervisor = Resting =>
        /\ plugins \subseteq {group.active} \/ raced
        /\ routing = group.active \/ reset

\* An Active node whose devices no longer change keeps coming back to a running
\* member whose device answers, if there is one; and it stays with the primary
\* if that is one, however the other device fares.
GroupServes ==
    (<>[](node = "active" /\ broken = {}) /\ <>[][FALSE]_device) =>
        /\ []<>(/\ group.active \in plugins
                /\ (\E i \in Instances : device[i] = "up") => device[group.active] = "up")
        /\ <>[](device[Primary] = "up" /\ ~raced) =>
              <>[](group.active = Primary /\ Primary \in plugins)
=============================================================================
