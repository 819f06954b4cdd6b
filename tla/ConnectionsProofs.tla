------------------------- MODULE ConnectionsProofs -------------------------
(* What InstanceGroups promises for groups of any size and all bounds: the   *)
(* types, and that one member speaks for the group; and what Realtime does   *)
(* for all nodes, lists of addresses and numbers of sockets: the client      *)
(* connects as it is asked to.                                               *)
EXTENDS Connections, TLAPS

LEMMA MemberFacts ==
    /\ Primary \in Instances
    /\ \A i \in Instances : NextMember(i) \in Instances
<1>1. Len(Members) \in Nat \ {0} /\ DOMAIN Members = 1..Len(Members)
      BY GroupAssumption
<1>2. \A k \in 1..Len(Members) : Members[k] \in Instances
      BY <1>1 DEF Instances
<1>3. ASSUME NEW i \in Instances
      PROVE  NextMember(i) \in Instances
  <2> DEFINE k == CHOOSE k \in DOMAIN Members : Members[k] = i
  <2>1. k \in 1..Len(Members)
        BY <1>1 DEF Instances
  <2>2. (k % Len(Members)) + 1 \in 1..Len(Members)
        BY <1>1, <2>1
  <2> QED
        BY <1>2, <2>2 DEF NextMember
<1> QED
    BY <1>1, <1>2, <1>3 DEF Primary

-----------------------------------------------------------------------------
(* Types.                                                                    *)

Status == [Instances -> [connected : BOOLEAN, fresh : BOOLEAN]]
Group  == [active : Instances, failures : 0..(Threshold - 1),
           probeTicks : 0..FailbackTicks, cooling : BOOLEAN]
Task   == [doing : {"resting", "switching", "probing", "judging"}, starts : Instances]

\* What the steps that start an instance do to the monitor.
LEMMA StatusTypes ==
    ASSUME TypeOK, NEW i \in Instances, NEW s \in Status
    PROVE  Registered(i, s) \subseteq Status /\ Connected(i) \in Status
<1> USE DEF TypeOK, Status
<1>1. [s EXCEPT ![i] = NoStatus] \in Status
      BY DEF NoStatus
<1>2. Connected(i) \in Status
      BY DEF Connected
<1> QED
    BY <1>1, <1>2 DEF Registered

LEMMA GroupTypes ==
    /\ Rebuilt \in Group
    /\ TypeOK => Counted \in Group
    /\ TypeOK => \A i \in Instances : Became(i) \in Group /\ Became(i).active = i
<1>1. 0 \in 0..(Threshold - 1) /\ 0 \in 0..FailbackTicks
      BY GroupAssumption
<1>2. Rebuilt \in Group
      BY <1>1, MemberFacts DEF Rebuilt, Group
<1>3. ASSUME TypeOK
      PROVE  Counted \in Group
  <2>1. group \in Group
        BY <1>3 DEF TypeOK, Group
  <2>2. group.failures + 1 < Threshold => group.failures + 1 \in 0..(Threshold - 1)
        BY <2>1, GroupAssumption DEF Group
  <2> QED
        BY <1>1, <2>1, <2>2 DEF Counted, Group
<1>4. ASSUME TypeOK, NEW i \in Instances
      PROVE  Became(i) \in Group /\ Became(i).active = i
  <2> DEFINE g == [group EXCEPT !.active = i, !.failures = 0]
  <2>1. group \in Group
        BY <1>4 DEF TypeOK, Group
  <2>2. g \in Group /\ g.active = i
        BY <1>1, <2>1 DEF Group
  <2>3. Became(i) = [g EXCEPT !.cooling = TRUE]
        BY Zenon DEF Became
  <2> HIDE DEF g
  <2> QED
        BY <2>2, <2>3 DEF Group
<1> QED
    BY <1>2, <1>3, <1>4

LEMMA FailbackTypes ==
    ASSUME TypeOK, NEW g \in Group, NEW p, NEW s \in Status, Failback(g, p, s)
    PROVE  group' \in Group /\ supervisor' \in Task /\ status' \in Status
<1> USE GroupAssumption, MemberFacts
<1>1. group' \in Group
      BY DEF Failback, Group
<1>2. supervisor' \in Task
      BY DEF Failback, Task, Resting
<1>3. status' \in Status
      BY StatusTypes DEF Failback
<1> QED
    BY <1>1, <1>2, <1>3
-----------------------------------------------------------------------------
TypeParts ==
    /\ node \in {"active", "standby"}
    /\ commands \in Seq({"promote", "demote", "probe"}) /\ Len(commands) <= MaxCommands
    /\ role \in {"resting", "starting", "probing", "waiting"}
    /\ plugins \subseteq Instances /\ stopping \subseteq Instances
    /\ status \in Status /\ group \in Group
    /\ routing \in Instances /\ supervisor \in Task
    /\ device \in Devices /\ broken \subseteq Breakable
    /\ raced \in BOOLEAN /\ reset \in BOOLEAN

LEMMA TypeByParts == (TypeOK <=> TypeParts) /\ (TypeOK' <=> TypeParts')
BY DEF TypeOK, TypeParts, Status, Group, Task

LEMMA TypeInit == ASSUME Init PROVE TypeOK
<1>1. commands \in Seq({"promote", "demote", "probe"}) /\ Len(commands) <= MaxCommands
  <2>1. commands = <<>> \/ commands = <<"promote">>
        BY DEF Init
  <2>2. /\ <<>> \in Seq({"promote", "demote", "probe"}) /\ Len(<<>>) = 0
        /\ <<"promote">> \in Seq({"promote", "demote", "probe"})
        /\ Len(<<"promote">>) = 1
        OBVIOUS
  <2>3. MaxCommands \in Nat /\ 0 <= MaxCommands /\ 1 <= MaxCommands
        BY GroupAssumption
  <2> QED
        BY <2>1, <2>2, <2>3
<1>2. status \in Status /\ supervisor \in Task
      BY MemberFacts DEF Init, Status, NoStatus, Task, Resting
<1> QED
    BY <1>1, <1>2, MemberFacts, GroupTypes, TypeByParts DEF Init, TypeParts

LEMMA ActorTypes ==
    ASSUME TypeOK, NEW i \in Instances, Scan(i) \/ Stop(i) \/ Expire(i) \/ Turn(i)
    PROVE  TypeOK'
<1>1. TypeParts
      BY TypeByParts
<1>2. CASE Scan(i)
  <2>1. PICK again \in BOOLEAN :
          status' = [status EXCEPT
             ![i].connected = device[i] = "up" \/ again,
             ![i].fresh = @ \/ (device[i] = "up" /\ status[i].connected)]
        BY <1>2 DEF Scan
  <2> DEFINE s == [status EXCEPT ![i].connected = device[i] = "up" \/ again]
  <2>2. s \in Status
        BY <1>1 DEF Status, TypeParts
  <2>3. status' = [s EXCEPT ![i].fresh =
                     @ \/ (device[i] = "up" /\ status[i].connected)]
        BY <2>1, Zenon
  <2> HIDE DEF s
  <2>4. status' \in Status
        BY <2>2, <2>3 DEF Status
  <2> QED
        BY <1>1, <1>2, <2>4, TypeByParts DEF Scan, TypeParts, environment
<1>3. CASE Stop(i)
  <2>1. status' \in Status
        BY <1>1, <1>3 DEF Stop, Status, TypeParts
  <2> QED
        BY <1>1, <1>3, <2>1, TypeByParts DEF Stop, TypeParts, environment
<1>4. CASE Expire(i)
  <2>1. status' \in Status
        BY <1>1, <1>4 DEF Expire, Status, TypeParts
  <2> QED
        BY <1>1, <1>4, <2>1, TypeByParts DEF Expire, TypeParts, environment
<1>5. CASE Turn(i)
      BY <1>1, <1>5, TypeByParts DEF Turn, TypeParts, registry
<1> QED
    BY <1>2, <1>3, <1>4, <1>5

LEMMA SupervisorTypes == ASSUME TypeOK, Supervise \/ Cool PROVE TypeOK'
<1>1. TypeParts
      BY TypeByParts
<1>2. raced' \in BOOLEAN \/ UNCHANGED raced
      BY DEF Supervise, Tick, Switch, Switched, Probed, Judge, Cool, Watch
<1>3. CASE Tick
  <2>1. group' \in Group /\ supervisor' \in Task /\ status' \in Status
        BY <1>1, <1>3, GroupTypes, FailbackTypes DEF Tick, TypeParts
  <2> QED
        BY <1>1, <1>2, <1>3, <2>1, TypeByParts DEF Tick, TypeParts, environment
<1>4. CASE Switch
  <2> DEFINE i == NextMember(group.active)
  <2>1. i \in Instances
        BY <1>1, MemberFacts DEF TypeParts, Group
  <2>2. supervisor' \in Task
        BY <1>4, <2>1 DEF Switch, Task
  <2>3. status' \in Status
        BY <1>1, <1>4, <2>1, StatusTypes DEF Switch, TypeParts
  <2>4. plugins' \subseteq Instances /\ stopping' \subseteq Instances
        BY <1>1, <1>4 DEF Switch, TellToStop, TypeParts
  <2> QED
        BY <1>1, <1>2, <1>4, <2>2, <2>3, <2>4, TypeByParts
        DEF Switch, TypeParts, environment
<1>5. CASE Switched
  <2> DEFINE i == supervisor.starts
  <2>1. i \in Instances
        BY <1>1 DEF TypeParts, Task
  <2>2. CASE i \in broken
    <3>1. Failback(group, plugins, status) /\ UNCHANGED <<plugins, routing, reset>>
          BY <1>5, <2>2 DEF Switched
    <3>2. group' \in Group /\ supervisor' \in Task /\ status' \in Status
          BY <1>1, <3>1, FailbackTypes DEF TypeParts
    <3> QED
          BY <1>1, <1>2, <1>5, <3>1, <3>2, TypeByParts
          DEF Switched, TypeParts, environment
  <2>3. CASE i \notin broken
    <3>1. /\ plugins' = plugins \cup {i} /\ routing' = i /\ reset' = FALSE
          /\ Failback(Became(i), plugins', Connected(i))
          BY <1>5, <2>3 DEF Switched
    <3>2. Became(i) \in Group /\ Connected(i) \in Status
          BY <1>1, <2>1, GroupTypes, StatusTypes DEF TypeParts
    <3>3. group' \in Group /\ supervisor' \in Task /\ status' \in Status
          BY <3>1, <3>2, FailbackTypes
    <3> QED
          BY <1>1, <1>2, <1>5, <2>1, <3>1, <3>3, TypeByParts
          DEF Switched, TypeParts, environment
  <2> QED
        BY <2>2, <2>3
<1>6. CASE Probed
  <2>1. status' \in Status /\ plugins' \subseteq Instances /\ UNCHANGED stopping
        BY <1>1, <1>6, MemberFacts, StatusTypes
        DEF Probed, Insert, registry, TypeParts
  <2>2. supervisor' \in Task
        BY <1>1, <1>6, MemberFacts DEF Probed, TypeParts, Task, Resting
  <2> QED
        BY <1>1, <1>2, <1>6, <2>1, <2>2, TypeByParts DEF Probed, TypeParts, environment
<1>7. CASE Judge
  <2>1. supervisor' \in Task
        BY <1>7, MemberFacts DEF Judge, Task, Resting
  <2>2. /\ plugins' \subseteq Instances /\ stopping' \subseteq Instances
        /\ UNCHANGED status
        BY <1>1, <1>7
        DEF Judge, TakeOver, Shutdown, TellToStop, registry, TypeParts
  <2>3. /\ group' = group \/ group' = [Became(Primary) EXCEPT !.probeTicks = 0]
        /\ routing' \in {routing, Primary} /\ reset' \in {reset, FALSE}
        BY <1>7 DEF Judge, TakeOver
  <2>4. group' \in Group
        BY <1>1, <2>3, MemberFacts, GroupTypes, GroupAssumption DEF Group, TypeParts
  <2> QED
        BY <1>1, <1>2, <1>7, <2>1, <2>2, <2>3, <2>4, MemberFacts, TypeByParts
        DEF Judge, TypeParts, environment
<1>8. CASE Cool
  <2>1. group' \in Group
        BY <1>1, <1>8 DEF Cool, Group, TypeParts
  <2> QED
        BY <1>1, <1>8, <2>1, TypeByParts DEF Cool, TypeParts, environment, registry
<1> QED
    BY <1>3, <1>4, <1>5, <1>6, <1>7, <1>8 DEF Supervise

Names == {"promote", "demote", "probe"}

\* The queue of commands loses its head, or gets one more.
LEMMA QueueTypes ==
    ASSUME commands \in Seq(Names), Len(commands) <= MaxCommands
    PROVE  /\ commands # <<>> => /\ Tail(commands) \in Seq(Names)
                                 /\ Len(Tail(commands)) <= MaxCommands
           /\ Len(commands) < MaxCommands =>
                 \A c \in Names : /\ Append(commands, c) \in Seq(Names)
                                  /\ Len(Append(commands, c)) <= MaxCommands
<1>1. Len(commands) \in Nat /\ MaxCommands \in Nat
      BY GroupAssumption
<1>2. commands # <<>> => /\ Tail(commands) \in Seq(Names)
                         /\ Len(Tail(commands)) = Len(commands) - 1
      OBVIOUS
<1>3. \A c \in Names : /\ Append(commands, c) \in Seq(Names)
                       /\ Len(Append(commands, c)) = Len(commands) + 1
      OBVIOUS
<1> QED
    BY <1>1, <1>2, <1>3

LEMMA RoleTypes == ASSUME TypeOK, RoleStep PROVE TypeOK'
<1>1. TypeParts
      BY TypeByParts
<1>2. /\ commands # <<>> => /\ Tail(commands) \in Seq(Names)
                            /\ Len(Tail(commands)) <= MaxCommands
      BY <1>1, QueueTypes DEF TypeParts, Names
<1>3. raced' \in BOOLEAN
      BY DEF RoleStep, Start, Started, ProbeAnswered, Demote, Watch
<1>4. ASSUME NEW command, NEW awaits \in {"starting", "probing"},
             NEW otherwise \in {"resting", "waiting"},
             Start(command, awaits, otherwise)
      PROVE  TypeOK'
  <2>1. status' \in Status
        BY <1>1, <1>4, MemberFacts, StatusTypes DEF Start, TypeParts
  <2>2. group' \in Group /\ reset' \in BOOLEAN
        BY <1>1, <1>4, GroupTypes DEF Start, TypeParts
  <2>3. role' \in {"resting", "starting", "probing", "waiting"}
        BY <1>4 DEF Start
  <2>4. commands # <<>> /\ commands' = Tail(commands)
        BY <1>4 DEF Start
  <2> QED
        BY <1>1, <1>2, <1>3, <1>4, <2>1, <2>2, <2>3, <2>4, TypeByParts
        DEF Start, TypeParts, environment, Names
<1>5. CASE Started
  <2>1. status' \in Status /\ plugins' \subseteq Instances /\ UNCHANGED stopping
        BY <1>1, <1>5, MemberFacts, StatusTypes
        DEF Started, Insert, registry, TypeParts
  <2> QED
        BY <1>1, <1>3, <1>5, <2>1, TypeByParts DEF Started, TypeParts, environment
<1>6. CASE ProbeAnswered
      BY <1>1, <1>3, <1>6, TypeByParts
      DEF ProbeAnswered, Shutdown, TellToStop, TypeParts, environment
<1>7. CASE Demote
      BY <1>1, <1>2, <1>3, <1>7, TypeByParts
      DEF Demote, Shutdown, TellToStop, TypeParts, environment, Names
<1> QED
    BY <1>4, <1>5, <1>6, <1>7 DEF RoleStep

LEMMA CommandTypes ==
    ASSUME TypeOK, NEW command \in Names, NEW before,
           NEW after \in {"active", "standby"}, Command(command, before, after)
    PROVE  TypeOK'
<1>1. TypeParts
      BY TypeByParts
<1>2. commands' \in Seq(Names) /\ Len(commands') <= MaxCommands
      BY <1>1, QueueTypes DEF Command, TypeParts, Names
<1> QED
    BY <1>1, <1>2, TypeByParts DEF Command, TypeParts, registry, Names

LEMMA TypeStep == ASSUME TypeOK, [Next]_vars PROVE TypeOK'
<1>1. CASE UNCHANGED vars
      BY <1>1, TypeByParts DEF vars, environment, registry, TypeParts
<1>2. CASE Next
  <2>1. \/ Supervise \/ Cool \/ RoleStep
        \/ \E i \in Instances : Scan(i) \/ Stop(i) \/ Expire(i) \/ Turn(i)
        \/ Command("promote", "standby", "active")
        \/ Command("demote", "active", "standby")
        \/ Command("probe", "standby", "standby")
        BY <1>2 DEF Next, Supervise
  <2> QED
        BY <2>1, SupervisorTypes, RoleTypes, ActorTypes, CommandTypes DEF Names
<1> QED
    BY <1>1, <1>2

\* Types and ranges of all variables, whatever both tasks and the actors do.
THEOREM TypeCorrect == Spec => []TypeOK
BY TypeInit, TypeStep, PTL DEF Spec

-----------------------------------------------------------------------------
(* One member speaks.                                                        *)

RoleStarts == role \in {"starting", "probing"}

\* What runs while the supervisor is at each of its awaits, and that the role
\* task does not start the primary meanwhile; unless both have raced.
OneRuns ==
    /\ supervisor.doing \in {"resting", "probing"} => plugins \subseteq {group.active}
    /\ supervisor.doing = "switching" => plugins = {}
    /\ supervisor.doing = "judging" => plugins \subseteq {group.active, Primary}
    /\ RoleStarts => supervisor.doing = "resting" /\ group.active = Primary

SpeakInv ==
    /\ raced \/ OneRuns
    /\ routing = group.active \/ reset

LEMMA SpeakInit == ASSUME Init PROVE SpeakInv
BY DEF Init, SpeakInv, OneRuns, RoleStarts, Resting, Rebuilt

\* A race that ends leaves one member or none; only a race lets the role task
\* start what the supervisor does not know of.
LEMMA Raced ==
    ASSUME Watch, ~raced'
    PROVE  /\ raced => OneRuns'
           /\ RoleStarts' => supervisor'.doing = "resting"
BY DEF Watch, OneRuns, RoleStarts

\* The second half of supervise_groups leaves the active member alone.
LEMMA FailbackRuns ==
    ASSUME NEW g \in Group, NEW p, NEW s, Failback(g, p, s)
    PROVE  /\ group'.active = g.active
           /\ supervisor'.doing \in {"resting", "probing"}
BY DEF Failback, Resting, Group

LEMMA SupervisorSpeaks ==
    ASSUME TypeOK, SpeakInv, Supervise
    PROVE  SpeakInv'
<1> USE DEF RoleStarts
<1>1. Watch /\ UNCHANGED role
      BY DEF Supervise, Tick, Switch, Switched, Probed, Judge
<1>2. TypeOK /\ group \in Group /\ plugins \subseteq Instances /\ supervisor.starts \in Instances
      BY DEF TypeOK, Group
<1>3. CASE Tick
  <2>1. /\ Failback(Counted, plugins, status) /\ supervisor.doing = "resting"
        /\ UNCHANGED <<plugins, routing, reset>>
        BY <1>3 DEF Tick, Resting
  <2>2. Counted \in Group /\ Counted.active = group.active
        BY <1>2, GroupTypes DEF Counted, Group
  <2>3. /\ group'.active = group.active
        /\ supervisor'.doing \in {"resting", "probing"}
        BY <2>1, <2>2, FailbackRuns
  <2> QED
      BY <1>1, <2>1, <2>3, Raced DEF SpeakInv, OneRuns
<1>4. CASE Switch
  <2>1. /\ supervisor.doing = "resting" /\ supervisor'.doing = "switching"
        /\ plugins' = plugins \ {group.active}
        /\ UNCHANGED <<group, routing, reset>>
        BY <1>4 DEF Switch, TellToStop, Resting
  <2> QED
      BY <1>1, <2>1, Raced DEF SpeakInv, OneRuns
<1>5. CASE Switched
  <2> DEFINE i == supervisor.starts
  <2>1. supervisor.doing = "switching"
        BY <1>5 DEF Switched
  <2>2. CASE i \in broken
    <3>1. Failback(group, plugins, status) /\ UNCHANGED <<plugins, routing, reset>>
          BY <1>5, <2>2 DEF Switched
    <3>2. /\ group'.active = group.active
          /\ supervisor'.doing \in {"resting", "probing"}
          BY <1>2, <3>1, FailbackRuns
    <3> QED
        BY <1>1, <2>1, <3>1, <3>2, Raced DEF SpeakInv, OneRuns
  <2>3. CASE i \notin broken
    <3>1. /\ plugins' = plugins \cup {i} /\ routing' = i
          /\ Failback(Became(i), plugins', Connected(i))
          BY <1>5, <2>3 DEF Switched
    <3>2. Became(i) \in Group /\ Became(i).active = i
          BY <1>2, GroupTypes
    <3>3. /\ group'.active = i
          /\ supervisor'.doing \in {"resting", "probing"}
          BY <3>1, <3>2, FailbackRuns
    <3> QED
        BY <1>1, <2>1, <3>1, <3>3, Raced DEF SpeakInv, OneRuns
  <2> QED
      BY <2>2, <2>3
<1>6. CASE Probed
  <2>1. /\ supervisor.doing = "probing" /\ supervisor'.doing \in {"resting", "judging"}
        /\ supervisor'.doing = "resting" => plugins' = plugins
        /\ supervisor'.doing = "judging" => plugins' = plugins \cup {Primary}
        /\ UNCHANGED <<group, routing, reset>>
        BY <1>6 DEF Probed, Resting, Insert, registry, TypeOK
  <2> QED
      BY <1>1, <2>1, Raced DEF SpeakInv, OneRuns
<1>7. CASE Judge
  <2>1. supervisor.doing = "judging" /\ supervisor'.doing = "resting"
        BY <1>7 DEF Judge, Resting
  <2>2. CASE ~status[Primary].connected
    <3>1. plugins' = plugins \ {Primary} /\ UNCHANGED <<group, routing, reset>>
          BY <1>7, <2>2 DEF Judge, Shutdown, TellToStop
    <3> QED
        BY <1>1, <2>1, <3>1, Raced DEF SpeakInv, OneRuns
  <2>3. CASE status[Primary].connected /\ group.active # Primary
    <3>1. /\ plugins' = plugins \ {group.active} /\ routing' = Primary
          /\ group' = [Became(Primary) EXCEPT !.probeTicks = 0]
          BY <1>7, <2>3 DEF Judge, TakeOver, Shutdown, TellToStop
    <3>2. group'.active = Primary
          BY <3>1, <1>2, MemberFacts, GroupTypes DEF Group
    <3> QED
        BY <1>1, <2>1, <3>1, <3>2, Raced DEF SpeakInv, OneRuns
  <2>4. CASE status[Primary].connected /\ group.active = Primary
    <3>1. UNCHANGED <<plugins, group, routing, reset>>
          BY <1>7, <2>4 DEF Judge, registry
    <3> QED
        BY <1>1, <2>1, <2>4, <3>1, Raced DEF SpeakInv, OneRuns
  <2> QED
      BY <2>2, <2>3, <2>4, <1>7 DEF Judge
<1> QED
    BY <1>3, <1>4, <1>5, <1>6, <1>7 DEF Supervise

LEMMA RoleSpeaks == ASSUME TypeOK, SpeakInv, RoleStep PROVE SpeakInv'
<1>1. Watch /\ UNCHANGED supervisor
      BY DEF RoleStep, Start, Started, ProbeAnswered, Demote
<1>2. ASSUME NEW command, NEW awaits \in {"starting", "probing"},
             NEW otherwise \in {"resting", "waiting"},
             Start(command, awaits, otherwise)
      PROVE  SpeakInv'
  <2>1. UNCHANGED <<plugins, routing>> /\ role = "resting"
        BY <1>2 DEF Start
  <2>2. CASE plugins # {}
    <3>1. role' = otherwise /\ UNCHANGED <<group, reset>>
          BY <1>2, <2>2 DEF Start
    <3> QED
        BY <1>1, <2>1, <3>1, Raced DEF SpeakInv, OneRuns, RoleStarts
  <2>3. CASE plugins = {}
    <3>1. group'.active = Primary /\ reset' = (routing # Primary) /\ RoleStarts'
          BY <1>2, <2>3 DEF Start, Rebuilt, RoleStarts
    <3> QED
        BY <1>1, <2>1, <2>3, <3>1, Raced DEF SpeakInv, OneRuns
  <2> QED
      BY <2>2, <2>3
<1>3. CASE Started
  <2>1. /\ RoleStarts /\ ~RoleStarts'
        /\ plugins' \subseteq plugins \cup {Primary}
        /\ UNCHANGED <<group, routing, reset>>
        BY <1>3 DEF Started, RoleStarts, Insert, registry
  <2> QED
      BY <1>1, <2>1, Raced DEF SpeakInv, OneRuns
<1>4. CASE ProbeAnswered \/ Demote
  <2>1. /\ ~RoleStarts' /\ plugins' = plugins \ Instances
        /\ UNCHANGED <<group, routing, reset>>
        BY <1>4 DEF ProbeAnswered, Demote, RoleStarts, Shutdown, TellToStop
  <2>2. plugins' = {}
        BY <2>1 DEF TypeOK
  <2> QED
      BY <1>1, <2>1, <2>2, Raced DEF SpeakInv, OneRuns
<1> QED
    BY <1>2, <1>3, <1>4 DEF RoleStep

LEMMA SpeakStep == ASSUME TypeOK, SpeakInv, [Next]_vars PROVE SpeakInv'
<1>1. ASSUME UNCHANGED <<role, plugins, routing, supervisor, raced, reset>>,
             group'.active = group.active
      PROVE  SpeakInv'
      BY <1>1 DEF SpeakInv, OneRuns, RoleStarts
<1>2. CASE Cool
  <2>1. group'.active = group.active
        BY <1>2 DEF Cool, TypeOK
  <2> QED
      BY <1>1, <1>2, <2>1 DEF Cool, registry
<1>3. ASSUME NEW i \in Instances, Scan(i) \/ Stop(i) \/ Expire(i) \/ Turn(i)
      PROVE  SpeakInv'
      BY <1>1, <1>3 DEF Scan, Stop, Expire, Turn, registry
<1>4. ASSUME NEW command, NEW before, NEW after, Command(command, before, after)
      PROVE  SpeakInv'
      BY <1>1, <1>4 DEF Command, registry
<1>5. CASE UNCHANGED vars
      BY <1>1, <1>5 DEF vars, registry
<1> QED
    BY <1>2, <1>3, <1>4, <1>5, SupervisorSpeaks, RoleSpeaks DEF Next, Supervise

\* However failovers, probes and failbacks of the supervisor meet promotions,
\* demotions and probes of the node: between the supervisor's decisions at most
\* one member runs, the active one, and its values are the ones let through,
\* but for the races and the routing that OneSpeaks names.
THEOREM OneMemberSpeaks == Spec => []OneSpeaks
<1>1. ASSUME TypeOK, SpeakInv
      PROVE  OneSpeaks
      BY <1>1 DEF SpeakInv, OneRuns, OneSpeaks, Resting
<1> QED
    BY <1>1, TypeCorrect, SpeakInit, SpeakStep, PTL DEF Spec

-----------------------------------------------------------------------------
(* The realtime client.                                                      *)

ClientType ==
    [ws : Socket \cup {NoSocket}, reconnectTimer : BOOLEAN, heartbeat : BOOLEAN,
     shouldReconnect : BOOLEAN, urlIndex : RT!UrlIndex, urls : AddressLists,
     status : RT!Status, gaveUp : BOOLEAN]

SocketType ==
    {RT!Gone} \cup [state : {"connecting", "open", "closing"}, addr : Address]

EditorType == [sim : BOOLEAN, preview : BOOLEAN, anim : BOOLEAN, random : BOOLEAN]

\* NeverGivesUp and StaysDown of fields c and sockets k.
Trying(c, k) ==
    /\ c.shouldReconnect => \/ c.reconnectTimer \/ c.gaveUp
                           \/ \E s \in Socket : k[s] # RT!Gone
    /\ ~c.shouldReconnect => ~c.reconnectTimer

\* The socket the client knows exists.
Known(c, k) == c.ws # NoSocket => k[c.ws] # RT!Gone

Playing(e) == e.anim = (e.sim \/ e.preview)

RealtimeInv ==
    /\ client \in ClientType /\ sock \in [Socket -> SocketType]
    /\ up \subseteq Address /\ simulator \in [connecting : BOOLEAN, scan : BOOLEAN]
    /\ active \in RT!Source /\ chosen \in RT!Source
    /\ editor \in EditorType
    /\ Trying(client, sock) /\ Known(client, sock) /\ Playing(editor)

LEMMA RealtimeIs ==
    RealtimeInv => RT!TypeOK /\ ConnectsAsAsked /\ AnimationsRun
BY DEF RealtimeInv, RT!TypeOK, ClientType, SocketType, EditorType, Trying, Playing,
       ConnectsAsAsked, AnimationsRun, RT!NeverGivesUp, RT!StaysDown, RT!AnimationsRun

LEMMA IndexFacts ==
    ASSUME NEW i \in Nat, NEW n \in Nat \ {0}
    PROVE  (i + 1) % n \in 0..(n - 1) /\ (IF i < n THEN i + 1 ELSE 1) \in 1..n
BY SMT

LEMMA AddressFacts ==
    ASSUME NEW c \in ClientType
    PROVE  /\ RT!CurrentAddress(c) \in Address
           /\ (c.urlIndex + 1) % Len(c.urls) \in RT!UrlIndex
<1>1. c.urls \in Seq(Address) /\ Len(c.urls) \in Nat \ {0} /\ c.urlIndex \in Nat
  <2>1. c.urls \in AddressLists /\ c.urls \in Seq(Address) /\ c.urls # << >>
        BY RealtimeAssumption DEF ClientType
  <2>2. Len(c.urls) \in Nat \ {0}
        BY <2>1
  <2>3. \A urls \in AddressLists : Len(urls) \in Nat
        BY RealtimeAssumption
  <2>4. c.urlIndex \in Nat
        BY <2>3 DEF ClientType, RT!UrlIndex
  <2> QED
      BY <2>1, <2>2, <2>4
<1>2. (c.urlIndex + 1) % Len(c.urls) \in RT!UrlIndex
  <2>1. (c.urlIndex + 1) % Len(c.urls) \in 0..(Len(c.urls) - 1)
        BY <1>1, IndexFacts, Zenon
  <2> QED
      BY <2>1 DEF ClientType, RT!UrlIndex
<1>3. RT!CurrentAddress(c) \in Address
  <2>1. DOMAIN c.urls = 1..Len(c.urls) /\ \A i \in 1..Len(c.urls) : c.urls[i] \in Address
        BY <1>1
  <2>2. (IF c.urlIndex < Len(c.urls) THEN c.urlIndex + 1 ELSE 1) \in 1..Len(c.urls)
        BY <1>1, IndexFacts, Zenon
  <2> QED
      BY <2>1, <2>2 DEF RT!CurrentAddress
<1> QED
    BY <1>2, <1>3

\* A socket that starts, or one that ends.
LEMMA SocketFacts ==
    /\ RT!Gone \in SocketType
    /\ \A a \in Address : /\ [state |-> "connecting", addr |-> a] \in SocketType
                          /\ [state |-> "connecting", addr |-> a] # RT!Gone
    /\ \A x \in SocketType : x # RT!Gone =>
          /\ x.state # "none"
          /\ [x EXCEPT !.state = "open"] \in SocketType \ {RT!Gone}
          /\ [x EXCEPT !.state = "closing"] \in SocketType \ {RT!Gone}
BY DEF RT!Gone, SocketType

\* disconnect(): the fields of a client that is not to connect.
LEMMA DisconnectedFits ==
    ASSUME NEW c \in ClientType
    PROVE  /\ RT!Disconnected(c) \in ClientType
           /\ RT!Disconnected(c).ws = NoSocket
           /\ \A k : Trying(RT!Disconnected(c), k)
           /\ \A urls \in AddressLists :
                 /\ [RT!Disconnected(c) EXCEPT !.urls = urls] \in ClientType
                 /\ [RT!Disconnected(c) EXCEPT !.urls = urls].ws = NoSocket
                 /\ \A k : Trying([RT!Disconnected(c) EXCEPT !.urls = urls], k)
BY DEF RT!Disconnected, ClientType, RT!Status, Trying

\* onclose, for whichever socket.
LEMMA ClosedFits ==
    ASSUME NEW c \in ClientType, NEW k, ~c.shouldReconnect => ~c.reconnectTimer
    PROVE  RT!Closed(c) \in ClientType /\ Trying(RT!Closed(c), k)
<1> DEFINE n == (c.urlIndex + 1) % Len(c.urls)
<1>1. n \in RT!UrlIndex
      BY AddressFacts
<1>2. RT!Closed(c) = [c EXCEPT !.ws = NoSocket, !.heartbeat = FALSE,
                               !.status = "disconnected", !.urlIndex = n,
                               !.reconnectTimer = @ \/ c.shouldReconnect]
      BY DEF RT!Closed, ClientType
<1> HIDE DEF n
<1>3. c.reconnectTimer \in BOOLEAN /\ c.shouldReconnect \in BOOLEAN
      BY DEF ClientType
<1>4. RT!Closed(c) \in ClientType
      BY <1>1, <1>2, <1>3 DEF ClientType, RT!Status
<1>5. /\ RT!Closed(c).shouldReconnect = c.shouldReconnect
      /\ RT!Closed(c).reconnectTimer = (c.reconnectTimer \/ c.shouldReconnect)
      BY <1>2 DEF ClientType
<1> QED
    BY <1>3, <1>4, <1>5 DEF Trying

\* connect(): a socket starts, is open, or the constructor throws.
LEMMA ConnectFits ==
    ASSUME NEW c \in ClientType, NEW k \in [Socket -> SocketType],
           RT!ConnectFrom(c, k), ~c.shouldReconnect => ~c.reconnectTimer, Known(c, k)
    PROVE  /\ client' \in ClientType /\ sock' \in [Socket -> SocketType]
           /\ Trying(client', sock') /\ Known(client', sock')
<1> DEFINE a == RT!CurrentAddress(c)
           w == [c EXCEPT !.shouldReconnect = TRUE, !.status = "connecting",
                          !.gaveUp = a \in Malformed]
<1>1. a \in Address
      BY AddressFacts
<1>2. CASE c.ws # NoSocket /\ k[c.ws].state = "open"
  <2>1. client' = c /\ sock' = k
        BY <1>2 DEF RT!ConnectFrom
  <2>2. c.ws \in Socket /\ k[c.ws] # RT!Gone
        BY <1>2 DEF ClientType, RT!Gone
  <2> QED
      BY <2>1, <2>2 DEF Trying
<1>3. CASE ~(c.ws # NoSocket /\ k[c.ws].state = "open")
  <2>1. /\ client' = w
        /\ IF a \in Malformed
           THEN sock' = k
           ELSE \E s \in Socket :
                   sock' = [k EXCEPT ![s] = [state |-> "connecting", addr |-> a]]
        BY <1>3 DEF RT!ConnectFrom
  <2>2. /\ w \in ClientType /\ w.shouldReconnect = TRUE /\ w.ws = c.ws
        /\ w.gaveUp = (a \in Malformed)
    <3>1. ASSUME NEW b \in BOOLEAN, b = (a \in Malformed)
          PROVE  /\ w \in ClientType /\ w.shouldReconnect = TRUE /\ w.ws = c.ws
                 /\ w.gaveUp = (a \in Malformed)
      <4>1. w = [c EXCEPT !.shouldReconnect = TRUE, !.status = "connecting", !.gaveUp = b]
            BY <3>1
      <4> QED
          BY <3>1, <4>1 DEF ClientType, RT!Status
    <3>2. (a \in Malformed) = TRUE \/ (a \in Malformed) = FALSE
          OBVIOUS
    <3> QED
        BY <3>1, <3>2
  <2> HIDE DEF a, w
  <2>3. CASE a \in Malformed
        BY <2>1, <2>2, <2>3 DEF Trying, Known
  <2>4. CASE a \notin Malformed
    <3>1. PICK s \in Socket :
              sock' = [k EXCEPT ![s] = [state |-> "connecting", addr |-> a]]
          BY <2>1, <2>4
    <3>2. /\ sock' \in [Socket -> SocketType]
          /\ sock'[s] = [state |-> "connecting", addr |-> a]
          /\ \A t \in Socket \ {s} : sock'[t] = k[t]
          BY <1>1, <3>1, SocketFacts
    <3>3. sock'[s] # RT!Gone
          BY <1>1, <3>2, SocketFacts
    <3>4. Known(client', sock')
          BY <2>1, <2>2, <3>2, <3>3 DEF Known, ClientType
    <3> QED
        BY <2>1, <2>2, <3>2, <3>3, <3>4 DEF Trying
  <2> QED
      BY <2>3, <2>4
<1> QED
    BY <1>2, <1>3

LEMMA RealtimeStart == ASSUME RT!Init PROVE RealtimeInv
<1>1. /\ client \in ClientType /\ sock \in [Socket -> SocketType]
  <2>1. \A urls \in AddressLists : Len(urls) \in Nat \ {0}
        BY RealtimeAssumption
  <2>2. \A urls \in AddressLists : 0 \in 0..(Len(urls) - 1)
        BY <2>1
  <2>3. \A urls \in AddressLists : 0 \in RT!UrlIndex
        BY <2>2 DEF RT!UrlIndex
  <2> QED
      BY <2>3, SocketFacts DEF RT!Init, ClientType, RT!Status
<1>2. Trying(client, sock) /\ Known(client, sock)
      BY <1>1 DEF RT!Init, Trying, Known
<1>3. editor \in EditorType /\ Playing(editor)
      BY DEF RT!Init, EditorType, Playing
<1>4. /\ up \subseteq Address /\ simulator \in [connecting : BOOLEAN, scan : BOOLEAN]
      /\ active \in RT!Source /\ chosen \in RT!Source
      BY DEF RT!Init, RT!Source
<1> QED
    BY <1>1, <1>2, <1>3, <1>4 DEF RealtimeInv

\* The socket the client knows is closed.
LEMMA ClosingFits ==
    ASSUME NEW c \in ClientType, NEW k \in [Socket -> SocketType], Known(c, k)
    PROVE  (IF c.ws # NoSocket THEN [k EXCEPT ![c.ws].state = "closing"] ELSE k)
               \in [Socket -> SocketType]
<1>1. CASE c.ws # NoSocket
  <2>1. PICK s \in Socket : c.ws = s
        BY <1>1 DEF ClientType
  <2>2. [k[s] EXCEPT !.state = "closing"] \in SocketType
        BY <1>1, <2>1, SocketFacts DEF Known
  <2> QED
      BY <1>1, <2>1, <2>2
<1> QED
    BY <1>1

\* What the browser tells the client.
LEMMA SocketKeeps ==
    ASSUME RealtimeInv, NEW s \in Socket, RT!SocketStep(s) \/ RT!Drop(s)
    PROVE  RealtimeInv'
<1> DEFINE Opened == [client EXCEPT !.ws = s, !.status = "connected", !.heartbeat = TRUE]
<1>1. /\ client \in ClientType /\ sock \in [Socket -> SocketType]
      /\ Trying(client, sock) /\ Known(client, sock)
      BY DEF RealtimeInv
<1>2. UNCHANGED <<up, simulator, active, chosen, editor>>
      BY DEF RT!SocketStep, RT!Drop, RT!OnOpen, RT!OnError, RT!OnClose
<1>3. CASE RT!OnOpen(s)
  <2>1. sock[s] # RT!Gone /\ client' = Opened /\ sock' = [sock EXCEPT ![s].state = "open"]
        BY <1>3 DEF RT!OnOpen, RT!Gone
  <2>2. sock' \in [Socket -> SocketType] /\ sock'[s] # RT!Gone
        BY <1>1, <2>1, SocketFacts
  <2>3. /\ Opened \in ClientType /\ Opened.ws = s
        /\ Opened.shouldReconnect = client.shouldReconnect
        /\ Opened.reconnectTimer = client.reconnectTimer
        BY <1>1 DEF ClientType, RT!Status
  <2> HIDE DEF Opened
  <2>4. Trying(client', sock') /\ Known(client', sock')
        BY <1>1, <2>1, <2>2, <2>3 DEF Trying, Known
  <2> QED
      BY <1>2, <2>1, <2>2, <2>3, <2>4 DEF RealtimeInv
<1>4. CASE RT!OnError(s) \/ RT!OnClose(s)
  <2>1. client' = RT!Closed(client) /\ sock' = [sock EXCEPT ![s] = RT!Gone]
        BY <1>4 DEF RT!OnError, RT!OnClose
  <2>2. sock' \in [Socket -> SocketType]
        BY <1>1, <2>1, SocketFacts
  <2>3. client' \in ClientType /\ Trying(client', sock')
        BY <1>1, <2>1, ClosedFits DEF Trying
  <2>4. Known(client', sock')
        BY <1>1, <2>1 DEF RT!Closed, ClientType, Known
  <2> QED
      BY <1>2, <2>2, <2>3, <2>4 DEF RealtimeInv
<1>5. CASE RT!Drop(s)
  <2>1. /\ sock[s] # RT!Gone /\ client' = client
        /\ sock' = [sock EXCEPT ![s].state = "closing"]
        BY <1>5 DEF RT!Drop, RT!Gone
  <2>2. /\ sock' \in [Socket -> SocketType] /\ sock'[s] # RT!Gone
        /\ \A t \in Socket \ {s} : sock'[t] = sock[t]
        BY <1>1, <2>1, SocketFacts
  <2>3. Trying(client', sock') /\ Known(client', sock')
        BY <1>1, <2>1, <2>2 DEF Trying, Known, ClientType
  <2> QED
      BY <1>1, <1>2, <2>1, <2>2, <2>3 DEF RealtimeInv
<1> QED
    BY <1>3, <1>4, <1>5 DEF RT!SocketStep

LEMMA TimerKeeps ==
    ASSUME RealtimeInv, RT!ReconnectTimer
    PROVE  RealtimeInv'
<1> DEFINE c == [client EXCEPT !.reconnectTimer = FALSE, !.status = "connecting"]
<1>1. RT!ConnectFrom(c, sock) /\ UNCHANGED <<up, simulator, active, chosen, editor>>
      BY DEF RT!ReconnectTimer
<1>2. /\ c \in ClientType /\ c.ws = client.ws /\ ~c.reconnectTimer
      BY DEF RealtimeInv, ClientType, RT!Status
<1> HIDE DEF c
<1>3. Known(c, sock) /\ sock \in [Socket -> SocketType]
      BY <1>2 DEF RealtimeInv, Known
<1>4. /\ client' \in ClientType /\ sock' \in [Socket -> SocketType]
      /\ Trying(client', sock') /\ Known(client', sock')
      BY <1>1, <1>2, <1>3, ConnectFits
<1> QED
    BY <1>1, <1>4 DEF RealtimeInv

\* The switches keep the animations as they should be.
LEMMA SwitchFacts ==
    ASSUME NEW e \in EditorType, Playing(e)
    PROVE  /\ RT!SimulationStopped(e) \in EditorType /\ Playing(RT!SimulationStopped(e))
           /\ RT!Stopped(e) \in EditorType /\ Playing(RT!Stopped(e))
           /\ RT!SimulationStarted(e) \in EditorType /\ Playing(RT!SimulationStarted(e))
           /\ [e EXCEPT !.preview = FALSE, !.anim = e.sim] \in EditorType
           /\ Playing([e EXCEPT !.preview = FALSE, !.anim = e.sim])
           /\ [e EXCEPT !.preview = TRUE, !.anim = TRUE] \in EditorType
           /\ Playing([e EXCEPT !.preview = TRUE, !.anim = TRUE])
<1>1. /\ e.sim \in BOOLEAN /\ e.preview \in BOOLEAN /\ e.random \in BOOLEAN
      /\ e.anim \in BOOLEAN
      BY DEF EditorType
<1>2. RT!SimulationStopped(e) \in EditorType /\ Playing(RT!SimulationStopped(e))
      BY <1>1 DEF RT!SimulationStopped, EditorType, Playing
<1>3. RT!Stopped(e) \in EditorType /\ Playing(RT!Stopped(e))
      BY <1>1 DEF RT!Stopped, EditorType, Playing
<1>4. RT!SimulationStarted(e) \in EditorType /\ Playing(RT!SimulationStarted(e))
      BY <1>1 DEF RT!SimulationStarted, EditorType, Playing
<1>5. /\ [e EXCEPT !.preview = FALSE, !.anim = e.sim] \in EditorType
      /\ Playing([e EXCEPT !.preview = FALSE, !.anim = e.sim])
      BY <1>1 DEF EditorType, Playing
<1>6. /\ [e EXCEPT !.preview = TRUE, !.anim = TRUE] \in EditorType
      /\ Playing([e EXCEPT !.preview = TRUE, !.anim = TRUE])
      BY <1>1 DEF EditorType, Playing
<1> QED
    BY <1>2, <1>3, <1>4, <1>5, <1>6

LEMMA EndSimulationFits ==
    ASSUME RealtimeInv
    PROVE  /\ RT!EndSimulation \in EditorType /\ Playing(RT!EndSimulation)
           /\ RT!Stopped(RT!EndSimulation) \in EditorType
           /\ Playing(RT!Stopped(RT!EndSimulation))
<1>1. editor \in EditorType /\ Playing(editor)
      BY DEF RealtimeInv
<1>2. RT!EndSimulation \in EditorType /\ Playing(RT!EndSimulation)
      BY <1>1, SwitchFacts DEF RT!EndSimulation
<1> QED
    BY <1>2, SwitchFacts

LEMMA SimulatorFits ==
    ASSUME NEW m \in [connecting : BOOLEAN, scan : BOOLEAN]
    PROVE  /\ RT!SimulatorStops(m) \in [connecting : BOOLEAN, scan : BOOLEAN]
           /\ RT!SimulatorConnects(m) \in [connecting : BOOLEAN, scan : BOOLEAN]
BY DEF RT!SimulatorStops, RT!SimulatorConnects

\* disconnect(), and every button that does nothing else to the connection.
LEMMA DisconnectKeeps ==
    ASSUME RealtimeInv, client' = RT!Disconnected(client), sock' = RT!Closing(client)
    PROVE  /\ client' \in ClientType /\ sock' \in [Socket -> SocketType]
           /\ Trying(client', sock') /\ Known(client', sock')
<1>1. client \in ClientType /\ sock \in [Socket -> SocketType] /\ Known(client, sock)
      BY DEF RealtimeInv
<1>2. sock' \in [Socket -> SocketType]
      BY <1>1, ClosingFits DEF RT!Closing
<1> QED
    BY <1>1, <1>2, DisconnectedFits DEF Known

LEMMA SwitchesKeep ==
    ASSUME RealtimeInv,
           \/ RT!ToggleSimulation \/ RT!TogglePreview \/ RT!Disconnect
           \/ RT!SimulatorReady \/ RT!Imported
           \/ \E a \in Address : RT!Turn(a)
    PROVE  RealtimeInv'
<1> USE DEF RT!sockets
<1>1. /\ editor \in EditorType /\ Playing(editor)
      /\ simulator \in [connecting : BOOLEAN, scan : BOOLEAN]
      BY DEF RealtimeInv
<1>2. CASE RT!ToggleSimulation
  <2>1. CASE editor.sim
    <3>1. /\ client' = RT!Disconnected(client) /\ sock' = RT!Closing(client)
          /\ editor' = RT!SimulationStopped(editor)
          /\ simulator' = RT!SimulatorStops(simulator)
          /\ UNCHANGED <<up, active, chosen>>
          BY <1>2, <2>1 DEF RT!ToggleSimulation
    <3>2. editor' \in EditorType /\ Playing(editor')
          BY <1>1, <3>1, SwitchFacts
    <3>3. simulator' \in [connecting : BOOLEAN, scan : BOOLEAN]
          BY <1>1, <3>1, SimulatorFits
    <3> QED
        BY <3>1, <3>2, <3>3, DisconnectKeeps DEF RealtimeInv
  <2>2. CASE ~editor.sim
    <3>1. /\ editor' = RT!SimulationStarted(editor)
          /\ UNCHANGED <<client, sock, simulator, up, active, chosen>>
          BY <1>2, <2>2 DEF RT!ToggleSimulation
    <3>2. editor' \in EditorType /\ Playing(editor')
          BY <1>1, <3>1, SwitchFacts
    <3> QED
        BY <3>1, <3>2 DEF RealtimeInv
  <2> QED
      BY <2>1, <2>2
<1>3. CASE RT!TogglePreview
  <2>1. editor' \in EditorType /\ Playing(editor')
        BY <1>1, <1>3, SwitchFacts DEF RT!TogglePreview
  <2> QED
      BY <1>3, <2>1 DEF RT!TogglePreview, RealtimeInv
<1>4. CASE RT!Disconnect
  <2>1. /\ editor' \in EditorType /\ Playing(editor')
        /\ simulator' \in [connecting : BOOLEAN, scan : BOOLEAN]
        BY <1>1, <1>4, EndSimulationFits, SimulatorFits DEF RT!Disconnect
  <2> QED
      BY <1>4, <2>1, DisconnectKeeps DEF RT!Disconnect, RealtimeInv
<1>5. CASE RT!SimulatorReady
      BY <1>5 DEF RT!SimulatorReady, RealtimeInv
<1>6. CASE RT!Imported
  <2>1. editor' = RT!Stopped(editor) /\ UNCHANGED <<client, sock, up, simulator, active, chosen>>
        BY <1>6 DEF RT!Imported, RT!Stopped
  <2>2. editor' \in EditorType /\ Playing(editor')
        BY <1>1, <2>1, SwitchFacts
  <2> QED
      BY <2>1, <2>2 DEF RealtimeInv
<1>7. ASSUME NEW a \in Address, RT!Turn(a)
      PROVE  RealtimeInv'
      BY <1>7 DEF RT!Turn, RealtimeInv
<1> QED
    BY <1>2, <1>3, <1>4, <1>5, <1>6, <1>7

\* updateConfig({urls})
LEMMA UpdateConfigFits ==
    ASSUME NEW c \in ClientType, NEW k \in [Socket -> SocketType], Known(c, k),
           NEW urls \in AddressLists, RT!UpdateConfig(c, k, urls)
    PROVE  /\ client' \in ClientType /\ sock' \in [Socket -> SocketType]
           /\ Trying(client', sock') /\ Known(client', sock')
<1> DEFINE d == [RT!Disconnected(c) EXCEPT !.urls = urls]
           j == IF c.ws # NoSocket THEN [k EXCEPT ![c.ws].state = "closing"] ELSE k
<1>1. d \in ClientType /\ d.ws = NoSocket /\ \A x : Trying(d, x)
      BY DisconnectedFits
<1>2. j \in [Socket -> SocketType]
      BY ClosingFits
<1>3. RT!ConnectFrom(d, j) \/ (client' = d /\ sock' = j)
      BY DEF RT!UpdateConfig
<1> HIDE DEF d, j
<1>4. Known(d, j) /\ (~d.shouldReconnect => ~d.reconnectTimer)
      BY <1>1 DEF Known, Trying
<1>5. CASE RT!ConnectFrom(d, j)
      BY <1>1, <1>2, <1>4, <1>5, ConnectFits
<1>6. CASE client' = d /\ sock' = j
      BY <1>1, <1>2, <1>4, <1>6
<1> QED
    BY <1>3, <1>5, <1>6

LEMMA ChooseKeeps ==
    ASSUME RealtimeInv, NEW src \in RT!Source, NEW urls \in AddressLists,
           RT!ChooseSource(src, urls)
    PROVE  RealtimeInv'
<1> DEFINE stops == editor.sim \/ active # "simulation"
           c == IF stops THEN RT!Disconnected(client) ELSE client
           k == IF stops THEN RT!Closing(client) ELSE sock
<1>1. /\ client \in ClientType /\ sock \in [Socket -> SocketType]
      /\ Trying(client, sock) /\ Known(client, sock)
      /\ simulator \in [connecting : BOOLEAN, scan : BOOLEAN]
      BY DEF RealtimeInv
<1>2. /\ c \in ClientType /\ k \in [Socket -> SocketType]
      /\ Trying(c, k) /\ Known(c, k)
  <2>1. CASE stops
    <3>1. RT!Closing(client) \in [Socket -> SocketType]
          BY <1>1, ClosingFits DEF RT!Closing
    <3> QED
        BY <1>1, <2>1, <3>1, DisconnectedFits DEF Known
  <2>2. CASE ~stops
        BY <1>1, <2>2
  <2> QED
      BY <2>1, <2>2
<1>3. /\ chosen' = src /\ UNCHANGED <<up, active>>
      /\ editor' = RT!Stopped(RT!EndSimulation) \/ editor' = RT!EndSimulation
      /\ simulator' = RT!SimulatorStops(simulator) \/ simulator' = simulator
      /\ RT!UpdateConfig(c, k, urls) \/ (client' = c /\ sock' = k)
      BY DEF RT!ChooseSource
<1> HIDE DEF c, k
<1>4. editor' \in EditorType /\ Playing(editor')
      BY <1>3, EndSimulationFits
<1>5. simulator' \in [connecting : BOOLEAN, scan : BOOLEAN]
      BY <1>1, <1>3, SimulatorFits
<1>6. /\ client' \in ClientType /\ sock' \in [Socket -> SocketType]
      /\ Trying(client', sock') /\ Known(client', sock')
      BY <1>2, <1>3, UpdateConfigFits
<1> QED
    BY <1>3, <1>4, <1>5, <1>6 DEF RealtimeInv

LEMMA ConnectKeeps ==
    ASSUME RealtimeInv, NEW urls \in AddressLists, RT!Connect(urls)
    PROVE  RealtimeInv'
<1> DEFINE c == IF chosen = "io_backend"
                THEN [RT!Disconnected(client) EXCEPT !.urls = urls]
                ELSE RT!Disconnected(client)
           k == RT!Closing(client)
<1>1. /\ client \in ClientType /\ sock \in [Socket -> SocketType] /\ Known(client, sock)
      /\ simulator \in [connecting : BOOLEAN, scan : BOOLEAN] /\ chosen \in RT!Source
      BY DEF RealtimeInv
<1>2. c \in ClientType /\ c.ws = NoSocket /\ \A x : Trying(c, x)
      BY <1>1, DisconnectedFits
<1>3. k \in [Socket -> SocketType]
      BY <1>1, ClosingFits DEF RT!Closing
<1>4. /\ active' = chosen /\ UNCHANGED <<up, chosen>>
      /\ editor' = RT!Stopped(RT!EndSimulation)
      /\ \/ simulator' = RT!SimulatorConnects(RT!SimulatorStops(simulator))
         \/ simulator' = RT!SimulatorStops(simulator)
      /\ RT!ConnectFrom(c, k) \/ (client' = c /\ sock' = k)
      BY DEF RT!Connect, RT!SetActiveSource
<1> HIDE DEF c, k
<1>5. editor' \in EditorType /\ Playing(editor')
      BY <1>4, EndSimulationFits
<1>6. simulator' \in [connecting : BOOLEAN, scan : BOOLEAN]
      BY <1>1, <1>4, SimulatorFits
<1>7. Known(c, k) /\ (~c.shouldReconnect => ~c.reconnectTimer)
      BY <1>2 DEF Known, Trying
<1>8. /\ client' \in ClientType /\ sock' \in [Socket -> SocketType]
      /\ Trying(client', sock') /\ Known(client', sock')
      BY <1>2, <1>3, <1>4, <1>7, ConnectFits
<1> QED
    BY <1>1, <1>4, <1>5, <1>6, <1>8 DEF RealtimeInv

LEMMA RealtimeStep == ASSUME RealtimeInv, RT!Next PROVE RealtimeInv'
BY SocketKeeps, TimerKeeps, SwitchesKeep, ChooseKeeps, ConnectKeeps DEF RT!Next, RT!Panel

\* Both components keep their invariants, whichever runs.
LEMMA Together ==
    /\ InitOne => RealtimeInv /\ TypeOK
    /\ RealtimeInv /\ TypeOK /\ [NextOne]_<<part, vars, realtime>> =>
          RealtimeInv' /\ TypeOK'
<1>1. InitOne => RealtimeInv /\ TypeOK
      BY RealtimeStart, TypeInit DEF InitOne
<1>2. ASSUME RealtimeInv, UNCHANGED realtime
      PROVE  RealtimeInv'
      BY <1>2 DEF realtime, RealtimeInv
<1>3. ASSUME RealtimeInv, TypeOK, [NextOne]_<<part, vars, realtime>>
      PROVE  RealtimeInv' /\ TypeOK'
  <2>1. CASE RT!Next /\ UNCHANGED vars
        BY <1>3, <2>1, RealtimeStep, TypeStep
  <2>2. CASE Next /\ UNCHANGED realtime
        BY <1>2, <1>3, <2>2, TypeStep
  <2>3. CASE UNCHANGED <<part, vars, realtime>>
        BY <1>2, <1>3, <2>3, TypeStep
  <2> QED
      BY <1>3, <2>1, <2>2, <2>3 DEF NextOne
<1> QED
    BY <1>1, <1>3

LEMMA BothAlways == SpecOne => [](RealtimeInv /\ TypeOK)
BY Together, PTL DEF SpecOne

\* Types and ranges of the variables of both components.
THEOREM TypesCorrect == SpecOne => []TypesOK
<1>1. RealtimeInv /\ TypeOK => TypesOK
      BY RealtimeIs DEF TypesOK
<1> QED
    BY <1>1, BothAlways, PTL

\* A client that should be connected has a timer or a socket under way, unless
\* the constructor has thrown; one that should not has no timer left: connect,
\* disconnect, onclose and scheduleReconnect with sockets that outlive the
\* client's reference to them.
THEOREM ClientConnectsAsAsked == SpecOne => []ConnectsAsAsked
<1>1. RealtimeInv => ConnectsAsAsked
      BY RealtimeIs
<1> QED
    BY <1>1, BothAlways, PTL

\* The animations run exactly while the simulation or the preview needs them, in
\* whatever order switches, sources and connections are used: connectionSlice.
THEOREM AnimationsRunAsNeeded == SpecOne => []AnimationsRun
<1>1. RealtimeInv => AnimationsRun
      BY RealtimeIs
<1> QED
    BY <1>1, BothAlways, PTL
=============================================================================
