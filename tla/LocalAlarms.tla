---------------------------- MODULE LocalAlarms -----------------------------
(* The alarm engine the editor runs when it has no backend:                  *)
(* LocalAlarmEngine.ts with the predicates of alarmLogic.ts, used through    *)
(* the rule editor and the tables of AlarmCenter.tsx and AlarmPanel.tsx and  *)
(* started and stopped by toggleSimulation.                                  *)
(*                                                                           *)
(* All rules watch one variable.  Its list of SOE records, which the engine  *)
(* writes and never reads, and the texts of an occurrence are left out.      *)
EXTENDS Naturals, Sequences, FiniteSets, FiniteSetsExt

CONSTANTS
    Rule,           \* ids of rules
    NoRule,
    Condition,      \* conditions rules may have
    MaxOccurrences  \* bound: alarms raised since the last reset

VARIABLES
    rules,          \* of each id: the rule, or NoRule
    engine,         \* candidates, last point, occurrences and their lists
    running,        \* subscribed to the variables, with its timer set
    edited,         \* history: rules changed while a candidate of theirs waited
    narrowed        \* history: a query has replaced the list of recovered alarms

vars == <<rules, engine, running, edited, narrowed>>

Occurrence == 1..MaxOccurrences
Threshold  == 1
Setting    == [condition : Condition, enabled : BOOLEAN, confirm : BOOLEAN]
NoPoint    == [value |-> 0, quality |-> "none"]
Waiting(s) == [rule |-> s, elapsed |-> FALSE]     \* an entry copies its rule
NoEntry    == Waiting(NoRule)

\* Of an alarm: its rule, its status, whether it has acknowledgedAt and
\* recoveredAt, and the types of its events in order.
Raised(r, kind) ==
    [rule |-> r, status |-> IF kind = "change" THEN "recovered" ELSE "active",
     acked |-> FALSE, recovered |-> kind = "change", kind |-> kind,
     events |-> <<"trigger">>]

Reset == [confirm |-> [r \in Rule |-> NoEntry], last |-> NoPoint, occ |-> <<>>,
          active |-> {}, history |-> {}]

Init ==
    /\ rules = [r \in Rule |-> NoRule]
    /\ engine = Reset
    /\ running = FALSE /\ edited = {} /\ narrowed = FALSE

-----------------------------------------------------------------------------
(* alarmLogic                                                                *)

\* conditionTriggered
Triggered(s, n) ==
    \/ s.condition = "high"     /\ n > Threshold
    \/ s.condition = "low"      /\ n < Threshold
    \/ s.condition = "equal"    /\ n = Threshold
    \/ s.condition = "notEqual" /\ n # Threshold

\* shouldRecover, with a hysteresis of one: high and low recover one step away.
ShouldRecover(s, n) ==
    \/ s.condition = "high"     /\ n + 1 <= Threshold
    \/ s.condition = "low"      /\ n >= Threshold + 1
    \/ s.condition = "equal"    /\ n # Threshold
    \/ s.condition = "notEqual" /\ n = Threshold

-----------------------------------------------------------------------------
(* The engine, as functions on its fields.                                   *)

ActiveOf(e, r) == {o \in e.active : e.occ[o].rule = r}

Trigger(e, r, s) ==
    LET o == Len(e.occ) + 1
    IN  [e EXCEPT !.occ = Append(@, Raised(r, s.condition)),
                  !.active = IF s.condition = "change" THEN @ ELSE @ \cup {o},
                  !.history = IF s.condition = "change" THEN @ \cup {o} ELSE @]

RecoveredAlarm(a, reason) ==
    [a EXCEPT !.status = "recovered", !.recovered = TRUE, !.events = Append(@, reason)]

\* recoverByRule
Recover(e, r, reason) ==
    LET gone == ActiveOf(e, r)
    IN  [e EXCEPT !.active = @ \ gone, !.history = @ \cup gone,
                  !.occ = [o \in DOMAIN @ |->
                              IF o \in gone THEN RecoveredAlarm(@[o], reason) ELSE @[o]]]

AckedAlarm(a) ==
    [a EXCEPT !.status = "acknowledged", !.acked = TRUE, !.events = Append(@, "ack")]

\* applyAck
ApplyAck(e, os) ==
    [e EXCEPT !.occ = [o \in DOMAIN @ |->
                          IF o \in os THEN AckedAlarm(@[o]) ELSE @[o]]]

\* Faulty variant: the status alone is looked at.
AckableAgain(e) ==
    {o \in e.active : e.occ[o].status = "active"} \cup
    {o \in e.history : e.occ[o].status = "recovered"}

\* What may be acknowledged: an active alarm by its status, a recovered one also
\* by its time of acknowledgement.
Ackable(e) ==
    {o \in e.active : e.occ[o].status = "active"} \cup
    {o \in e.history : e.occ[o].status = "recovered" /\ ~e.occ[o].acked}

\* onLocalPoint for one enabled rule of the variable.
Evaluate(e, r, n, valueChanged) ==
    LET s == rules[r]
    IN  IF s.condition = "change"
        THEN IF valueChanged THEN Trigger(e, r, s) ELSE e
        ELSE IF Triggered(s, n) /\ ActiveOf(e, r) = {}
        THEN IF ~s.confirm THEN Trigger(e, r, s)
             ELSE IF e.confirm[r] = NoEntry THEN [e EXCEPT !.confirm[r] = Waiting(s)]
             ELSE e
        ELSE IF ShouldRecover(s, n)
        THEN Recover([e EXCEPT !.confirm[r] = NoEntry], r, "recover")
        ELSE e

Enabled == {r \in Rule : rules[r] # NoRule /\ rules[r].enabled}

\* onLocalPoint
Pointed(n, q) ==
    LET e == [engine EXCEPT !.last = [value |-> n, quality |-> q]]
        valueChanged == engine.last = NoPoint \/ engine.last.value # n
        Step(r, acc) == Evaluate(acc, r, n, valueChanged)
    IN  IF q = "good" THEN FoldSet(Step, e, Enabled) ELSE e

\* One entry in tickConfirm: judged by the copy of the rule it was made with.
Judged(e, r) ==
    LET s == e.confirm[r].rule
    IN  IF ~Triggered(s, e.last.value) THEN [e EXCEPT !.confirm[r] = NoEntry]
        ELSE IF e.confirm[r].elapsed
        THEN Trigger([e EXCEPT !.confirm[r] = NoEntry], r, s)
        ELSE e

Ticked ==
    LET Step(r, acc) == Judged(acc, r)
        waiting == {r \in Rule : engine.confirm[r] # NoEntry}
    IN  IF engine.last.quality = "good" THEN FoldSet(Step, engine, waiting) ELSE engine

-----------------------------------------------------------------------------
\* A change of the variable, from the simulation or the variable panel.
Point(n, q) ==
    /\ running
    /\ engine' = Pointed(n, q)
    /\ Len(engine'.occ) <= MaxOccurrences
    /\ UNCHANGED <<rules, running, edited, narrowed>>

\* Environment: confirmMs have passed since a candidate was noted.
Elapse(r) ==
    /\ engine.confirm[r] # NoEntry /\ ~engine.confirm[r].elapsed
    /\ engine' = [engine EXCEPT !.confirm[r].elapsed = TRUE]
    /\ UNCHANGED <<rules, running, edited, narrowed>>

TickConfirm ==
    /\ running
    /\ engine' = Ticked /\ engine' # engine
    /\ Len(engine'.occ) <= MaxOccurrences
    /\ UNCHANGED <<rules, running, edited, narrowed>>

\* Changed under a waiting candidate, which is not told.
Edits(r) == IF engine.confirm[r] # NoEntry THEN {r} ELSE {}

\* Faulty variant: the alarms of a rule that is switched off stay.
SavedQuietly(r, s) == engine

\* saveRule: a rule that is switched off ends its alarms.
Saved(r, s) == IF s.enabled THEN engine ELSE Recover(engine, r, "rule_disabled")

\* The rule editor: a new rule, or another setting of one.
SaveRule(r, s) ==
    /\ rules[r] # s
    /\ rules' = [rules EXCEPT ![r] = s]
    /\ engine' = Saved(r, s)
    /\ edited' = edited \cup Edits(r)
    /\ UNCHANGED <<running, narrowed>>

DeleteRule(r) ==
    /\ rules[r] # NoRule
    /\ rules' = [rules EXCEPT ![r] = NoRule]
    /\ engine' = Recover(engine, r, "rule_disabled")
    /\ edited' = edited \cup Edits(r)
    /\ UNCHANGED <<running, narrowed>>

\* The buttons of the tables: one alarm, or all of them.
Acknowledge(os) ==
    /\ os # {}
    /\ engine' = ApplyAck(engine, os)
    /\ UNCHANGED <<rules, running, edited, narrowed>>

\* queryHistory: a filter of the tables is applied to the list itself.
Matches(o, status) ==
    CASE status = "unacknowledged" -> ~engine.occ[o].acked
      [] status = "acknowledged"   -> engine.occ[o].acked
      [] status = "all"            -> TRUE
      [] OTHER                     -> engine.occ[o].status = status

QueryHistory(status) ==
    /\ engine' = [engine EXCEPT !.history = {o \in @ : Matches(o, status)}]
    /\ narrowed' = (narrowed \/ engine' # engine)
    /\ UNCHANGED <<rules, running, edited>>

\* toggleSimulation starts and stops it with the simulation.
Start ==
    /\ ~running /\ running' = TRUE
    /\ UNCHANGED <<rules, engine, edited, narrowed>>

Stop ==
    /\ running /\ running' = FALSE
    /\ UNCHANGED <<rules, engine, edited, narrowed>>

\* setMode: remote and back; the rules stay.
SwitchAndBack ==
    /\ running' = FALSE
    /\ engine' = Reset /\ edited' = {} /\ narrowed' = FALSE
    /\ UNCHANGED rules

RuleEditor == \E r \in Rule : DeleteRule(r) \/ \E s \in Setting : SaveRule(r, s)

AlarmPanel == (\E o \in Ackable(engine) : Acknowledge({o})) \/ Acknowledge(Ackable(engine))

AlarmCenter ==
    \E s \in {"all", "unacknowledged", "acknowledged", "active", "recovered"} : QueryHistory(s)

Next ==
    \/ \E n \in 0..2, q \in {"good", "bad"} : Point(n, q)
    \/ TickConfirm \/ \E r \in Rule : Elapse(r)
    \/ RuleEditor \/ AlarmPanel \/ AlarmCenter
    \/ Start \/ Stop \/ SwitchAndBack

Spec == Init /\ [][Next]_vars

-----------------------------------------------------------------------------
TypeOK ==
    /\ rules \in [Rule -> Setting \cup {NoRule}]
    /\ engine.active \cup engine.history \subseteq DOMAIN engine.occ
    /\ Len(engine.occ) <= MaxOccurrences
    /\ \A r \in Rule : engine.confirm[r].rule \in Setting \cup {NoRule}
    /\ running \in BOOLEAN /\ edited \subseteq Rule /\ narrowed \in BOOLEAN

\* An active alarm has a rule, that rule is enabled, and no second alarm of it is
\* active; except where a rule was changed, switched off or deleted while a
\* candidate of it was waiting, which goes on with the rule as it was.
AlarmStands ==
    \A o \in engine.active :
        LET r == engine.occ[o].rule
        IN  r \in edited \/ (r \in Enabled /\ ActiveOf(engine, r) = {o})

\* The events of an alarm tell what happened to it: it was raised once, it was
\* acknowledged at most once, whether before or after its recovery, and recovered
\* at most once; and it is never lost: it is in the list of active alarms until it
\* recovers and then in the history, unless a query has narrowed that list.
EventsTell ==
    \A o \in DOMAIN engine.occ :
        LET a == engine.occ[o]
            Times(kinds) == Cardinality({i \in DOMAIN a.events : a.events[i] \in kinds})
            Once(b) == IF b THEN 1 ELSE 0
        IN  /\ Times({"trigger"}) = 1
            /\ Times({"ack"}) = Once(a.acked)
            /\ Times({"recover", "rule_disabled"}) = Once(a.recovered /\ a.kind # "change")
            /\ o \in engine.active <=> ~a.recovered
            /\ a.recovered => o \in engine.history \/ narrowed
            /\ a.status = "active" => ~a.acked

\* The header of LocalAlarmEngine.ts: as in the backend's engine, no alarm of a
\* deleted or disabled rule is active.
RuleStands == \A o \in engine.active : engine.occ[o].rule \in Enabled
=============================================================================
