---------------------------- MODULE AlarmEngine ----------------------------
(* The alarm engine of the IO backend: crates/alarm/src/{engine,persist}.rs, *)
(* with its callers in crates/bridge, crates/web/src/api and                 *)
(* crates/bin/src/main.rs.  Four kinds of threads are in it at once:         *)
(*   bridge  on_point, for each value the PointManager lets through;         *)
(*   timer   tick, every 100 ms;                                             *)
(*   web     the REST handlers: acknowledge, save, delete or push rules;     *)
(*   role    start-up and promotion: replace_rules, rebuild.                 *)
(* The maps of the engine have a lock each, taken for one access; a step of  *)
(* the model is one such access.  Two locks are held across steps and are    *)
(* modelled: the read guard of rules (on_point, tick, rebuild) and the guard *)
(* of confirm while tick scans it.  Sent events go through one queue to the  *)
(* persister, which writes the database.  One point is modelled, over the    *)
(* threshold ("high"), within the hysteresis ("band") or "normal"; SOE       *)
(* records, severities and messages have no effect on alarms.                *)
EXTENDS Naturals, Sequences, FiniteSets

CONSTANTS
    Rules,          \* alarm rules on the point
    Web,            \* threads that serve REST requests
    InitialRules,   \* the rule maps the node may start with
    Settings,       \* settings an operator may save
    Values,         \* values the point may take
    MaxOccurrences, \* bound: alarms triggered
    Events,         \* what may happen: "edit", "promotion", "restart"
    MaxEvents,      \* bound: edits of the rules, promotions and restarts
    MaxQueue        \* bound: events waiting for the persister

Setting == {"now",      \* enabled, confirm_ms = 0
            "later",    \* enabled, confirm_ms > 0
            "change",   \* enabled, condition Change
            "off",      \* not enabled
            "gone"}     \* not in the rule map
Enabled == {"now", "later", "change"}
Value   == [level : {"high", "band", "normal"}, good : BOOLEAN]
Unknown == [level |-> "unknown", good |-> FALSE]
Thread  == {"bridge", "timer", "role"} \cup Web
Id      == 1..MaxOccurrences

ASSUME RuleSettings == /\ InitialRules \subseteq [Rules -> Setting]
                       /\ Settings \subseteq Setting \ {"gone"}
                       /\ Rules # {}
ASSUME PointValues == Values \subseteq Value
ASSUME Threads == Web \cap {"bridge", "timer", "role"} = {}
ASSUME EventKinds == Events \subseteq {"edit", "promotion", "restart"}
ASSUME Bounds == /\ MaxOccurrences \in Nat /\ MaxEvents \in Nat
                 /\ MaxQueue \in Nat

VARIABLES
    cache,      \* the PointManager's value of the point
    last,       \* last_values
    rules,      \* rules
    confirm,    \* rules with a candidate
    due,        \* candidates whose confirm_ms has passed
    occ,        \* the occurrences: rule, status, acknowledged_at, recovered_at
    active,     \* keys of the map active
    unacked,    \* keys of the map recovered_unacked
    restored,   \* occurrences loaded from the database at start-up
    hasty,      \* history: occurrences the timer has triggered for a rule
                \* that needs no confirmation (any more)
    serving,    \* the node is Active: plugins run
    readers,    \* threads that hold the read guard of rules
    writers,    \* threads that wait for the write guard of rules
    frame,      \* where each thread is, with its local variables
    queue,      \* out_tx: events on their way to the persister
    stored,     \* table alarm_rules
    db,         \* table alarm_occurrences
    events      \* edits, promotions and restarts so far

points  == <<cache, last>>
pending == <<confirm, due>>
alarms  == <<occ, active, unacked, restored, hasty>>
locks   == <<readers, writers>>
disk    == <<queue, stored, db>>
vars == <<points, rules, pending, alarms, serving, locks, frame, disk, events>>

Unused == [rule |-> CHOOSE r \in Rules : TRUE, status |-> "unused",
           acked |-> FALSE, over |-> FALSE]

Idle == [at   |-> "idle",       \* the access that comes next
         op   |-> "none",       \* the call being served
         work |-> {},           \* rules its loop has still to look at
         hand |-> {},           \* occurrences it has still to look at
         rule |-> Unused.rule,  \* the rule it works on
         item |-> 0,            \* the occurrence it works on
         new  |-> [r \in Rules |-> "gone"], \* the rules that replace_rules puts in place
         msg  |-> Unused]       \* the event it is about to send

At(t, l)  == frame[t].at = l
Put(t, f) == frame' = [frame EXCEPT ![t] = f]

Issued       == {i \in Id : occ[i].status # "unused"}
ActiveFor(r) == {i \in active : occ[i].rule = r}

Triggered(v)     == v.good /\ v.level = "high"
ShouldRecover(v) == v.good /\ v.level = "normal"

\* A std RwLock lets no reader in while a writer waits.
MayRead     == writers = {}
ConfirmFree == ~At("timer", "scan")
\* The guard of the PointManager is held during on_point and during rebuild.
ManagerFree == /\ At("bridge", "idle")
               /\ frame["role"].op = "rebuild" => At("role", "rebuild")

\* Environment: an event of kind k happens.
Happens(k) == k \in Events /\ events < MaxEvents /\ events' = events + 1

Init ==
    /\ cache = Unknown /\ last = Unknown
    /\ rules \in InitialRules /\ confirm = {} /\ due = {}
    /\ occ = [i \in Id |-> Unused] /\ active = {} /\ unacked = {}
    /\ restored = {} /\ hasty = {} /\ serving = TRUE /\ readers = {} /\ writers = {}
    /\ frame = [t \in Thread |-> Idle]
    /\ queue = <<>> /\ stored = rules /\ db = [i \in Id |-> Unused]
    /\ events = 0

-----------------------------------------------------------------------------
(* Where the threads meet: reading rules, triggering, recovering, sending.   *)

\* The frame of t when it is done with one rule or one occurrence.
Done(t) ==
    LET f == [frame[t] EXCEPT !.item = 0, !.msg = Unused] IN
    CASE t = "bridge"  -> [f EXCEPT !.at = "loop", !.work = @ \ {f.rule}]
      [] t = "timer"   -> [f EXCEPT !.at = "clear"]
      [] f.op = "ack"  -> Idle
      [] OTHER         -> [f EXCEPT !.at = "next"]

\* replace_rules recovers the alarms of the rules it removes or disables.
Dropped(new) == {r \in Rules : \/ rules[r] # "gone" /\ new[r] = "gone"
                               \/ rules[r] \in Enabled /\ new[r] = "off"}

\* The read guard of rules
Read(t) ==
    /\ At(t, "read") /\ MayRead
    /\ readers' = readers \cup {t}
    /\ Put(t, CASE t = "bridge" ->
                      [frame[t] EXCEPT !.at = "loop",
                                       !.work = {r \in Rules : rules[r] \in Enabled}]
                [] t = "timer" -> [frame[t] EXCEPT !.at = "loop"]
                [] frame[t].op = "replace" ->
                      [frame[t] EXCEPT !.at = "loop", !.work = Dropped(frame[t].new)]
                [] frame[t].op = "rebuild" -> [frame[t] EXCEPT !.at = "next"])
    /\ UNCHANGED <<points, rules, pending, alarms, serving, writers, disk, events>>

\* The loop over the rules ends and the guard is dropped.
LoopEnds(t) ==
    /\ At(t, "loop") /\ frame[t].work = {}
    /\ readers' = readers \ {t}
    /\ IF frame[t].op = "replace"
       THEN writers' = writers \cup {t} /\ Put(t, [frame[t] EXCEPT !.at = "write"])
       ELSE UNCHANGED writers /\ Put(t, Idle)
    /\ UNCHANGED <<points, rules, pending, alarms, serving, disk, events>>

\* trigger; trigger_change puts the occurrence straight into recovered_unacked.
Trigger(t) ==
    /\ At(t, "trigger") \/ At(t, "instant")
    /\ \E i \in Id \ Issued :
        LET instant == At(t, "instant")
            o == [rule |-> frame[t].rule, acked |-> FALSE, over |-> instant,
                  status |-> IF instant THEN "recovered" ELSE "active"] IN
        /\ \A j \in Id \ Issued : i <= j
        /\ occ' = [occ EXCEPT ![i] = o]
        /\ active' = IF instant THEN active ELSE active \cup {i}
        /\ unacked' = IF instant THEN unacked \cup {i} ELSE unacked
        /\ hasty' = IF t = "timer" /\ rules[o.rule] = "now" THEN hasty \cup {i}
                                                            ELSE hasty
        /\ Put(t, [frame[t] EXCEPT !.at = "send", !.item = i, !.msg = o])
    /\ UNCHANGED <<points, rules, pending, restored, serving, locks, disk, events>>

\* recover, the first half: somebody else may have recovered it already.
Remove(t) ==
    LET i == frame[t].item IN
    /\ At(t, "remove")
    /\ IF i \in active
       THEN /\ active' = active \ {i}
            /\ occ' = [occ EXCEPT ![i].status = "recovered", ![i].over = TRUE]
            /\ Put(t, [frame[t] EXCEPT !.at = "keep"])
       ELSE Put(t, Done(t)) /\ UNCHANGED <<active, occ>>
    /\ UNCHANGED <<points, rules, pending, unacked, restored, hasty, serving,
                   locks, disk, events>>

\* Faulty variant: acknowledged_at is not looked at.
KeepAlways(t) ==
    LET i == frame[t].item IN
    /\ At(t, "keep")
    /\ unacked' = unacked \cup {i}
    /\ Put(t, [frame[t] EXCEPT !.at = "send", !.msg = occ[i]])
    /\ UNCHANGED <<points, rules, pending, occ, active, restored, hasty,
                   serving, locks, disk, events>>

\* recover, the second half: keep it for the operator unless acknowledged.
Keep(t) ==
    LET i == frame[t].item IN
    /\ At(t, "keep")
    /\ unacked' = IF occ[i].acked THEN unacked ELSE unacked \cup {i}
    /\ Put(t, [frame[t] EXCEPT !.at = "send", !.msg = occ[i]])
    /\ UNCHANGED <<points, rules, pending, occ, active, restored, hasty,
                   serving, locks, disk, events>>

Send(t) ==
    /\ At(t, "send") /\ Len(queue) < MaxQueue
    /\ queue' = Append(queue, <<frame[t].item, frame[t].msg>>)
    /\ Put(t, Done(t))
    /\ UNCHANGED <<points, rules, pending, alarms, serving, locks, stored, db,
                   events>>

-----------------------------------------------------------------------------
(* Bridge: on_point.                                                         *)

\* PointManager::update lets a new value or quality through; on_point records
\* it and goes on only with a good value.
OnPoint(v) ==
    /\ serving /\ ManagerFree /\ v # cache
    /\ cache' = v /\ last' = v
    /\ Put("bridge", IF ~v.good THEN Idle
                     ELSE [Idle EXCEPT !.at = "read",
                                       !.op = IF v.level = last.level THEN "refresh"
                                                                      ELSE "change"])
    /\ UNCHANGED <<rules, pending, alarms, serving, locks, disk, events>>

\* What on_point does about a rule with a threshold.
ByValue(r) ==
    CASE Triggered(last) -> IF ActiveFor(r) # {} THEN "nothing"
                            ELSE IF rules[r] = "later" THEN "candidate" ELSE "trigger"
      [] ShouldRecover(last) -> "clear"
      [] OTHER -> "nothing"

\* Faulty variant: a rule is evaluated only when the value has changed.
VerdictIfChanged(r) ==
    IF frame["bridge"].op # "change" THEN "nothing"
    ELSE IF rules[r] = "change" THEN "instant" ELSE ByValue(r)

\* What on_point does about rule r
Verdict(r) ==
    IF rules[r] # "change" THEN ByValue(r)
    ELSE IF frame["bridge"].op = "change" THEN "instant" ELSE "nothing"

EvaluateRule(r) ==
    LET f == frame["bridge"] IN
    /\ At("bridge", "loop") /\ r \in f.work
    /\ Put("bridge", IF Verdict(r) = "nothing"
                     THEN [f EXCEPT !.work = @ \ {r}]
                     ELSE [f EXCEPT !.rule = r, !.at = Verdict(r)])
    /\ UNCHANGED <<points, rules, pending, alarms, serving, locks, disk, events>>

\* update_candidate keeps the time of a candidate that is there already.
UpdateCandidate ==
    /\ At("bridge", "candidate") /\ ConfirmFree
    /\ confirm' = confirm \cup {frame["bridge"].rule}
    /\ Put("bridge", Done("bridge"))
    /\ UNCHANGED <<points, rules, due, alarms, serving, locks, disk, events>>

Forget(rs) == confirm' = confirm \ rs /\ due' = due \ rs

\* clear_candidate, then active_id_for_rule
ClearAndFind ==
    LET f == frame["bridge"] IN
    /\ At("bridge", "clear") /\ ConfirmFree
    /\ Forget({f.rule})
    /\ \/ ActiveFor(f.rule) = {} /\ Put("bridge", Done("bridge"))
       \/ \E i \in ActiveFor(f.rule) :
              Put("bridge", [f EXCEPT !.at = "remove", !.item = i])
    /\ UNCHANGED <<points, rules, alarms, serving, locks, disk, events>>

BridgeStep == (\E r \in Rules : EvaluateRule(r)) \/ UpdateCandidate \/ ClearAndFind

-----------------------------------------------------------------------------
(* Timer: tick.                                                              *)

\* confirm_ms passes for a candidate.
Elapse(r) ==
    /\ r \in confirm \ due
    /\ due' = due \cup {r}
    /\ UNCHANGED <<points, rules, confirm, alarms, serving, locks, frame, disk,
                   events>>

TickLocksConfirm ==
    /\ At("timer", "idle") /\ confirm # {}
    /\ Put("timer", [Idle EXCEPT !.at = "scan"])
    /\ UNCHANGED <<points, rules, pending, alarms, serving, locks, disk, events>>

\* rule_confirm_ms takes the read guard while confirm is locked.
TickScans ==
    LET expired == {r \in confirm : r \in due \/ rules[r] \in {"now", "gone"}} IN
    /\ At("timer", "scan") /\ MayRead
    /\ Put("timer", IF expired = {} THEN Idle
                    ELSE [Idle EXCEPT !.at = "read", !.work = expired])
    /\ UNCHANGED <<points, rules, pending, alarms, serving, locks, disk, events>>

\* Faulty variant: tick does not ask for an active alarm of the rule.
ConfirmedAgain(r) == rules[r] \notin {"gone", "change"} /\ Triggered(last)

\* The rule is looked up whether it is enabled or not.
Confirmed(r) ==
    rules[r] \notin {"gone", "change"} /\ ActiveFor(r) = {} /\ Triggered(last)

TickJudges(r) ==
    /\ At("timer", "loop") /\ r \in frame["timer"].work
    /\ Put("timer", [frame["timer"] EXCEPT
                         !.rule = r, !.at = IF Confirmed(r) THEN "trigger" ELSE "clear"])
    /\ UNCHANGED <<points, rules, pending, alarms, serving, locks, disk, events>>

\* Faulty variant: a candidate that was judged stays.
TickLeavesCandidate ==
    LET f == frame["timer"] IN
    /\ At("timer", "clear")
    /\ Put("timer", [f EXCEPT !.at = "loop", !.work = @ \ {f.rule}])
    /\ UNCHANGED <<points, rules, pending, alarms, serving, locks, disk, events>>

TickClears ==
    LET f == frame["timer"] IN
    /\ At("timer", "clear")
    /\ Forget({f.rule})
    /\ Put("timer", [f EXCEPT !.at = "loop", !.work = @ \ {f.rule}])
    /\ UNCHANGED <<points, rules, alarms, serving, locks, disk, events>>

TimerStep == \/ TickLocksConfirm \/ TickScans \/ TickClears
             \/ \E r \in Rules : TickJudges(r)

-----------------------------------------------------------------------------
(* Web: acknowledge, save_alarm_rule, delete_alarm_rule, config push.        *)

Acked(o) == [o EXCEPT !.status = "acknowledged", !.acked = TRUE]

\* ack looks for the occurrence in active, then in recovered_unacked.
Ack(t, i) ==
    LET f == [Idle EXCEPT !.op = "ack", !.item = i] IN
    /\ At(t, "idle") /\ i \in Issued
    /\ IF i \in active /\ occ[i].status = "active"
       THEN /\ occ' = [occ EXCEPT ![i] = Acked(@)]
            /\ Put(t, [f EXCEPT !.at = "send", !.msg = occ'[i]])
       ELSE Put(t, [f EXCEPT !.at = "late"]) /\ UNCHANGED occ
    /\ UNCHANGED <<points, rules, pending, active, unacked, restored, hasty,
                   serving, locks, disk, events>>

AckRecovered(t) ==
    LET i == frame[t].item IN
    /\ At(t, "late")
    /\ IF i \in unacked
       THEN /\ unacked' = unacked \ {i}
            /\ occ' = [occ EXCEPT ![i] = Acked(@)]
            /\ Put(t, [frame[t] EXCEPT !.at = "send", !.msg = occ'[i]])
       ELSE Put(t, Idle) /\ UNCHANGED <<unacked, occ>>
    /\ UNCHANGED <<points, rules, pending, active, restored, hasty, serving,
                   locks, disk, events>>

\* Saved rules are in the database before set_rule asks for the write guard.
SaveRule(t, r, s) ==
    /\ At(t, "idle") /\ Happens("edit")
    /\ stored' = [stored EXCEPT ![r] = s]
    /\ writers' = writers \cup {t}
    /\ Put(t, [Idle EXCEPT !.at = "write", !.op = "save", !.rule = r,
                           !.new = [rules EXCEPT ![r] = s]])
    /\ UNCHANGED <<points, rules, pending, alarms, serving, readers, queue, db>>

\* remove_rule recovers the alarms of the rule first.
DeleteRule(t, r) ==
    /\ At(t, "idle") /\ Happens("edit")
    /\ Put(t, [Idle EXCEPT !.at = "list", !.op = "delete", !.rule = r,
                           !.new = [rules EXCEPT ![r] = "gone"]])
    /\ UNCHANGED <<points, rules, pending, alarms, serving, locks, disk>>

\* apply_config_snapshot, then replace_rules, whatever the state of the node
PushRules(t, new) ==
    /\ At(t, "idle") /\ Happens("edit")
    /\ stored' = new
    /\ Put(t, [Idle EXCEPT !.at = "read", !.op = "replace", !.new = new])
    /\ UNCHANGED <<points, rules, pending, alarms, serving, locks, queue, db>>

\* recover_rule lists the active alarms of a rule and recovers one by one.
ListAlarms(t) ==
    \E r \in Rules :
        /\ \/ At(t, "list") /\ r = frame[t].rule
           \/ At(t, "loop") /\ frame[t].op = "replace" /\ r \in frame[t].work
        /\ Put(t, [frame[t] EXCEPT !.at = "next", !.hand = ActiveFor(r),
                                   !.work = @ \ {r}])
        /\ UNCHANGED <<points, rules, pending, alarms, serving, locks, disk, events>>

\* rebuild leaves alone what still has a rule and is not known to be normal.
Stays(t, i) ==
    /\ frame[t].op = "rebuild" /\ rules[occ[i].rule] \in Enabled
    /\ ~ShouldRecover(last) \/ rules[occ[i].rule] = "change"

NextOccurrence(t) ==
    \E i \in frame[t].hand :
        /\ At(t, "next")
        /\ Put(t, IF Stays(t, i)
                  THEN [frame[t] EXCEPT !.hand = @ \ {i}]
                  ELSE [frame[t] EXCEPT !.hand = @ \ {i}, !.item = i, !.at = "remove"])
        /\ UNCHANGED <<points, rules, pending, alarms, serving, locks, disk, events>>

NoOccurrence(t) ==
    LET call == frame[t].op IN
    /\ At(t, "next") /\ frame[t].hand = {}
    /\ writers' = IF call = "delete" THEN writers \cup {t} ELSE writers
    /\ Put(t, CASE call = "save"    -> Idle
                [] call = "delete"  -> [frame[t] EXCEPT !.at = "write"]
                [] call = "replace" -> [frame[t] EXCEPT !.at = "loop"]
                [] call = "rebuild" -> [frame[t] EXCEPT !.at = "forget"])
    /\ UNCHANGED <<points, rules, pending, alarms, serving, readers, disk, events>>

\* set_rule and remove_rule change one rule of the map as it is now.
Write(t) ==
    LET f == frame[t] IN
    /\ At(t, "write") /\ readers = {}
    /\ writers' = writers \ {t}
    /\ rules' = IF f.op = "replace" THEN f.new
                ELSE [rules EXCEPT ![f.rule] = f.new[f.rule]]
    /\ Put(t, CASE f.op # "save"          -> [f EXCEPT !.at = "forget"]
                [] f.op = "save" /\ f.new[f.rule] = "off" -> [f EXCEPT !.at = "list"]
                [] OTHER                  -> Idle)
    /\ UNCHANGED <<points, pending, alarms, serving, readers, disk, events>>

\* The last access of remove_rule, of replace_rules and of rebuild, which drops
\* its guard.  The database loses a deleted rule only now.
ForgetCandidates(t) ==
    LET f == frame[t] IN
    /\ At(t, "forget") /\ ConfirmFree
    /\ Forget(IF f.op = "delete" THEN {f.rule} ELSE Rules)
    /\ readers' = readers \ {t}
    /\ stored' = IF f.op = "delete" THEN [stored EXCEPT ![f.rule] = "gone"] ELSE stored
    /\ Put(t, IF t = "role" /\ f.op = "replace"
              THEN [Idle EXCEPT !.at = "rebuild", !.op = "rebuild"] ELSE Idle)
    /\ UNCHANGED <<points, rules, alarms, serving, writers, queue, db, events>>

-----------------------------------------------------------------------------
(* Role changes, the persister and restarts.                                 *)

Demote ==
    /\ serving /\ At("role", "idle")
    /\ "promotion" \in Events /\ events < MaxEvents
    /\ serving' = FALSE
    /\ UNCHANGED <<points, rules, pending, alarms, locks, frame, disk, events>>

\* On Standby, apply_sync writes the peer's value past the alarm engine.
ApplySync(v) ==
    /\ ~serving /\ ManagerFree /\ v # cache
    /\ cache' = v
    /\ UNCHANGED <<last, rules, pending, alarms, serving, locks, frame, disk, events>>

\* RoleCommand::Promote: the plugins start, the rules are read from the
\* database and replaced, and the alarms are rebuilt.
Promote ==
    /\ ~serving /\ At("role", "idle") /\ Happens("promotion")
    /\ serving' = TRUE
    /\ Put("role", [Idle EXCEPT !.at = "read", !.op = "replace", !.new = stored])
    /\ UNCHANGED <<points, rules, pending, alarms, locks, disk>>

\* rebuild, with the values of the PointManager
Rebuild ==
    /\ At("role", "rebuild") /\ ManagerFree
    /\ last' = IF cache = Unknown THEN last ELSE cache
    /\ Put("role", [frame["role"] EXCEPT !.at = "read", !.hand = active])
    /\ UNCHANGED <<cache, rules, pending, alarms, serving, locks, disk, events>>

\* The persister writes what was sent, in the order of sending.
Persist ==
    /\ queue # <<>>
    /\ db' = [db EXCEPT ![Head(queue)[1]] = Head(queue)[2]]
    /\ queue' = Tail(queue)
    /\ UNCHANGED <<points, rules, pending, alarms, serving, locks, frame, stored,
                   events>>

\* list_active_alarm_occurrences and list_recovered_unacked
ListedActive  == {i \in Id : db[i].status \in {"active", "acknowledged"}}
ListedUnacked == {i \in Id : db[i].status = "recovered" /\ ~db[i].acked}

\* The process ends at any moment and starts again; as Active it rebuilds.
Restart ==
    /\ Happens("restart")
    /\ serving' \in BOOLEAN
    /\ cache' = Unknown /\ last' = Unknown
    /\ rules' = stored /\ confirm' = {} /\ due' = {}
    /\ occ' = db /\ active' = ListedActive /\ restored' = ListedActive /\ hasty' = {}
    /\ unacked' = ListedUnacked
    /\ readers' = {} /\ writers' = {} /\ queue' = <<>>
    /\ frame' = [t \in Thread |-> IF t = "role" /\ serving'
                                  THEN [Idle EXCEPT !.at = "rebuild", !.op = "rebuild"]
                                  ELSE Idle]
    /\ UNCHANGED <<stored, db>>

-----------------------------------------------------------------------------
\* What a thread does on its own once it has been called.
Run(t) == \/ Read(t) \/ LoopEnds(t) \/ Trigger(t) \/ Remove(t) \/ Keep(t) \/ Send(t)
          \/ AckRecovered(t) \/ ListAlarms(t) \/ NextOccurrence(t) \/ NoOccurrence(t)
          \/ Write(t) \/ ForgetCandidates(t)

Request(t) == \/ \E i \in Id : Ack(t, i)
              \/ \E r \in Rules, s \in Settings : SaveRule(t, r, s)
              \/ \E r \in Rules : DeleteRule(t, r)
              \/ \E new \in [Rules -> Settings \cup {"gone"}] : PushRules(t, new)

Next == \/ \E t \in Thread : Run(t)
        \/ BridgeStep \/ TimerStep \/ Rebuild \/ Persist
        \/ \E r \in Rules : Elapse(r)
        \/ \E v \in Values : OnPoint(v) \/ ApplySync(v)
        \/ \E t \in Web : Request(t)
        \/ Demote \/ Promote \/ Restart

Spec == Init /\ [][Next]_vars

\* The threads run on; the lock of confirm, which the timer takes and drops
\* again and again, comes to those who wait for it; time passes, and the
\* persister writes.  Nothing makes the point change, an operator act or the
\* node change its role.
Fairness == /\ WF_vars(Run("bridge")) /\ SF_vars(BridgeStep)
            /\ WF_vars(Run("timer") \/ TimerStep)
            /\ WF_vars(Run("role") \/ Rebuild)
            /\ \A t \in Web : WF_vars(Run(t))
            /\ SF_vars(\E t \in Thread : ForgetCandidates(t))
            /\ WF_vars(Persist) /\ \A r \in Rules : WF_vars(Elapse(r))

FairSpec == Spec /\ Fairness
-----------------------------------------------------------------------------
(* Properties.                                                               *)

Occurrence == [rule : Rules, acked : BOOLEAN, over : BOOLEAN,
               status : {"unused", "active", "acknowledged", "recovered"}]

\* Types and ranges of the variables, and the status each map holds.
TypeOK ==
    /\ cache \in Values \cup {Unknown} /\ last \in Values \cup {Unknown}
    /\ rules \in [Rules -> Setting] /\ stored \in [Rules -> Setting]
    /\ confirm \subseteq Rules /\ due \subseteq confirm
    /\ occ \in [Id -> Occurrence] /\ db \in [Id -> Occurrence]
    /\ \A i \in active : occ[i].status \in {"active", "acknowledged"}
    /\ \A i \in unacked : occ[i].status = "recovered"
    /\ serving \in BOOLEAN /\ hasty \subseteq Id
    /\ readers \subseteq Thread /\ writers \subseteq Thread
    /\ Len(queue) <= MaxQueue
    /\ events \in 0..MaxEvents

\* Every alarm nobody has acknowledged is in exactly one place, whoever
\* acknowledges or recovers it meanwhile: in active, in recovered_unacked, or on
\* its way from one to the other in the one thread that recovers it.
Accounted ==
    /\ active \cap unacked = {}
    /\ \A i \in Issued :
          LET keepers == {t \in Thread : At(t, "keep") /\ frame[t].item = i} IN
          ~occ[i].acked => \/ i \in active \cup unacked /\ keepers = {}
                           \/ i \notin active \cup unacked /\ Cardinality(keepers) = 1
    /\ \A i \in unacked : ~occ[i].acked

\* A rule has at most one alarm that this process has triggered, whatever
\* operators do to its delay, although has_active_for_rule and trigger do not
\* share one hold of the lock and two threads trigger: but for an alarm that the
\* timer raises for a rule whose delay was taken away while a candidate of it
\* waited, for then the bridge may raise one at the same moment.
OneAlarm ==
    \A r \in Rules : Cardinality(ActiveFor(r) \ (restored \cup hasty)) <= 1

\* The same without the exception does not hold of the code.
OneAlarmWhoeverTriggers ==
    \A r \in Rules : Cardinality(ActiveFor(r) \ restored) <= 1

\* The alarm of a rule without confirmation follows the point: if the value
\* stays over the threshold there comes to be an active alarm, if it stays
\* normal none is left, whatever the timer and the operators do meanwhile.
Follows ==
    \A r \in Rules :
        LET Applies == rules[r] = "now" /\ serving /\ Issued # Id
            Over    == Applies /\ Triggered(cache)
            Normal  == Applies /\ ShouldRecover(cache)
        IN /\ Over ~> (~Over \/ ActiveFor(r) # {})
           /\ Normal ~> (~Normal \/ ActiveFor(r) = {})

\* "Periodic tick that finalizes confirm-delayed candidates": a candidate whose
\* confirm_ms has passed does not wait for ever (Issued = Id: the bound).
Finalized == \A r \in Rules : r \in due ~> (r \notin due \/ Issued = Id)
=============================================================================
