----------------------------- MODULE ConfigSync -----------------------------
(* The configuration of two redundant nodes: the database, the version in it,*)
(* the alarm rules the engine holds in memory, and the requests of           *)
(* crates/web/src/api that edit it and push a snapshot to the peer           *)
(* (bump_version_and_push, build_config_snapshot, apply_config_push).  Every *)
(* call of the database is a step, because its thread serves the requests in *)
(* turn; what a request does between two calls belongs to the one before.    *)
(* A configuration is two parts, the alarm rules and all else; a part is the *)
(* number of the edit that wrote it.  Left out: the election, of which only  *)
(* the change of roles is seen (NodeRedundancy); failing database calls; and *)
(* the settings that no request edits, the only ones a snapshot reads before *)
(* its version.                                                              *)
EXTENDS Naturals, Sequences

CONSTANTS
    Node,       \* the two nodes
    Task,       \* requests that may be under way at a time
    MaxEdits    \* bound: writes to the configuration

VARIABLES
    active,     \* the Active node
    db,         \* per node: config_version, the alarm rules, the rest, and whose
                \* redundancy_config it is
    memory,     \* per node: the rules of the alarm engine
    tasks,      \* the requests: where they are and what they hold
    edits,      \* writes so far (bound)
    lost,       \* the highest version whose push was lost (history)
    marks       \* what has gone wrong between requests (history)

vars == <<active, db, memory, tasks, edits, lost, marks>>

Part == {"rules", "rest"}
Kind == Part \cup {"removal"}      \* a rule is saved, removed, or something else edited
Content == 0 .. MaxEdits
Config == [version : Content, rules : Content, rest : Content, owner : Node]
At == {"idle", "removing", "stored", "read", "bumped", "reading", "sent", "accepted",
       "applied", "listed"}

TypeOK ==
    /\ active \in Node
    /\ db \in [Node -> Config] /\ memory \in [Node -> Content]
    /\ tasks \in [Task -> [at : At, node : Node, kind : Kind, got : Content,
                           snap : Config, left : Seq({"version", "rest", "rules"})]]
    /\ edits \in Content /\ lost \in Content
    /\ marks \subseteq {"clash", "cut", "forked", "overlap"}

Other(n) == CHOOSE m \in Node : m # n

Blank(n) == [version |-> 0, rules |-> 0, rest |-> 0, owner |-> n]
Free(n) == [at |-> "idle", node |-> n, kind |-> "rest", got |-> 0,
            snap |-> Blank(n), left |-> << >>]

Init ==
    /\ active \in Node
    /\ db = [n \in Node |-> Blank(n)]
    /\ memory = [n \in Node |-> 0]
    /\ tasks = [t \in Task |-> Free(active)]
    /\ edits = 0 /\ lost = 0 /\ marks = {}

\* A request goes on at the place given, or is over.
Go(t, at) == tasks' = [tasks EXCEPT ![t].at = at]
Over(t) == tasks' = [tasks EXCEPT ![t] = Free(active)]

Mark(what, if) == marks' = IF if THEN marks \cup {what} ELSE marks

Busy(S) == {t \in Task : tasks[t].at \in S}

-----------------------------------------------------------------------------
(* A request that edits: create_point, update_plugin, save_alarm_rule ...    *)

\* Requests that have changed n's rules in one of the two places only.
Halfway(n) == {t \in Busy({"removing", "stored"}) :
                  tasks[t].node = n /\ (tasks[t].at = "stored" => tasks[t].kind = "rules")}

\* No node refuses an edit, and a Standby tells nobody of it.
Begin(t, n, kind) ==
    /\ edits < MaxEdits
    /\ edits' = edits + 1
    /\ marks' = marks
         \cup (IF n # active THEN {"forked"} ELSE {})
         \cup (IF kind # "rest" /\ Halfway(n) # {} THEN {"overlap"} ELSE {})
    /\ tasks' = [tasks EXCEPT ![t].at = IF kind = "removal" THEN "removing" ELSE "stored",
                              ![t].node = n, ![t].kind = kind, ![t].got = edits + 1]
    /\ UNCHANGED <<active, lost>>

\* It is written to the database.
Edit(t) ==
    /\ tasks[t].at = "idle"
    /\ \E n \in Node, p \in Part : Begin(t, n, p) /\ db' = [db EXCEPT ![n][p] = edits + 1]
    /\ UNCHANGED memory

\* The next row of an imported sheet, or the second of two settings.
EditMore(t) ==
    /\ tasks[t].at = "stored" /\ tasks[t].kind = "rest"
    /\ Begin(t, tasks[t].node, "rest")
    /\ db' = [db EXCEPT ![tasks[t].node].rest = edits + 1]
    /\ UNCHANGED memory

\* delete_alarm_rule: the engine's rule first, then the stored one.
Remove(t) ==
    /\ tasks[t].at = "idle"
    /\ \E n \in Node : Begin(t, n, "removal") /\ memory' = [memory EXCEPT ![n] = edits + 1]
    /\ UNCHANGED db

Removed(t) ==
    /\ tasks[t].at = "removing"
    /\ db' = [db EXCEPT ![tasks[t].node].rules = tasks[t].got]
    /\ Go(t, "stored")
    /\ UNCHANGED <<active, memory, edits, lost, marks>>

\* set_rule for a rule saved; then nothing more unless the node is Active.
Stored(t) ==
    LET k == tasks[t] IN
    /\ k.at = "stored"
    /\ memory' = IF k.kind = "rules" THEN [memory EXCEPT ![k.node] = k.got] ELSE memory
    /\ IF k.node = active
       THEN tasks' = [tasks EXCEPT ![t].at = "read", ![t].got = db[k.node].version]
       ELSE Over(t)
    /\ UNCHANGED <<active, db, edits, lost, marks>>

\* Faulty: only the rules are in the snapshot.
SnapshotOrderShort == <<"version", "rules">>

\* What build_config_snapshot reads, in the order of its calls.
SnapshotOrder == <<"version", "rules", "rest">>

\* The version read is raised and written, over that of a request which read the same.
Bump(t) ==
    LET k == tasks[t] IN
    /\ k.at = "read"
    /\ db' = [db EXCEPT ![k.node].version = k.got + 1]
    /\ Mark("clash", db[k.node].version # k.got)
    /\ tasks' = [tasks EXCEPT ![t].at = "reading", ![t].left = SnapshotOrder,
                              ![t].snap = [Blank(k.node) EXCEPT !.owner = db[k.node].owner]]
    /\ UNCHANGED <<active, memory, edits, lost>>

\* One read of the snapshot; with the last, it is sent if the node still is Active.
ReadPart(t) ==
    LET k == tasks[t] IN
    /\ k.at = "reading"
    /\ IF Len(k.left) > 1 \/ k.node = active
       THEN tasks' = [tasks EXCEPT ![t].snap[Head(k.left)] = db[k.node][Head(k.left)],
                                   ![t].left = Tail(k.left),
                                   ![t].at = IF Len(k.left) > 1 THEN "reading" ELSE "sent"]
       ELSE Over(t)
    /\ UNCHANGED <<active, db, memory, edits, lost, marks>>

\* The push is lost or refused, and is not sent again.
Lose(t) ==
    /\ tasks[t].at = "sent"
    /\ lost' = IF tasks[t].snap.version > lost THEN tasks[t].snap.version ELSE lost
    /\ Over(t)
    /\ UNCHANGED <<active, db, memory, edits, marks>>

-----------------------------------------------------------------------------
(* apply_config_push at the peer; the task is its handler from now on.       *)

\* An older snapshot is ignored.
Outdated(snap, version) == snap.version < version

Receive(t) ==
    LET k == tasks[t]
        peer == Other(k.node) IN
    /\ k.at = "sent"
    /\ IF Outdated(k.snap, db[peer].version)
       THEN Over(t) /\ UNCHANGED marks
       ELSE /\ tasks' = [tasks EXCEPT ![t].at = "accepted", ![t].node = peer]
            /\ Mark("overlap", \E u \in Busy({"accepted", "applied", "listed"}) :
                                   tasks[u].node = peer)
    /\ UNCHANGED <<active, db, memory, edits, lost>>

\* Faulty: the engine keeps its rules.
ApplyOnly(t) ==
    /\ tasks[t].at = "accepted"
    /\ db' = [db EXCEPT ![tasks[t].node] = tasks[t].snap]
    /\ Over(t)
    /\ UNCHANGED <<active, memory, edits, lost, marks>>

\* The transaction replaces everything, the sender's redundancy_config included.
Apply(t) ==
    LET k == tasks[t] IN
    /\ k.at = "accepted"
    /\ db' = [db EXCEPT ![k.node] = k.snap]
    /\ Go(t, "applied")
    /\ Mark("overlap", Halfway(k.node) # {})
    /\ UNCHANGED <<active, memory, edits, lost>>

\* The rules are read back, and then replaced in the engine.
List(t) ==
    /\ tasks[t].at = "applied"
    /\ tasks' = [tasks EXCEPT ![t].at = "listed", ![t].got = db[tasks[t].node].rules]
    /\ UNCHANGED <<active, db, memory, edits, lost, marks>>

ReplaceRules(t) ==
    /\ tasks[t].at = "listed"
    /\ memory' = [memory EXCEPT ![tasks[t].node] = tasks[t].got]
    /\ Over(t)
    /\ UNCHANGED <<active, db, edits, lost, marks>>

-----------------------------------------------------------------------------
\* A request whose client has gone is dropped where it waits.
Abandon(t) ==
    /\ tasks[t].at \notin {"idle", "sent"}
    /\ Over(t)
    /\ Mark("cut", TRUE)
    /\ UNCHANGED <<active, db, memory, edits, lost>>

\* The roles change.  The new Active node reads its rules from the database
\* (RoleCommand::Promote); what it has not of the other's configuration is forked.
TakeOver ==
    LET new == Other(active) IN
    /\ active' = new
    /\ memory' = [memory EXCEPT ![new] = db[new].rules]
    /\ Mark("forked", Busy(At \ {"idle"}) # {}
                      \/ \E f \in Part \cup {"version"} : db[new][f] # db[active][f])
    /\ UNCHANGED <<db, tasks, edits, lost>>

Next ==
    \/ \E t \in Task : \/ Edit(t) \/ EditMore(t) \/ Remove(t) \/ Removed(t)
                       \/ Stored(t) \/ Bump(t) \/ ReadPart(t) \/ Lose(t)
                       \/ Receive(t) \/ Apply(t) \/ List(t) \/ ReplaceRules(t)
                       \/ Abandon(t)
    \/ TakeOver

Spec == Init /\ [][Next]_vars

-----------------------------------------------------------------------------
Quiet == Busy(At \ {"idle"}) = {}

Same(a, b) == \A f \in Part \cup {"version"} : a[f] = b[f]

\* With no request under way the Standby has the configuration of the Active node
\* (README.md:312), unless the latest push was lost.
AlwaysInStep ==
    Quiet /\ lost < db[active].version => Same(db[Other(active)], db[active])

\* Every engine works with the rules that are stored.
AlwaysAsStored == Quiet => \A n \in Node : memory[n] = db[n].rules

\* Both, unless two requests took the same version or crossed each other in a
\* handler, one was abandoned, or a node was edited that is not the Active one or
\* took over without the other's configuration.
InStep == marks = {} => AlwaysInStep /\ AlwaysAsStored

\* A node's redundancy_config is its own.
OwnConfig == \A n \in Node : db[n].owner = n
=============================================================================
