------------------------------ MODULE Contracts ------------------------------
(* The contract between backend and editor, packages/contracts: the guards   *)
(* of ws.ts that every frame of the socket goes through, and the JSON        *)
(* schemas of schemas/ws.ts and schemas/alarm.ts with their validator        *)
(* schema.ts.  The two describe the same messages twice; what a guard lets   *)
(* through must be what the schema allows.                                   *)
(*                                                                           *)
(* A JSON value is a record: its kind, its text if it is a string, its       *)
(* fields if it is an object, its elements if it is an array.  A number is   *)
(* finite or not: the text 1e999 is JSON and is parsed to Infinity.          *)
EXTENDS Naturals, Sequences

VARIABLES frame, direction

vars == <<frame, direction>>

Scalar(k, s) == [kind |-> k, text |-> s, fields |-> <<>>, elements |-> <<>>]
Str(s)    == Scalar("string", s)
Num       == Scalar("number", "")
Infinite  == Scalar("number", "Infinity")
Bool      == Scalar("boolean", "")
Null      == Scalar("null", "")
Undefined == Scalar("undefined", "")
Obj(f)    == [kind |-> "object", text |-> "", fields |-> f, elements |-> <<>>]
Arr(e)    == [kind |-> "array", text |-> "", fields |-> <<>>, elements |-> e]

Severity  == {"critical", "major", "minor", "warning"}
AlarmState == {"active", "acknowledged", "recovered"}
AlarmCondition == {"high", "low", "equal", "notEqual", "change"}
EventType == {"trigger", "ack", "recover", "rule_disabled"}
Quality   == {"good", "bad", "uncertain"}

-----------------------------------------------------------------------------
(* schema.ts: a schema is a record whose empty members are not present.      *)

Any == [types |-> {}, enum |-> {}, props |-> <<>>, required |-> {}, items |-> <<>>,
        anyOf |-> {}, ref |-> ""]
Type(ts)  == [Any EXCEPT !.types = ts]
Enum(s)   == [Any EXCEPT !.enum = s]
Const(s)  == Enum({s})
Items(n)  == [Any EXCEPT !.types = {"array"}, !.items = <<n>>]
Ref(n)    == [Any EXCEPT !.ref = n]
AnyOf(s)  == [Any EXCEPT !.anyOf = s]

\* Every property of the contract's schemas is required.
Schema(props) == [Any EXCEPT !.types = {"object"}, !.props = props,
                             !.required = DOMAIN props]

TypeMatches(v, t) == v.kind = t /\ v # Infinite

RECURSIVE Errors(_, _, _), Valid(_, _, _)

Valid(v, n, defs) == Errors(v, n, defs) = 0

One(failed) == IF failed THEN 1 ELSE 0

\* validateJson: how many of its checks fail, an early return counting once.
Errors(v, n, defs) ==
    IF n.ref # "" THEN Errors(v, defs[n.ref], defs)
    ELSE IF n.types # {} /\ ~\E t \in n.types : TypeMatches(v, t) THEN 1
    ELSE One(n.enum # {} /\ ~\E s \in n.enum : v = Str(s))
       + One(\E m \in DOMAIN n.items, i \in DOMAIN v.elements :
                ~Valid(v.elements[i], n.items[m], defs))
       + One(v.kind = "object" /\ ~n.required \subseteq DOMAIN v.fields)
       + One(v.kind = "object" /\ \E p \in DOMAIN n.props \cap DOMAIN v.fields :
                ~Valid(v.fields[p], n.props[p], defs))
       + One(n.anyOf # {} /\ ~\E m \in n.anyOf : Valid(v, m, defs))

-----------------------------------------------------------------------------
(* schemas/alarm.ts, schemas/ws.ts                                           *)

Plain(strings, numbers) ==
    [p \in strings \cup numbers |-> Type({IF p \in strings THEN "string" ELSE "number"})]
Merge(f, g) == [p \in DOMAIN f \cup DOMAIN g |-> IF p \in DOMAIN f THEN f[p] ELSE g[p]]

alarmRuleSchema == Schema(Merge(
    [severity |-> Enum(Severity), condition |-> Enum(AlarmCondition), enabled |-> Type({"boolean"})],
    Plain({"id", "variableId", "name", "description", "group"},
          {"threshold", "hysteresis", "confirmMs"})))

alarmOccurrenceSchema == Schema(Merge(
    [severity |-> Enum(Severity), status |-> Enum(AlarmState),
     value |-> Type({"number", "boolean"}), recoveredAt |-> Type({"number", "null"}),
     acknowledgedAt |-> Type({"number", "null"})],
    Plain({"id", "ruleId", "variableId", "name", "group", "message", "recoveredReason",
           "acknowledgedBy"},
          {"threshold", "triggeredAt"})))

soeRecordSchema == Schema(Merge(
    [value |-> Type({"number", "boolean"}), quality |-> Enum(Quality)],
    Plain({"variableId", "source"}, {"id", "seq", "deviceTime", "receiveTime"})))

pointValueSchema == Schema(Merge(
    [value |-> Type({"number", "boolean", "string", "null"})],
    Plain({"id", "quality"}, {"timestamp"})))

Definitions == [pointValue |-> pointValueSchema, alarmRule |-> alarmRuleSchema,
                alarmOccurrence |-> alarmOccurrenceSchema, soeRecord |-> soeRecordSchema]

Envelope(type, item) == Schema([type |-> Const(type), data |-> Items(Ref(item))])

wsServerEnvelopeSchema == AnyOf({
    Envelope("snapshot", "pointValue"), Envelope("data", "pointValue"),
    Schema([type |-> Const("config_change"), action |-> Type({"string"}),
            variable_id |-> Type({"string"}), plugin_id |-> Type({"number"})]),
    Schema([type |-> Const("role"), state |-> Type({"string"})]),
    Schema([type |-> Const("alarm_update"),
            data |-> Schema([event_type |-> Enum(EventType),
                             occurrence |-> Ref("alarmOccurrence")])]),
    Envelope("soe", "soeRecord"), Envelope("alarm_snapshot", "alarmOccurrence"),
    Envelope("alarm_rules", "alarmRule"),
    Schema([type |-> Const("alarm_rules_changed")])})

wsClientMessageSchema == AnyOf({
    Schema([command |-> Const("control"), variableId |-> Type({"string"}),
            value |-> Type({"number", "boolean"})]),
    Schema([command |-> Const("subscribe"), variableIds |-> Items(Type({"string"}))]),
    Schema([command |-> Const("heartbeat")])})

-----------------------------------------------------------------------------
(* ws.ts: the guards                                                         *)

isRecord(v) == v.kind = "object"
At(v, p)    == IF p \in DOMAIN v.fields THEN v.fields[p] ELSE Undefined
Is(v, p, kinds)   == At(v, p).kind \in kinds
OneOf(v, p, S)    == \E s \in S : At(v, p) = Str(s)
Strings(v, names) == \A p \in names : Is(v, p, {"string"})
Numbers(v, names) == \A p \in names : Is(v, p, {"number"})

isPointValue(v) ==
    /\ isRecord(v) /\ Strings(v, {"id", "quality"}) /\ Numbers(v, {"timestamp"})
    /\ Is(v, "value", {"number", "boolean", "string", "null"})

isAlarmRule(v) ==
    /\ isRecord(v)
    /\ Strings(v, {"id", "variableId", "name", "description", "group"})
    /\ Numbers(v, {"threshold", "hysteresis", "confirmMs"})
    /\ OneOf(v, "severity", Severity) /\ OneOf(v, "condition", AlarmCondition)
    /\ Is(v, "enabled", {"boolean"})

\* Faulty variant: a recovered alarm without its time passes.
isAlarmOccurrenceLoose(v) ==
    /\ isRecord(v)
    /\ Strings(v, {"id", "ruleId", "variableId", "name", "group", "message",
                   "recoveredReason", "acknowledgedBy"})
    /\ Numbers(v, {"threshold", "triggeredAt"})
    /\ OneOf(v, "severity", Severity) /\ OneOf(v, "status", AlarmState)
    /\ Is(v, "value", {"number", "boolean"})
    /\ Is(v, "recoveredAt", {"number", "null", "undefined"})
    /\ Is(v, "acknowledgedAt", {"number", "null"})

isAlarmOccurrence(v) ==
    /\ isRecord(v)
    /\ Strings(v, {"id", "ruleId", "variableId", "name", "group", "message",
                   "recoveredReason", "acknowledgedBy"})
    /\ Numbers(v, {"threshold", "triggeredAt"})
    /\ OneOf(v, "severity", Severity) /\ OneOf(v, "status", AlarmState)
    /\ Is(v, "value", {"number", "boolean"})
    /\ Is(v, "recoveredAt", {"number", "null"}) /\ Is(v, "acknowledgedAt", {"number", "null"})

isSoeRecord(v) ==
    /\ isRecord(v)
    /\ Numbers(v, {"id", "seq", "deviceTime", "receiveTime"})
    /\ Strings(v, {"variableId", "source"})
    /\ Is(v, "value", {"number", "boolean"}) /\ OneOf(v, "quality", Quality)

Every(v, Guard(_)) ==
    At(v, "data").kind = "array" /\ \A i \in DOMAIN At(v, "data").elements :
                                       Guard(At(v, "data").elements[i])

parseWsEnvelope(v) ==
    /\ isRecord(v)
    /\ \/ OneOf(v, "type", {"snapshot", "data"}) /\ Every(v, isPointValue)
       \/ /\ OneOf(v, "type", {"config_change"})
          /\ Strings(v, {"action", "variable_id"}) /\ Numbers(v, {"plugin_id"})
       \/ OneOf(v, "type", {"role"}) /\ Strings(v, {"state"})
       \/ /\ OneOf(v, "type", {"alarm_update"})
          /\ isRecord(At(v, "data")) /\ OneOf(At(v, "data"), "event_type", EventType)
          /\ isAlarmOccurrence(At(At(v, "data"), "occurrence"))
       \/ OneOf(v, "type", {"soe"}) /\ Every(v, isSoeRecord)
       \/ OneOf(v, "type", {"alarm_snapshot"}) /\ Every(v, isAlarmOccurrence)
       \/ OneOf(v, "type", {"alarm_rules"}) /\ Every(v, isAlarmRule)
       \/ OneOf(v, "type", {"alarm_rules_changed"})

parseClientMessage(v) ==
    /\ isRecord(v)
    /\ \/ /\ OneOf(v, "command", {"control"}) /\ Strings(v, {"variableId"})
          /\ Is(v, "value", {"number", "boolean"})
       \/ /\ OneOf(v, "command", {"subscribe"}) /\ At(v, "variableIds").kind = "array"
          /\ \A i \in DOMAIN At(v, "variableIds").elements :
                At(v, "variableIds").elements[i].kind = "string"
       \/ OneOf(v, "command", {"heartbeat"})

-----------------------------------------------------------------------------
(* The frames: every message of the protocol, and each with one of its       *)
(* values missing or of another kind, at any level.                          *)

Example(props) ==
    [p \in DOMAIN props |->
        IF props[p].enum # {} THEN Str(CHOOSE s \in props[p].enum : TRUE)
        ELSE IF "string" \in props[p].types THEN Str("x")
        ELSE IF "number" \in props[p].types THEN Num ELSE Bool]
ExampleOf(n) == Obj(Example(Definitions[n].props))

Message(type, f) == Obj([p \in DOMAIN f \cup {"type"} |-> IF p = "type" THEN Str(type) ELSE f[p]])
Data(v) == [data |-> v]

ServerMessages ==
    {Message(t, Data(Arr(<<ExampleOf("pointValue")>>))) : t \in {"snapshot", "data"}}
    \cup {Message("config_change", [action |-> Str("x"), variable_id |-> Str("x"),
                                    plugin_id |-> Num]),
          Message("role", [state |-> Str("x")]),
          Message("alarm_update", Data(Obj([event_type |-> Str("ack"),
                                            occurrence |-> ExampleOf("alarmOccurrence")]))),
          Message("soe", Data(Arr(<<ExampleOf("soeRecord"), ExampleOf("soeRecord")>>))),
          Message("alarm_snapshot", Data(Arr(<<>>))),
          Message("alarm_snapshot", Data(Arr(<<ExampleOf("alarmOccurrence")>>))),
          Message("alarm_rules", Data(Arr(<<ExampleOf("alarmRule")>>))),
          Message("alarm_rules_changed", <<>>)}

ClientMessages ==
    {Obj([command |-> Str("control"), variableId |-> Str("x"), value |-> Bool]),
     Obj([command |-> Str("subscribe"), variableIds |-> Arr(<<Str("x"), Str("y")>>)]),
     Obj([command |-> Str("heartbeat")])}

Replacement == {Str("x"), Str("warning"), Str("active"), Num, Infinite, Bool, Null,
                Obj(<<>>), Arr(<<>>), Arr(<<Num>>)}

Without(f, p) == [q \in DOMAIN f \ {p} |-> f[q]]

RECURSIVE Corrupted(_)

\* The values that differ from v in one place.
Corrupted(v) ==
    Replacement
    \cup (IF v.kind # "object" THEN {}
          ELSE {Obj(Without(v.fields, p)) : p \in DOMAIN v.fields}
               \cup UNION {{Obj([v.fields EXCEPT ![p] = w]) : w \in Corrupted(v.fields[p])}
                              : p \in DOMAIN v.fields})
    \cup (IF v.kind # "array" THEN {}
          ELSE UNION {{Arr([v.elements EXCEPT ![i] = w]) : w \in Corrupted(v.elements[i])}
                              : i \in DOMAIN v.elements})

Init ==
    \/ direction = "server" /\ frame \in ServerMessages
    \/ direction = "client" /\ frame \in ClientMessages

\* Environment: a peer of another version sends something else instead.
Corrupt ==
    /\ frame \in ServerMessages \cup ClientMessages
    /\ frame' \in Corrupted(frame)
    /\ UNCHANGED direction

Next == Corrupt
Spec == Init /\ [][Next]_vars

RECURSIVE Finite(_)

Finite(v) ==
    /\ v # Infinite
    /\ \A p \in DOMAIN v.fields : Finite(v.fields[p])
    /\ \A i \in DOMAIN v.elements : Finite(v.elements[i])

Parsed  == IF direction = "server" THEN parseWsEnvelope(frame) ELSE parseClientMessage(frame)
Matches == IF direction = "server" THEN Valid(frame, wsServerEnvelopeSchema, Definitions)
           ELSE Valid(frame, wsClientMessageSchema, Definitions)

\* The guards and the schemas describe the same messages: the parser lets every
\* frame through that the validator finds to match its schema, and no other but one
\* with a number that is not finite: only the validator asks for Number.isFinite.
GuardsMatchSchemas == (Matches => Parsed) /\ (Parsed /\ Finite(frame) => Matches)
=============================================================================
