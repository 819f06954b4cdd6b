---------------------------- MODULE EditorProofs ----------------------------
(* What the parts of the editor promise, as promises of the editor.           *)
EXTENDS Editor, Sequences, FiniteSetTheorems, TLAPS

(* The point table; PointTable declares its variables in this order:         *)
(* server v1, stream v2, connected v3, defs v4, mapping v5, values v6,       *)
(* lastValues v7, refreshTimer v8, hasFetched v9, requests v10, control v11, *)
(* excused v12.                                                              *)

Message == {PT!ConfigChange} \cup [type : {"data"}, id : Variable, value : PointValue]

Announced(stream) == \E i \in DOMAIN stream : stream[i] = PT!ConfigChange

\* A variable that is not defined has no value.
Undefined(defs, values) == \A v \in Variable \ defs : values[v] = PT!NoValue

\* The panel has imported the table for the connection there is.
FetchedNow(connected, hasFetched) == ~connected => ~hasFetched

\* Of two requests one has overtaken the other.
OneAtATime(requests, excused) ==
    \A r, q \in Pair : requests[r] # PT!Idle /\ requests[q] # PT!Idle => r = q \/ excused

\* An answer that is old is known to be.
AnswersFit(server, stream, connected, refreshTimer, requests, excused) ==
    \A r \in Pair :
        connected /\ requests[r].state = "answered" /\ requests[r].list # server =>
            refreshTimer \/ excused \/ Announced(stream)

PointsInv ==
    /\ PT!TypeOK /\ v2 \in Seq(Message)
    /\ Undefined(v4, v6) /\ FetchedNow(v3, v9)
    /\ OneAtATime(v10, v12) /\ AnswersFit(v1, v2, v3, v8, v10, v12)
    /\ PT!ShowsReceived /\ PT!OldForAReason

LEMMA MessageFacts ==
    /\ PT!ConfigChange \in Message
    /\ \A m \in Message : m.type = "data" => m.id \in Variable /\ m.value \in PointValue
    /\ \A m \in Message : m # PT!ConfigChange => m.type = "data"
    /\ PT!ConfigChange.type # "data"
    /\ \A v \in Variable, x \in PointValue : PT!Point(v, x) \in Message
BY DEF Message, PT!ConfigChange, PT!Point

LEMMA NormalFits ==
    ASSUME NEW v, NEW x \in PointValue \cup {0} PROVE PT!Normal(v, x) \in PointValue \cup {0, 1}
BY DEF PT!Normal

LEMMA PointsStart == ASSUME PT!Init PROVE PointsInv
<1>1. PT!TypeOK
      BY DEF PT!Init, PT!TypeOK, PT!Idle, PT!NoValue
<1>2. v2 \in Seq(Message) /\ Undefined(v4, v6) /\ FetchedNow(v3, v9)
      BY DEF PT!Init, Undefined, FetchedNow
<1>3. OneAtATime(v10, v12) /\ AnswersFit(v1, v2, v3, v8, v10, v12)
      BY DEF PT!Init, OneAtATime, AnswersFit
<1>4. PT!ShowsReceived /\ PT!OldForAReason
      BY DEF PT!Init, PT!ShowsReceived, PT!OldForAReason
<1> QED
    BY <1>1, <1>2, <1>3, <1>4 DEF PointsInv

\* A request is sent; requests and excused change as Fetch says.
LEMMA FetchFits ==
    ASSUME PointsInv, NEW r \in Pair, PT!Fetch(r),
           NEW server, NEW stream, NEW connected, NEW refreshTimer
    PROVE  /\ v10' \in [Pair -> [state : {"idle", "asked", "answered"}, list : SUBSET Variable]]
           /\ v12' \in BOOLEAN
           /\ OneAtATime(v10', v12') /\ PT!Pending' # {}
           /\ AnswersFit(server, stream, connected, refreshTimer, v10', v12')
<1>1. /\ v10 \in [Pair -> [state : {"idle", "asked", "answered"}, list : SUBSET Variable]]
      /\ OneAtATime(v10, v12)
      BY DEF PointsInv, PT!TypeOK
<1>2. /\ v10[r] = PT!Idle /\ v10' = [v10 EXCEPT ![r] = PT!Asked]
      /\ v12' = (PT!Pending # {})
      BY DEF PT!Fetch
<1>3. /\ PT!Asked \in [state : {"idle", "asked", "answered"}, list : SUBSET Variable]
      /\ PT!Asked # PT!Idle /\ PT!Asked.state = "asked" /\ PT!Idle.state = "idle"
      BY DEF PT!Asked, PT!Idle
<1>4. /\ v10' \in [Pair -> [state : {"idle", "asked", "answered"}, list : SUBSET Variable]]
      /\ v10'[r] = PT!Asked /\ \A q \in Pair \ {r} : v10'[q] = v10[q]
      BY <1>1, <1>2, <1>3
<1>5. \A q \in Pair : v10[q] # PT!Idle => v12'
      BY <1>2 DEF PT!Pending
<1>6. \A q \in Pair \ {r} : v10'[q] # PT!Idle => v12'
      BY <1>4, <1>5
<1>7. OneAtATime(v10', v12')
      BY <1>6 DEF OneAtATime
<1>8. PT!Pending' # {}
      BY <1>3, <1>4 DEF PT!Pending
<1>9. AnswersFit(server, stream, connected, refreshTimer, v10', v12')
      BY <1>3, <1>4, <1>6 DEF AnswersFit
<1> QED
    BY <1>2, <1>4, <1>7, <1>8, <1>9

LEMMA RequestsKeep ==
    ASSUME PointsInv, NEW r \in Pair,
           PT!Answer(r) \/ PT!Fails(r) \/ PT!RefreshTimer(r) \/ PT!RefreshVariables(r)
    PROVE  PointsInv'
<1> USE DEF PT!table
<1>1. CASE PT!Answer(r)
  <2> DEFINE a == [state |-> "answered", list |-> v1]
  <2>1. /\ v10' = [v10 EXCEPT ![r] = a] /\ v10[r] = PT!Asked
        /\ UNCHANGED <<v1, v2, v3, v4, v5, v6, v7, v8, v9, v11, v12>>
        BY <1>1 DEF PT!Answer
  <2>2. /\ v10 \in [Pair -> [state : {"idle", "asked", "answered"}, list : SUBSET Variable]]
        /\ a \in [state : {"idle", "asked", "answered"}, list : SUBSET Variable]
        BY DEF PointsInv, PT!TypeOK
  <2>3. /\ v10' \in [Pair -> [state : {"idle", "asked", "answered"}, list : SUBSET Variable]]
        /\ v10'[r] = a /\ \A q \in Pair \ {r} : v10'[q] = v10[q]
        BY <2>1, <2>2
  <2>4. a # PT!Idle /\ PT!Asked # PT!Idle
        BY DEF PT!Asked, PT!Idle
  <2>5. OneAtATime(v10', v12')
        BY <2>1, <2>3, <2>4 DEF PointsInv, OneAtATime
  <2>6. AnswersFit(v1, v2, v3, v8, v10', v12)
        BY <2>1, <2>3 DEF PointsInv, AnswersFit
  <2>7. PT!Pending' # {}
        BY <2>3, <2>4 DEF PT!Pending
  <2> QED
      BY <2>1, <2>3, <2>5, <2>6, <2>7 DEF PointsInv, PT!TypeOK, PT!ShowsReceived, PT!OldForAReason
<1>2. CASE PT!Fails(r)
  <2>1. /\ v10' = [v10 EXCEPT ![r] = PT!Idle] /\ v12' = TRUE
        /\ UNCHANGED <<v1, v2, v3, v4, v5, v6, v7, v8, v9, v11>>
        BY <1>2 DEF PT!Fails
  <2>2. v10' \in [Pair -> [state : {"idle", "asked", "answered"}, list : SUBSET Variable]]
        BY <2>1 DEF PointsInv, PT!TypeOK, PT!Idle
  <2> QED
      BY <2>1, <2>2
      DEF PointsInv, PT!TypeOK, PT!ShowsReceived, PT!OldForAReason, OneAtATime, AnswersFit
<1>3. CASE PT!RefreshTimer(r) \/ PT!RefreshVariables(r)
  <2>1. /\ PT!Fetch(r) /\ UNCHANGED <<v1, v2, v3, v4, v5, v6, v7, v11>>
        /\ v8' \in {FALSE, v8} /\ v9' \in {FALSE, v9}
        BY <1>3 DEF PT!RefreshTimer, PT!RefreshVariables
  <2>2. /\ v10' \in [Pair -> [state : {"idle", "asked", "answered"}, list : SUBSET Variable]]
        /\ v12' \in BOOLEAN
        /\ OneAtATime(v10', v12') /\ PT!Pending' # {}
        /\ AnswersFit(v1, v2, v3, v8', v10', v12')
        BY <2>1, FetchFits
  <2>3. PT!TypeOK'
        BY <2>1, <2>2 DEF PointsInv, PT!TypeOK
  <2>4. FetchedNow(v3', v9')
        BY <2>1 DEF PointsInv, FetchedNow
  <2>5. PT!ShowsReceived' /\ PT!OldForAReason'
        BY <2>1, <2>2 DEF PointsInv, PT!ShowsReceived, PT!OldForAReason
  <2> QED
      BY <2>1, <2>2, <2>3, <2>4, <2>5 DEF PointsInv
<1> QED
    BY <1>1, <1>2, <1>3

\* What arrives, and what the operator does, concern one variable.
LEMMA ImportKeeps ==
    ASSUME PointsInv, NEW r \in Pair, PT!Import(r)
    PROVE  PointsInv'
<1> DEFINE list == v10[r].list
<1>1. /\ v10[r].state = "answered"
      /\ v5' = list /\ v4' = list /\ v6' = PT!Imported(list)
      /\ v10' = [v10 EXCEPT ![r] = PT!Idle] /\ v11' = [v \in Variable |-> PT!NoValue]
      /\ UNCHANGED <<v1, v2, v3, v7, v8, v9, v12>>
      BY DEF PT!Import
<1>2. /\ v10 \in [Pair -> [state : {"idle", "asked", "answered"}, list : SUBSET Variable]]
      /\ v7 \in [Variable -> PointValue \cup {PT!NoValue}]
      BY DEF PointsInv, PT!TypeOK
<1>3. list \subseteq Variable
      BY <1>2
<1>4. \A v \in Variable :
          /\ v \in list /\ v7[v] # PT!NoValue => v6'[v] = PT!Normal(v, v7[v])
          /\ v \in list /\ v7[v] = PT!NoValue => v6'[v] = 0
          /\ v \notin list => v6'[v] = PT!NoValue
      BY <1>1 DEF PT!Imported, PT!ReplaceAll
<1>5. \A v \in Variable : v6'[v] \in PointValue \cup {0, 1, PT!NoValue}
      BY <1>2, <1>4, NormalFits
<1>6. v6' \in [Variable -> PointValue \cup {0, 1, PT!NoValue}]
  <2>1. v6' = [v \in Variable |-> v6'[v]]
        BY <1>1 DEF PT!Imported
  <2> QED
      BY <1>5, <2>1
<1>7. /\ v10' \in [Pair -> [state : {"idle", "asked", "answered"}, list : SUBSET Variable]]
      /\ v10'[r] = PT!Idle /\ \A q \in Pair \ {r} : v10'[q] = v10[q]
      BY <1>1, <1>2 DEF PT!Idle
<1>8. PT!TypeOK'
      BY <1>1, <1>3, <1>6, <1>7 DEF PointsInv, PT!TypeOK
<1>9. Undefined(v4', v6') /\ PT!ShowsReceived'
      BY <1>1, <1>3, <1>4 DEF Undefined, PT!ShowsReceived
<1>10. OneAtATime(v10', v12') /\ AnswersFit(v1', v2', v3', v8', v10', v12')
      BY <1>1, <1>7 DEF PointsInv, OneAtATime, AnswersFit, PT!Idle
<1>11. PT!OldForAReason'
  <2>1. v3 /\ list # v1 => v8 \/ v12 \/ Announced(v2)
        BY <1>1 DEF PointsInv, AnswersFit
  <2> QED
      BY <1>1, <2>1 DEF PT!OldForAReason, Announced
<1> QED
    BY <1>1, <1>8, <1>9, <1>10, <1>11 DEF PointsInv

LEMMA PanelKeeps ==
    ASSUME PointsInv, PT!VariablePanel
    PROVE  PointsInv'
<1> USE DEF PT!table
<1>1. /\ v4 \subseteq Variable
      /\ v6 \in [Variable -> PointValue \cup {0, 1, PT!NoValue}]
      /\ v11 \in [Variable -> PointValue \cup {0, PT!NoValue}]
      BY DEF PointsInv, PT!TypeOK
<1>2. PT!NoValue # 0 /\ PT!NoValue # 1 /\ PT!NoValue \notin PointValue
      BY EditorAssumption DEF PT!NoValue
<1>3. ASSUME NEW v \in Variable, NEW x \in PointValue, PT!SendControl(v, x)
      PROVE  PointsInv'
  <2>1. /\ v6' = PT!SetValue(v6, v4, v, x) /\ v11' = [v11 EXCEPT ![v] = x]
        /\ UNCHANGED <<v1, v2, v3, v4, v5, v7, v8, v9, v10, v12>>
        BY <1>3 DEF PT!SendControl
  <2>2. /\ v11' \in [Variable -> PointValue \cup {0, PT!NoValue}] /\ v11'[v] = x
        /\ \A u \in Variable \ {v} : v11'[u] = v11[u]
        BY <1>1, <2>1
  <2>3. /\ v6' \in [Variable -> PointValue \cup {0, 1, PT!NoValue}]
        /\ v \in v4 => v6'[v] = PT!Normal(v, x)
        /\ v \notin v4 => v6'[v] = v6[v]
        /\ \A u \in Variable \ {v} : v6'[u] = v6[u]
        BY <1>1, <2>1, NormalFits DEF PT!SetValue
  <2>4. PT!TypeOK'
        BY <2>1, <2>2, <2>3 DEF PointsInv, PT!TypeOK
  <2>5. Undefined(v4', v6')
        BY <2>1, <2>3 DEF PointsInv, Undefined
  <2>6. PT!ShowsReceived'
    <3>1. SUFFICES ASSUME NEW u \in v4 \cap v5, v7[u] # PT!NoValue
                   PROVE  v6'[u] = PT!Normal(u, IF v11'[u] # PT!NoValue THEN v11'[u] ELSE v7[u])
          BY <2>1 DEF PT!ShowsReceived, PT!Normal
    <3>2. CASE u = v
          BY <1>2, <2>2, <2>3, <3>1, <3>2
    <3>3. CASE u # v
          BY <1>1, <2>2, <2>3, <3>1, <3>3 DEF PointsInv, PT!ShowsReceived
    <3> QED
        BY <3>2, <3>3
  <2>7. PT!OldForAReason'
        BY <2>1 DEF PointsInv, PT!OldForAReason, PT!Pending
  <2> QED
      BY <2>1, <2>4, <2>5, <2>6, <2>7 DEF PointsInv
<1>4. ASSUME NEW v \in Variable, PT!Define(v)
      PROVE  PointsInv'
  <2>1. /\ v \notin v4 /\ v4' = v4 \cup {v} /\ v12' = TRUE
        /\ v6' = IF v6[v] = PT!NoValue THEN [v6 EXCEPT ![v] = 0] ELSE v6
        /\ v11' = [v11 EXCEPT ![v] = 0]
        /\ UNCHANGED <<v1, v2, v3, v5, v7, v8, v9, v10>>
        BY <1>4 DEF PT!Define
  <2>2. v6[v] = PT!NoValue
        BY <2>1 DEF PointsInv, Undefined
  <2>3. /\ v6' \in [Variable -> PointValue \cup {0, 1, PT!NoValue}] /\ v6'[v] = 0
        /\ \A u \in Variable \ {v} : v6'[u] = v6[u]
        BY <1>1, <2>1, <2>2
  <2>4. /\ v11' \in [Variable -> PointValue \cup {0, PT!NoValue}] /\ v11'[v] = 0
        /\ \A u \in Variable \ {v} : v11'[u] = v11[u]
        BY <1>1, <2>1
  <2>5. PT!TypeOK'
        BY <2>1, <2>3, <2>4 DEF PointsInv, PT!TypeOK
  <2>6. Undefined(v4', v6') /\ PT!ShowsReceived'
        BY <1>2, <2>1, <2>3, <2>4
        DEF PointsInv, Undefined, PT!ShowsReceived, PT!Normal
  <2> QED
      BY <2>1, <2>5, <2>6
      DEF PointsInv, PT!OldForAReason, OneAtATime, AnswersFit
<1>5. ASSUME NEW v \in Variable, PT!Remove(v)
      PROVE  PointsInv'
  <2>1. /\ v4' = v4 \ {v} /\ v12' = TRUE /\ v6' = [v6 EXCEPT ![v] = PT!NoValue]
        /\ UNCHANGED <<v1, v2, v3, v5, v7, v8, v9, v10, v11>>
        BY <1>5 DEF PT!Remove
  <2>2. /\ v6' \in [Variable -> PointValue \cup {0, 1, PT!NoValue}] /\ v6'[v] = PT!NoValue
        /\ \A u \in Variable \ {v} : v6'[u] = v6[u]
        BY <1>1, <2>1
  <2>3. PT!TypeOK'
        BY <2>1, <2>2 DEF PointsInv, PT!TypeOK
  <2>4. Undefined(v4', v6') /\ PT!ShowsReceived'
        BY <2>1, <2>2 DEF PointsInv, PT!TypeOK, Undefined, PT!ShowsReceived
  <2> QED
      BY <2>1, <2>3, <2>4 DEF PointsInv, PT!OldForAReason, OneAtATime, AnswersFit
<1> QED
    BY <1>3, <1>4, <1>5 DEF PT!VariablePanel

LEMMA MessageKeeps ==
    ASSUME PointsInv, PT!OnMessage
    PROVE  PointsInv'
<1> USE DEF PT!table
<1> DEFINE m == Head(v2)
<1>1. /\ v2 # <<>> /\ v2' = Tail(v2)
      /\ UNCHANGED <<v1, v3, v9, v10, v12>>
      BY DEF PT!OnMessage
<1>2. m \in Message /\ v2' \in Seq(Message)
      BY <1>1 DEF PointsInv
<1>3. Announced(v2) => Announced(v2') \/ m = PT!ConfigChange
  <2>1. SUFFICES ASSUME NEW i \in DOMAIN v2, v2[i] = PT!ConfigChange, i # 1
                 PROVE  Announced(v2')
        BY DEF Announced
  <2>2. i - 1 \in DOMAIN v2' /\ v2'[i - 1] = v2[i]
        BY <1>1, <2>1 DEF PointsInv
  <2> QED
      BY <2>1, <2>2 DEF Announced
<1>4. CASE m.type = "data"
  <2>1. /\ v7' = [v7 EXCEPT ![m.id] = m.value]
        /\ v6' = PT!SetValue(v6, v4, m.id, m.value)
        /\ v11' = [v11 EXCEPT ![m.id] = PT!NoValue]
        /\ UNCHANGED <<v4, v5, v8>>
        BY <1>4 DEF PT!OnMessage, PT!OnData
  <2>2. PICK v \in Variable, x \in PointValue : m.id = v /\ m.value = x
        BY <1>2, <1>4, MessageFacts
  <2>3. /\ v4 \subseteq Variable
        /\ v6 \in [Variable -> PointValue \cup {0, 1, PT!NoValue}]
        /\ v7 \in [Variable -> PointValue \cup {PT!NoValue}]
        /\ v11 \in [Variable -> PointValue \cup {0, PT!NoValue}]
        BY DEF PointsInv, PT!TypeOK
  <2>4. /\ v7' \in [Variable -> PointValue \cup {PT!NoValue}] /\ v7'[v] = x
        /\ \A u \in Variable \ {v} : v7'[u] = v7[u]
        BY <2>1, <2>2, <2>3
  <2>5. /\ v11' \in [Variable -> PointValue \cup {0, PT!NoValue}] /\ v11'[v] = PT!NoValue
        /\ \A u \in Variable \ {v} : v11'[u] = v11[u]
        BY <2>1, <2>2, <2>3
  <2>6. /\ v6' \in [Variable -> PointValue \cup {0, 1, PT!NoValue}]
        /\ v \in v4 => v6'[v] = PT!Normal(v, x)
        /\ v \notin v4 => v6'[v] = v6[v]
        /\ \A u \in Variable \ {v} : v6'[u] = v6[u]
        BY <2>1, <2>2, <2>3, NormalFits DEF PT!SetValue
  <2>7. PT!TypeOK'
        BY <1>1, <2>1, <2>4, <2>5, <2>6 DEF PointsInv, PT!TypeOK
  <2>8. Undefined(v4', v6')
        BY <2>1, <2>6 DEF PointsInv, Undefined
  <2>9. PT!ShowsReceived'
    <3>1. SUFFICES ASSUME NEW u \in v4 \cap v5, v7'[u] # PT!NoValue
                   PROVE  v6'[u] = PT!Normal(u, IF v11'[u] # PT!NoValue THEN v11'[u] ELSE v7'[u])
          BY <2>1 DEF PT!ShowsReceived, PT!Normal
    <3>2. CASE u = v
          BY <2>4, <2>5, <2>6, <3>1, <3>2
    <3>3. CASE u # v
          BY <2>3, <2>4, <2>5, <2>6, <3>1, <3>3 DEF PointsInv, PT!ShowsReceived
    <3> QED
        BY <3>2, <3>3
  <2>10. Announced(v2) => Announced(v2')
        BY <1>3, <1>4, MessageFacts
  <2>11. PT!OldForAReason' /\ AnswersFit(v1', v2', v3', v8', v10', v12')
        BY <1>1, <2>1, <2>10
        DEF PointsInv, PT!OldForAReason, PT!Pending, Announced, AnswersFit
  <2> QED
      BY <1>1, <1>2, <2>1, <2>7, <2>8, <2>9, <2>11 DEF PointsInv
<1>5. CASE m.type # "data"
  <2>1. v8' = TRUE /\ UNCHANGED <<v4, v5, v6, v7, v11>>
        BY <1>5 DEF PT!OnMessage
  <2> QED
      BY <1>1, <1>2, <2>1
      DEF PointsInv, PT!TypeOK, PT!ShowsReceived, PT!OldForAReason, AnswersFit
<1> QED
    BY <1>4, <1>5

\* A message is added to those on their way.
LEMMA Sent ==
    ASSUME PointsInv, NEW m \in Message, v2' = Append(v2, m)
    PROVE  /\ v2' \in Seq(Message)
           /\ Announced(v2) \/ m = PT!ConfigChange => Announced(v2')
<1>1. /\ v2' \in Seq(Message) /\ Len(v2') = Len(v2) + 1
      /\ v2'[Len(v2) + 1] = m /\ \A i \in DOMAIN v2 : i \in DOMAIN v2' /\ v2'[i] = v2[i]
      BY DEF PointsInv
<1>2. Len(v2) + 1 \in DOMAIN v2'
      BY <1>1 DEF PointsInv
<1> QED
    BY <1>1, <1>2 DEF Announced

LEMMA BackendKeeps ==
    ASSUME PointsInv,
           \E v \in Variable : \/ PT!Configure(v) \/ PT!ConfigureSilently(v)
                               \/ \E x \in PointValue : PT!Publish(v, x)
    PROVE  PointsInv'
<1> USE DEF PT!table
<1>1. ASSUME NEW v \in Variable, PT!Configure(v)
      PROVE  PointsInv'
  <2>1. /\ v1' \in {v1 \ {v}, v1 \cup {v}}
        /\ v2' = (IF v3 THEN Append(v2, PT!ConfigChange) ELSE v2)
        /\ UNCHANGED <<v3, v4, v5, v6, v7, v8, v9, v10, v11, v12>>
        BY <1>1 DEF PT!Configure, PT!Edited
  <2>2. v1' \subseteq Variable
        BY <2>1 DEF PointsInv, PT!TypeOK
  <2>3. v2' \in Seq(Message) /\ (v3 => Announced(v2'))
        BY <2>1, MessageFacts, Sent DEF PointsInv
  <2>4. PT!OldForAReason' /\ AnswersFit(v1', v2', v3', v8', v10', v12')
        BY <2>1, <2>3 DEF PT!OldForAReason, AnswersFit, Announced
  <2> QED
      BY <2>1, <2>2, <2>3, <2>4 DEF PointsInv, PT!TypeOK, PT!ShowsReceived
<1>2. ASSUME NEW v \in Variable, NEW x \in PointValue, PT!Publish(v, x)
      PROVE  PointsInv'
  <2>1. /\ v2' = Append(v2, PT!Point(v, x))
        /\ UNCHANGED <<v1, v3, v4, v5, v6, v7, v8, v9, v10, v11, v12>>
        BY <1>2 DEF PT!Publish
  <2>2. v2' \in Seq(Message) /\ (Announced(v2) => Announced(v2'))
        BY <2>1, MessageFacts, Sent
  <2>3. PT!OldForAReason' /\ AnswersFit(v1', v2', v3', v8', v10', v12')
        BY <2>1, <2>2
        DEF PointsInv, PT!OldForAReason, PT!Pending, AnswersFit, Announced
  <2> QED
      BY <2>1, <2>2, <2>3 DEF PointsInv, PT!TypeOK, PT!ShowsReceived
<1>3. ASSUME NEW v \in Variable, PT!ConfigureSilently(v)
      PROVE  PointsInv'
  <2>1. /\ v1' \in {v1 \ {v}, v1 \cup {v}} /\ v12' = (v12 \/ v3)
        /\ UNCHANGED <<v2, v3, v4, v5, v6, v7, v8, v9, v10, v11>>
        BY <1>3 DEF PT!ConfigureSilently, PT!Edited
  <2>2. PT!TypeOK'
        BY <2>1 DEF PointsInv, PT!TypeOK
  <2>3. OneAtATime(v10', v12')
        BY <2>1 DEF PointsInv, OneAtATime
  <2>4. PT!OldForAReason' /\ AnswersFit(v1', v2', v3', v8', v10', v12')
        BY <2>1 DEF PT!OldForAReason, AnswersFit
  <2> QED
      BY <2>1, <2>2, <2>3, <2>4 DEF PointsInv, PT!ShowsReceived
<1> QED
    BY <1>1, <1>2, <1>3

LEMMA SocketKeeps ==
    ASSUME PointsInv, PT!Lost \/ \E r \in Pair : PT!Connected(r)
    PROVE  PointsInv'
<1> USE DEF PT!table
<1>1. CASE PT!Lost
  <2>1. /\ v3' = FALSE /\ v2' = <<>> /\ v9' = FALSE
        /\ UNCHANGED <<v1, v4, v5, v6, v7, v8, v10, v11, v12>>
        BY <1>1 DEF PT!Lost
  <2>2. PT!TypeOK'
        BY <2>1 DEF PointsInv, PT!TypeOK
  <2>3. v2' \in Seq(Message)
        BY <2>1
  <2> QED
      BY <2>1, <2>2, <2>3
      DEF PointsInv, PT!ShowsReceived, PT!OldForAReason, FetchedNow, AnswersFit
<1>2. ASSUME NEW r \in Pair, PT!Connected(r)
      PROVE  PointsInv'
  <2>1. /\ ~v3 /\ v3' = TRUE /\ UNCHANGED <<v1, v4, v5, v6, v7, v8, v11>>
        /\ v2' \in {<<>>} \cup {<<PT!Point(v, x)>> : v \in Variable, x \in PointValue}
        BY <1>2 DEF PT!Connected
  <2>2. ~v9
        BY <2>1 DEF PointsInv, FetchedNow
  <2>3. PT!Fetch(r) /\ v9' = TRUE
        BY <1>2, <2>2 DEF PT!Connected
  <2>4. v2' \in Seq(Message)
    <3>1. \A v \in Variable, x \in PointValue : PT!Point(v, x) \in Message
          BY MessageFacts
    <3>2. CASE v2' = <<>>
          BY <3>2
    <3>3. ASSUME NEW v \in Variable, NEW x \in PointValue, v2' = <<PT!Point(v, x)>>
          PROVE  v2' \in Seq(Message)
          BY <3>1, <3>3
    <3> QED
        BY <2>1, <3>2, <3>3
  <2>5. /\ v10' \in [Pair -> [state : {"idle", "asked", "answered"}, list : SUBSET Variable]]
        /\ v12' \in BOOLEAN
        /\ OneAtATime(v10', v12') /\ PT!Pending' # {}
        /\ AnswersFit(v1, v2', v3', v8, v10', v12')
        BY <2>3, FetchFits
  <2>6. PT!TypeOK'
        BY <2>1, <2>3, <2>5 DEF PointsInv, PT!TypeOK
  <2>7. FetchedNow(v3', v9') /\ PT!OldForAReason'
        BY <2>1, <2>5 DEF FetchedNow, PT!OldForAReason
  <2> QED
      BY <2>1, <2>4, <2>5, <2>6, <2>7 DEF PointsInv, PT!ShowsReceived
<1> QED
    BY <1>1, <1>2

LEMMA PointsStep == ASSUME PointsInv, PT!Next PROVE PointsInv'
BY RequestsKeep, ImportKeeps, PanelKeeps, MessageKeeps, BackendKeeps, SocketKeeps
DEF PT!Next, PT!ConnectionPanel

\* While the part that runs is the point table, its invariant holds.
PointsHold == part = "points" => PointsInv

LEMMA PointsKept == PointsHold /\ [Next]_vars => PointsHold'
<1>1. SUFFICES ASSUME PointsHold, [Next]_vars, part' = "points"
               PROVE  PointsInv'
      BY DEF PointsHold
<1>2. CASE UNCHANGED vars
      BY <1>1, <1>2
      DEF vars, PointsHold, PointsInv, PT!TypeOK, PT!ShowsReceived, PT!OldForAReason,
          PT!Pending
<1>3. CASE Next
      BY <1>1, <1>3, PointsStep DEF Next, PointsHold
<1> QED
    BY <1>1, <1>2, <1>3

LEMMA PointsAlways == Spec => []PointsHold
<1>1. Init => PointsHold
      BY PointsStart DEF Init, PointsHold
<1> QED
    BY <1>1, PointsKept, PTL DEF Spec

-----------------------------------------------------------------------------
(* The bindings; Bindings declares its variables in this order: value v1,    *)
(* shapes v2, index v3, moving v4, open v5, last v6, clip v7, edits v8,      *)
(* excused v9.                                                               *)

\* Shape s, which is sh with transition m, is found and follows value v.
Following(s, sh, m, v, index) ==
    sh.there /\ sh.binding # None =>
        /\ BI!Record(s, sh) \in index
        /\ m # None => sh.binding = "smooth" /\ m = BI!Mapped(v)
        /\ v # None /\ m = None =>
              sh.shown = BI!Mapped(v) \/ (sh.grouped /\ sh.binding = "smooth")

\* There is no transition before there is a value.
NothingMoves(value, moving) == value = None => \A s \in Pair : moving[s] = None

BindingsInv ==
    /\ BI!TypeOK /\ NothingMoves(v1, v4)
    /\ v5 => \A s \in Pair \ v9 : Following(s, v2[s], v4[s], v1, v3)

LEMMA ValueFacts ==
    /\ None \notin BI!Value
    /\ \A v \in BI!Value : BI!Mapped(v) \in BI!Value /\ BI!Mapped(v) # None
<1>1. None \notin BI!Value /\ MaxValue \in Nat
      BY EditorAssumption
<1>2. \A v \in BI!Value : BI!Mapped(v) \in BI!Value
      BY <1>1 DEF BI!Value, BI!Mapped
<1> QED
    BY <1>1, <1>2

LEMMA AbsentFits == BI!Absent \in BI!ShapeType
BY ValueFacts, EditorAssumption DEF BI!Absent, BI!ShapeType, BI!Value

\* applyBinding changes what a shape shows and its transition; after it the shape
\* follows the value.
LEMMA ApplyFits ==
    ASSUME NEW sh \in BI!ShapeType, NEW m \in BI!Value \cup {None},
           NEW v \in BI!Value \cup {None}, v = None => m = None,
           NEW s, NEW index,
           sh.there /\ sh.binding # None => BI!Record(s, sh) \in index
    PROVE  LET a == BI!Apply(sh, m, v) IN
           /\ a.shape \in BI!ShapeType /\ a.moving \in BI!Value \cup {None}
           /\ v = None => a.moving = None
           /\ Following(s, a.shape, a.moving, v, index)
<1> DEFINE a == BI!Apply(sh, m, v)
<1>1. CASE v = None \/ sh.binding = None \/ ~sh.there
  <2>1. a = [shape |-> sh, moving |-> m]
        BY <1>1 DEF BI!Apply
  <2> QED
      BY <1>1, <2>1 DEF Following
<1>2. CASE v # None /\ sh.binding = "smooth" /\ sh.there /\ sh.binding # None
  <2>1. a = [shape |-> sh, moving |-> IF sh.shown = BI!Mapped(v) THEN None ELSE BI!Mapped(v)]
        BY <1>2 DEF BI!Apply
  <2>2. BI!Mapped(v) \in BI!Value /\ BI!Mapped(v) # None
        BY <1>2, ValueFacts
  <2> QED
      BY <1>2, <2>1, <2>2 DEF Following
<1>3. CASE v # None /\ sh.binding # "smooth" /\ sh.there /\ sh.binding # None
  <2>1. a = [shape |-> [sh EXCEPT !.shown = BI!Mapped(v)], moving |-> None]
        BY <1>3 DEF BI!Apply
  <2>2. BI!Mapped(v) \in BI!Value
        BY <1>3, ValueFacts
  <2>3. /\ a.shape \in BI!ShapeType /\ a.shape.shown = BI!Mapped(v)
        /\ a.shape.there = sh.there /\ a.shape.grouped = sh.grouped
        /\ a.shape.binding = sh.binding
        BY <2>1, <2>2 DEF BI!ShapeType
  <2>4. a.moving = None
        BY <2>1
  <2>5. BI!Record(s, a.shape) = BI!Record(s, sh)
        BY <2>3 DEF BI!Record
  <2> HIDE DEF a
  <2>6. Following(s, a.shape, a.moving, v, index)
        BY <1>3, <2>3, <2>4, <2>5 DEF Following
  <2> QED
      BY <2>3, <2>4, <2>6 DEF a
<1> QED
    BY <1>1, <1>2, <1>3

LEMMA BindingsStart == ASSUME BI!Init PROVE BindingsInv
<1>1. PICK s \in Pair :
          v2 = [t \in Pair |-> IF t = s THEN [BI!Absent EXCEPT !.there = TRUE]
                              ELSE BI!Absent]
      BY DEF BI!Init
<1>2. /\ [BI!Absent EXCEPT !.there = TRUE] \in BI!ShapeType
      /\ [BI!Absent EXCEPT !.there = TRUE].binding = None
      /\ BI!Absent.binding = None
      BY AbsentFits DEF BI!Absent, BI!ShapeType
<1>3. v2 \in [Pair -> BI!ShapeType] /\ \A t \in Pair : v2[t].binding = None
      BY <1>1, <1>2, AbsentFits
<1>4. BI!TypeOK
  <2>1. 0 \in 0 .. MaxBindingEdits
        BY EditorAssumption
  <2> QED
      BY <1>3, <2>1 DEF BI!Init, BI!TypeOK
<1>5. NothingMoves(v1, v4)
      BY DEF BI!Init, NothingMoves
<1> QED
    BY <1>3, <1>4, <1>5 DEF BindingsInv, Following

\* reindexPath of s, which becomes sh.
LEMMA ReindexFits ==
    ASSUME BindingsInv, NEW s \in Pair, NEW sh \in BI!ShapeType, BI!Reindex(s, sh)
    PROVE  /\ v2' \in [Pair -> BI!ShapeType]
           /\ v3' \subseteq [shape : Pair, grouped : BOOLEAN]
           /\ v4' \in [Pair -> BI!Value \cup {None}]
           /\ v9' \subseteq Pair
           /\ NothingMoves(v1, v4')
           /\ v5 => \A t \in Pair \ v9' : Following(t, v2'[t], v4'[t], v1, v3')
<1> DEFINE a == BI!Apply(sh, v4[s], v1)
<1>1. /\ v1 \in BI!Value \cup {None} /\ v2 \in [Pair -> BI!ShapeType]
      /\ v3 \subseteq [shape : Pair, grouped : BOOLEAN]
      /\ v4 \in [Pair -> BI!Value \cup {None}] /\ v9 \subseteq Pair
      BY DEF BindingsInv, BI!TypeOK
<1>2. /\ v3' = BI!Indexed(s, sh)
      /\ v2' = [v2 EXCEPT ![s] = a.shape] /\ v4' = [v4 EXCEPT ![s] = a.moving]
      /\ v9' = v9 \ {s}
      BY DEF BI!Reindex
<1>3. /\ sh.there /\ sh.binding # None => BI!Record(s, sh) \in v3'
      /\ \A r \in v3 : r.shape # s => r \in v3'
      BY <1>2 DEF BI!Indexed
<1>4. v3' \subseteq [shape : Pair, grouped : BOOLEAN]
  <2>1. BI!Record(s, sh) \in [shape : Pair, grouped : BOOLEAN]
        BY DEF BI!Record, BI!ShapeType
  <2> QED
      BY <1>1, <1>2, <2>1 DEF BI!Indexed
<1>5. v1 = None => v4[s] = None
      BY DEF BindingsInv, NothingMoves
<1>6. /\ a.shape \in BI!ShapeType /\ a.moving \in BI!Value \cup {None}
      /\ v1 = None => a.moving = None
      /\ Following(s, a.shape, a.moving, v1, v3')
      BY <1>1, <1>3, <1>5, ApplyFits
<1> HIDE DEF a
<1>7. /\ v2' \in [Pair -> BI!ShapeType] /\ v4' \in [Pair -> BI!Value \cup {None}]
      /\ v2'[s] = a.shape /\ v4'[s] = a.moving
      /\ \A t \in Pair \ {s} : v2'[t] = v2[t] /\ v4'[t] = v4[t]
      BY <1>1, <1>2, <1>6
<1>8. NothingMoves(v1, v4')
      BY <1>6, <1>7 DEF BindingsInv, NothingMoves
<1>9. ASSUME NEW t \in Pair \ {s}, t \notin v9, v5
      PROVE  Following(t, v2'[t], v4'[t], v1, v3')
  <2>1. Following(t, v2[t], v4[t], v1, v3)
        BY <1>9 DEF BindingsInv
  <2>2. \A x : BI!Record(t, x).shape = t
        BY DEF BI!Record
  <2> QED
      BY <1>3, <1>7, <1>9, <2>1, <2>2 DEF Following
<1> QED
    BY <1>1, <1>2, <1>4, <1>6, <1>7, <1>8, <1>9

\* A command is pushed that makes sh of s.
LEMMA PushFits ==
    ASSUME BindingsInv, NEW s \in Pair, NEW sh \in BI!ShapeType, BI!Push(s, sh)
    PROVE  /\ v8' \in 0 .. MaxBindingEdits
           /\ v6' = None \/ v6' \in [shape : Pair, before : BI!ShapeType,
                                    after : BI!ShapeType, undone : BOOLEAN]
<1>1. v2[s] \in BI!ShapeType /\ v8 \in 0 .. MaxBindingEdits /\ MaxBindingEdits \in Nat
      BY EditorAssumption DEF BindingsInv, BI!TypeOK
<1>2. v8' = v8 + 1 /\ v8 < MaxBindingEdits
      BY DEF BI!Push
<1>3. v6' = [shape |-> s, before |-> v2[s], after |-> sh, undone |-> FALSE]
      BY DEF BI!Push
<1> QED
    BY <1>1, <1>2, <1>3

\* What makes a shape anew and pushes a command for it.
LEMMA EditKeeps ==
    ASSUME BindingsInv, NEW s \in Pair, NEW sh \in BI!ShapeType,
           BI!Reindex(s, sh), BI!Push(s, sh), UNCHANGED <<v1, v5, v7>>
    PROVE  BindingsInv'
BY ReindexFits, PushFits DEF BindingsInv, BI!TypeOK

LEMMA EditsKeep ==
    ASSUME BindingsInv, NEW s \in Pair,
           \/ \E b \in BI!Binding \cup {None} : BI!SetBinding(s, b)
           \/ BI!DeleteShape(s)
           \/ \E grouped \in BOOLEAN : BI!Group(s, grouped)
    PROVE  BindingsInv'
<1>1. v2[s] \in BI!ShapeType
      BY DEF BindingsInv, BI!TypeOK
<1>2. ASSUME NEW b \in BI!Binding \cup {None}, BI!SetBinding(s, b)
      PROVE  BindingsInv'
  <2>1. [v2[s] EXCEPT !.binding = b] \in BI!ShapeType
        BY <1>1 DEF BI!ShapeType
  <2> QED
      BY <1>2, <2>1, EditKeeps DEF BI!SetBinding
<1>3. CASE BI!DeleteShape(s)
      BY <1>3, AbsentFits, EditKeeps DEF BI!DeleteShape
<1>4. ASSUME NEW grouped \in BOOLEAN, BI!Group(s, grouped)
      PROVE  BindingsInv'
  <2>1. [v2[s] EXCEPT !.grouped = grouped] \in BI!ShapeType
        BY <1>1 DEF BI!ShapeType
  <2> QED
      BY <1>4, <2>1, EditKeeps DEF BI!Group
<1> QED
    BY <1>2, <1>3, <1>4

\* A shape changes without its record, and is excused.
LEMMA ExcusedKeeps ==
    ASSUME BindingsInv, NEW s \in Pair, NEW sh \in BI!ShapeType,
           v2' = [v2 EXCEPT ![s] = sh], v9' = v9 \cup {s}, BI!Push(s, sh),
           UNCHANGED <<v1, v3, v4, v5, v7>>
    PROVE  BindingsInv'
<1>1. v2 \in [Pair -> BI!ShapeType] /\ v9 \subseteq Pair
      BY DEF BindingsInv, BI!TypeOK
<1>2. /\ v2' \in [Pair -> BI!ShapeType] /\ v9' \subseteq Pair
      /\ \A t \in Pair \ v9' : v2'[t] = v2[t] /\ t \notin v9
      BY <1>1
<1>3. BI!TypeOK'
      BY <1>2, PushFits DEF BindingsInv, BI!TypeOK
<1> QED
    BY <1>2, <1>3 DEF BindingsInv, NothingMoves

LEMMA PropertiesKeep ==
    ASSUME BindingsInv, NEW s \in Pair,
           BI!PropertyPanel(s) \/ BI!CopySelected(s) \/ BI!PasteClipboard(s)
    PROVE  BindingsInv'
<1>1. v2[s] \in BI!ShapeType
      BY DEF BindingsInv, BI!TypeOK
<1>2. ASSUME NEW x \in BI!Value, BI!SetProperty(s, x)
      PROVE  BindingsInv'
  <2>1. [v2[s] EXCEPT !.shown = x] \in BI!ShapeType
        BY <1>1 DEF BI!ShapeType
  <2> QED
      BY <1>2, <2>1, ExcusedKeeps DEF BI!SetProperty
<1>3. CASE BI!CopySelected(s)
      BY <1>1, <1>3 DEF BI!CopySelected, BindingsInv, BI!TypeOK
<1>4. CASE BI!PasteClipboard(s)
  <2>1. v7 \in BI!ShapeType
        BY <1>4 DEF BI!PasteClipboard, BindingsInv, BI!TypeOK
  <2> QED
      BY <1>4, <2>1, ExcusedKeeps DEF BI!PasteClipboard
<1> QED
    BY <1>2, <1>3, <1>4 DEF BI!PropertyPanel

LEMMA UndoRedoKeeps ==
    ASSUME BindingsInv, BI!UndoRedo
    PROVE  BindingsInv'
<1>1. /\ v6 \in [shape : Pair, before : BI!ShapeType, after : BI!ShapeType, undone : BOOLEAN]
      /\ v6' = [v6 EXCEPT !.undone = ~@] /\ UNCHANGED <<v1, v5, v7, v8>>
      BY DEF BI!UndoRedo, BindingsInv, BI!TypeOK
<1>2. PICK s \in Pair, sh \in BI!ShapeType : BI!Reindex(s, sh)
      BY <1>1 DEF BI!UndoRedo
<1>3. v6' \in [shape : Pair, before : BI!ShapeType, after : BI!ShapeType, undone : BOOLEAN]
      BY <1>1
<1> QED
    BY <1>1, <1>2, <1>3, ReindexFits DEF BindingsInv, BI!TypeOK

LEMMA VariableKeeps ==
    ASSUME BindingsInv, NEW v \in BI!Value, BI!SetVariable(v)
    PROVE  BindingsInv'
<1> DEFINE found == {s \in Pair : BI!Record(s, v2[s]) \in v3}
           a(s) == IF s \in found THEN BI!Apply(v2[s], v4[s], v)
                   ELSE [shape |-> v2[s], moving |-> v4[s]]
<1>1. /\ v1' = v
      /\ v2' = [s \in Pair |-> a(s).shape] /\ v4' = [s \in Pair |-> a(s).moving]
      /\ v9' = v9 \ found /\ UNCHANGED <<v3, v5, v6, v7, v8>>
      BY DEF BI!SetVariable
<1>2. v # None
      BY ValueFacts
<1>3. ASSUME NEW s \in Pair
      PROVE  /\ a(s).shape \in BI!ShapeType /\ a(s).moving \in BI!Value \cup {None}
             /\ s \in found => Following(s, a(s).shape, a(s).moving, v, v3)
             /\ s \notin found => a(s).shape = v2[s]
  <2>1. v2[s] \in BI!ShapeType /\ v4[s] \in BI!Value \cup {None}
        BY DEF BindingsInv, BI!TypeOK
  <2>2. CASE s \in found
        BY <1>2, <2>1, <2>2, ApplyFits
  <2>3. CASE s \notin found
        BY <2>1, <2>3
  <2> QED
      BY <2>2, <2>3
<1> HIDE DEF a
<1>4. BI!TypeOK'
      BY <1>1, <1>3 DEF BindingsInv, BI!TypeOK
<1>5. NothingMoves(v1', v4')
      BY <1>1, <1>2 DEF NothingMoves
<1>6. ASSUME NEW s \in Pair, s \notin v9', v5
      PROVE  Following(s, v2'[s], v4'[s], v1', v3')
  <2>1. CASE s \in found
        BY <1>1, <1>3, <2>1
  <2>2. CASE s \notin found
    <3>1. Following(s, v2[s], v4[s], v1, v3)
          BY <1>1, <1>6, <2>2 DEF BindingsInv
    <3>2. v2'[s] = v2[s] /\ ~(v2[s].there /\ v2[s].binding # None)
          BY <1>1, <1>3, <2>2, <3>1 DEF Following
    <3> QED
        BY <3>2 DEF Following
  <2> QED
      BY <2>1, <2>2
<1> QED
    BY <1>1, <1>4, <1>5, <1>6 DEF BindingsInv

LEMMA TickKeeps ==
    ASSUME BindingsInv, NEW s \in Pair, NEW ended \in BOOLEAN, BI!Tick(s, ended)
    PROVE  BindingsInv'
<1> DEFINE at == v5 /\ v2[s].there /\ ~v2[s].grouped
           x == IF ended THEN v4[s] ELSE BI!Between
<1>1. /\ v4[s] # None
      /\ v2' = (IF at THEN [v2 EXCEPT ![s].shown = x] ELSE v2)
      /\ v4' = (IF ended THEN [v4 EXCEPT ![s] = None] ELSE v4)
      /\ UNCHANGED <<v1, v3, v5, v6, v7, v8, v9>>
      BY DEF BI!Tick
<1>2. /\ v2 \in [Pair -> BI!ShapeType] /\ v2[s] \in BI!ShapeType
      /\ v4 \in [Pair -> BI!Value \cup {None}]
      BY DEF BindingsInv, BI!TypeOK
<1>3. x \in BI!Value \cup {BI!Between}
      BY <1>1, <1>2
<1>4. /\ [v2[s] EXCEPT !.shown = x] \in BI!ShapeType
      /\ v2' \in [Pair -> BI!ShapeType]
      /\ v2'[s] = (IF at THEN [v2[s] EXCEPT !.shown = x] ELSE v2[s])
      /\ \A t \in Pair \ {s} : v2'[t] = v2[t]
      BY <1>1, <1>2, <1>3 DEF BI!ShapeType
<1>5. /\ v4' \in [Pair -> BI!Value \cup {None}]
      /\ v4'[s] = (IF ended THEN None ELSE v4[s]) /\ \A t \in Pair \ {s} : v4'[t] = v4[t]
      BY <1>1, <1>2
<1>6. BI!TypeOK'
      BY <1>1, <1>4, <1>5 DEF BindingsInv, BI!TypeOK
<1>7. NothingMoves(v1', v4')
      BY <1>1, <1>5 DEF BindingsInv, NothingMoves
<1>8. ASSUME v5, s \notin v9
      PROVE  Following(s, v2'[s], v4'[s], v1, v3)
  <2>1. Following(s, v2[s], v4[s], v1, v3)
        BY <1>8 DEF BindingsInv
  <2>2. /\ v2'[s].there = v2[s].there /\ v2'[s].grouped = v2[s].grouped
        /\ v2'[s].binding = v2[s].binding
        /\ at => v2'[s].shown = x
        BY <1>2, <1>3, <1>4 DEF BI!ShapeType
  <2> QED
      BY <1>1, <1>5, <1>8, <2>1, <2>2 DEF Following, BI!Record
<1> QED
    BY <1>1, <1>4, <1>5, <1>6, <1>7, <1>8 DEF BindingsInv

LEMMA PageKeeps ==
    ASSUME BindingsInv, BI!LeavePage \/ BI!EnterPage
    PROVE  BindingsInv'
<1>1. CASE BI!LeavePage
  <2>1. v5' = FALSE /\ v3' = {} /\ UNCHANGED <<v1, v2, v4, v6, v7, v8, v9>>
        BY <1>1 DEF BI!LeavePage
  <2> QED
      BY <2>1 DEF BindingsInv, BI!TypeOK, NothingMoves
<1>2. CASE BI!EnterPage
  <2>1. /\ v3' = {BI!Record(s, v2[s]) : s \in {t \in Pair : BI!Bound(t)}}
        /\ v9' = {s \in Pair : v1 # None /\ (v2[s].shown # BI!Mapped(v1) \/ v4[s] # None)}
        /\ v5' = TRUE /\ UNCHANGED <<v1, v2, v4, v6, v7, v8>>
        BY <1>2 DEF BI!EnterPage
  <2>2. v3' \subseteq [shape : Pair, grouped : BOOLEAN]
        BY <2>1 DEF BindingsInv, BI!TypeOK, BI!ShapeType, BI!Record
  <2>3. BI!TypeOK'
        BY <2>1, <2>2 DEF BindingsInv, BI!TypeOK
  <2>4. ASSUME NEW s \in Pair, s \notin v9'
        PROVE  Following(s, v2[s], v4[s], v1, v3')
    <3>1. v1 # None => v2[s].shown = BI!Mapped(v1) /\ v4[s] = None
          BY <2>1, <2>4
    <3>2. v1 = None => v4[s] = None
          BY DEF BindingsInv, NothingMoves
    <3>3. v2[s].there /\ v2[s].binding # None => BI!Record(s, v2[s]) \in v3'
          BY <2>1 DEF BI!Bound
    <3> QED
        BY <3>1, <3>2, <3>3 DEF Following
  <2>5. UNCHANGED <<v1, v2, v4>>
        BY <2>1
  <2>6. \A s \in Pair \ v9' : Following(s, v2'[s], v4'[s], v1', v3')
        BY <2>4, <2>5
  <2>7. NothingMoves(v1', v4')
        BY <2>5 DEF BindingsInv, NothingMoves
  <2> QED
      BY <2>3, <2>6, <2>7 DEF BindingsInv
<1> QED
    BY <1>1, <1>2

LEMMA BindingsStep == ASSUME BindingsInv, BI!Next PROVE BindingsInv'
BY EditsKeep, PropertiesKeep, UndoRedoKeeps, VariableKeeps, TickKeeps, PageKeeps
DEF BI!Next, BI!BindingPanel, BI!Canvas

\* While the part that runs is the bindings, their invariant holds.
BindingsHold == part = "bindings" => BindingsInv

LEMMA BindingsKept == BindingsHold /\ [Next]_vars => BindingsHold'
<1>1. SUFFICES ASSUME BindingsHold, [Next]_vars, part' = "bindings"
               PROVE  BindingsInv'
      BY DEF BindingsHold
<1>2. CASE UNCHANGED vars
      BY <1>1, <1>2 DEF vars, BindingsHold, BindingsInv, BI!TypeOK
<1>3. CASE Next
      BY <1>1, <1>3, BindingsStep DEF Next, BindingsHold
<1> QED
    BY <1>1, <1>2, <1>3

LEMMA BindingsAlways == Spec => []BindingsHold
<1>1. Init => BindingsHold
      BY BindingsStart DEF Init, BindingsHold
<1> QED
    BY <1>1, BindingsKept, PTL DEF Spec

-----------------------------------------------------------------------------
(* Folds over finite sets.                                                   *)

\* Of sets that are subsets of a finite one, some are smallest.
LEMMA Smallest ==
    ASSUME NEW S, IsFiniteSet(S), NEW T, T \subseteq SUBSET S, T # {}
    PROVE  \E X \in T : \A Y \in T : Y \subseteq X => Y = X
<1> DEFINE R == StrictSubsetOrdering(S)
<1>1. IsWellFoundedOn(R, SUBSET S)
      BY FS_StrictSubsetOrderingWellFounded, FS_FiniteSubsetsOfFinite
<1>2. \A X, Y \in T : Y \subseteq X /\ Y # X => <<Y, X>> \in R
      BY DEF StrictSubsetOrdering
<1> HIDE DEF R
<1>3. \E x \in T : \A y \in T : ~ (<<y, x>> \in R)
      BY <1>1, WFMin
<1> QED
    BY <1>2, <1>3

\* What holds of {} and of a set when it holds without one of its elements holds
\* of every subset of a finite set.
LEMMA FoldKeeps ==
    ASSUME NEW S, IsFiniteSet(S), NEW I, NEW g, g[{}] \in I[{}],
           \A s \in SUBSET S : s # {} =>
              \E x \in s : g[s \ {x}] \in I[s \ {x}] => g[s] \in I[s]
    PROVE  \A s \in SUBSET S : g[s] \in I[s]
<1> DEFINE T == {s \in SUBSET S : g[s] \notin I[s]}
<1>1. SUFFICES ASSUME T # {} PROVE FALSE
      OBVIOUS
<1>2. PICK X \in T : \A Y \in T : Y \subseteq X => Y = X
  <2>1. T \subseteq SUBSET S
        OBVIOUS
  <2> HIDE DEF T
  <2> QED
      BY <1>1, <2>1, Smallest
<1>3. X # {}
      OBVIOUS
<1>4. PICK x \in X : g[X \ {x}] \in I[X \ {x}] => g[X] \in I[X]
      BY <1>3
<1>5. X \ {x} \in SUBSET S /\ X \ {x} \notin T
      BY <1>2, <1>4
<1> QED
    BY <1>4, <1>5

\* Of natural numbers, one is least.
LEMMA Least == ASSUME NEW T, T \subseteq Nat, T # {} PROVE \E n \in T : \A m \in T : n <= m
<1>1. PICK k \in T : TRUE
      OBVIOUS
<1> DEFINE D == {X \in SUBSET (0..k) : \E n \in T : n <= k /\ X = 0..n}
<1>2. IsFiniteSet(0..k)
      BY FS_Interval
<1>6. D \subseteq SUBSET (0..k) /\ 0..k \in D
      OBVIOUS
<1>3. PICK X \in D : \A Y \in D : Y \subseteq X => Y = X
  <2> DEFINE S == 0..k
  <2>1. IsFiniteSet(S) /\ D \subseteq SUBSET S /\ D # {}
        BY <1>2, <1>6
  <2> HIDE DEF D, S
  <2> QED
      BY <2>1, Smallest
<1>4. PICK n \in T : n <= k /\ X = 0..n
      BY <1>3
<1>5. ASSUME NEW m \in T, m < n PROVE FALSE
  <2> m \in Nat /\ n \in Nat /\ k \in Nat
      BY <1>1, <1>4, <1>5
  <2>1. m <= k /\ 0..m \subseteq X
        BY <1>4, <1>5
  <2>3. 0..m \in D
        BY <1>5, <2>1
  <2>2. 0..m = 0..n
        BY <1>3, <1>4, <2>1, <2>3
  <2> QED
      BY <1>5, <2>2
<1> QED
    BY <1>4, <1>5

\* A function that folds sets, taking of each the element that pick names.
FoldsBy(pick, g, sets, base, op) ==
    g = [s \in sets |-> IF s = {} THEN base ELSE op[<<pick[s], g[s \ {pick[s]}]>>]]

\* A finite set can be folded.
LEMMA FoldByExists ==
    ASSUME NEW S, IsFiniteSet(S), NEW base, NEW op, NEW pick,
           \A s \in SUBSET S : s # {} => pick[s] \in s
    PROVE  \E g : FoldsBy(pick, g, SUBSET S, base, op)
<1> DEFINE Upto(n) == {s \in SUBSET S : Cardinality(s) <= n}
           Bad == {n \in Nat : ~ \E g : FoldsBy(pick, g, Upto(n), base, op)}
<1>1. \A s \in SUBSET S : IsFiniteSet(s) /\ Cardinality(s) \in Nat
      BY FS_Subset, FS_CardinalityType
<1>2. \A s \in SUBSET S : s # {} => /\ pick[s] \in s
                                    /\ Cardinality(s \ {pick[s]}) = Cardinality(s) - 1
      BY <1>1, FS_RemoveElement
<1>3. Bad = {}
  <2>1. SUFFICES ASSUME Bad # {} PROVE FALSE
        OBVIOUS
  <2>2. PICK n \in Bad : \A m \in Bad : n <= m
    <3>1. Bad \subseteq Nat
          OBVIOUS
    <3> HIDE DEF Bad
    <3> QED
        BY <2>1, <3>1, Least
  <2>3. CASE n = 0
    <3>1. Upto(0) = {{}}
          BY <1>1, FS_EmptySet
    <3> DEFINE g == [s \in {{}} |-> base]
    <3>2. FoldsBy(pick, g, Upto(0), base, op)
          BY <3>1 DEF FoldsBy
    <3>3. \E f : FoldsBy(pick, f, Upto(n), base, op)
      <4> HIDE DEF g, Upto
      <4> QED
          BY <2>3, <3>2
    <3> QED
        BY <2>2, <3>3
  <2>4. CASE n # 0
    <3>1. n \in Nat /\ n - 1 \in Nat /\ n - 1 \notin Bad
      <4>1. Bad \subseteq Nat
            OBVIOUS
      <4> HIDE DEF Bad
      <4> QED
          BY <2>2, <2>4, <4>1
    <3>2. PICK g : FoldsBy(pick, g, Upto(n - 1), base, op)
          BY <3>1
    <3> DEFINE h == [s \in Upto(n) |-> IF s = {} THEN base
                                       ELSE op[<<pick[s], g[s \ {pick[s]}]>>]]
    <3>3. \A s \in Upto(n - 1) : s \in Upto(n) /\ g[s] = h[s]
      <4>1. \A s \in Upto(n - 1) : s \in Upto(n)
            BY <1>1, <3>1
      <4> HIDE DEF Upto
      <4> QED
          BY <3>2, <4>1 DEF FoldsBy
    <3>4. \A s \in Upto(n) : s # {} => s \ {pick[s]} \in Upto(n - 1)
          BY <1>1, <1>2, <3>1
    <3> HIDE DEF Upto
    <3>5. FoldsBy(pick, h, Upto(n), base, op)
          BY <3>3, <3>4 DEF FoldsBy
    <3> QED
        BY <3>1, <3>5
  <2> QED
      BY <2>3, <2>4
<1>4. PICK g : FoldsBy(pick, g, Upto(Cardinality(S)), base, op)
      BY <1>1, <1>3
<1>5. Upto(Cardinality(S)) = SUBSET S
      BY <1>1, FS_Subset
<1> QED
    BY <1>4, <1>5

\* Folding keeps what each step keeps: I[s] is where the fold of s is.
LEMMA FoldByFits ==
    ASSUME NEW S, IsFiniteSet(S), NEW I, NEW op, NEW base \in I[{}], NEW pick,
           \A s \in SUBSET S : s # {} => pick[s] \in s,
           \A s \in SUBSET S : \A e :
              s # {} /\ e \in I[s \ {pick[s]}] => op[<<pick[s], e>>] \in I[s]
    PROVE  \E g : FoldsBy(pick, g, SUBSET S, base, op) /\ \A s \in SUBSET S : g[s] \in I[s]
<1>1. PICK g : FoldsBy(pick, g, SUBSET S, base, op)
      BY FoldByExists
<1>2. g[{}] \in I[{}]
      BY <1>1 DEF FoldsBy
<1>3. ASSUME NEW s \in SUBSET S, s # {}
      PROVE  \E x \in s : g[s \ {x}] \in I[s \ {x}] => g[s] \in I[s]
  <2>1. g[s] = op[<<pick[s], g[s \ {pick[s]}]>>]
        BY <1>1, <1>3 DEF FoldsBy
  <2> QED
      BY <1>3, <2>1
<1>4. \A s \in SUBSET S : g[s] \in I[s]
      BY <1>2, <1>3, FoldKeeps
<1> QED
    BY <1>1, <1>4

\* The element a fold takes first when it may take any.
Taken(s) == CHOOSE x \in s : TRUE
Folds(g, sets, base, op) ==
    g = [s \in sets |-> IF s = {} THEN base ELSE op[<<Taken(s), g[s \ {Taken(s)}]>>]]

LEMMA FoldFits ==
    ASSUME NEW S, IsFiniteSet(S), NEW I, NEW op, NEW base \in I[{}],
           \A s \in SUBSET S, x \in S : \A e : x \in s /\ e \in I[s \ {x}] => op[<<x, e>>] \in I[s]
    PROVE  \E g : Folds(g, SUBSET S, base, op) /\ \A s \in SUBSET S : g[s] \in I[s]
<1> DEFINE pick == [s \in SUBSET S |-> Taken(s)]
<1>1. \A s \in SUBSET S : s # {} => pick[s] = Taken(s) /\ pick[s] \in s /\ pick[s] \in S
      BY DEF Taken
<1> HIDE DEF pick
<1>2. \A s \in SUBSET S : \A e :
         s # {} /\ e \in I[s \ {pick[s]}] => op[<<pick[s], e>>] \in I[s]
      BY <1>1
<1>3. PICK g : FoldsBy(pick, g, SUBSET S, base, op) /\ \A s \in SUBSET S : g[s] \in I[s]
      BY <1>1, <1>2, FoldByFits
<1>4. Folds(g, SUBSET S, base, op)
      BY <1>1, <1>3 DEF FoldsBy, Folds
<1> QED
    BY <1>3, <1>4

-----------------------------------------------------------------------------
(* The alarm engine of the editor.  LocalAlarms declares its variables in    *)
(* this order: rules v1, engine v2, running v3, edited v4, narrowed v5.      *)

EventType == {"trigger", "ack", "recover", "rule_disabled"}
AlarmType ==
    [rule : Rule, status : {"active", "recovered", "acknowledged"}, acked : BOOLEAN,
     recovered : BOOLEAN, kind : Condition, events : Seq(EventType)]
EngineType ==
    [confirm : [Rule -> {LA!NoEntry} \cup [rule : LA!Setting, elapsed : BOOLEAN]],
     last : [value : 0..2, quality : {"good", "bad", "none"}],
     occ : Seq(AlarmType), active : SUBSET Nat, history : SUBSET Nat]

Count(events, kinds) == Cardinality({i \in DOMAIN events : events[i] \in kinds})

\* The events of alarm a tell what happened to it.
Told(a) ==
    /\ Count(a.events, {"trigger"}) = 1
    /\ Count(a.events, {"ack"}) = IF a.acked THEN 1 ELSE 0
    /\ Count(a.events, {"recover", "rule_disabled"})
          = IF a.recovered /\ a.kind # "change" THEN 1 ELSE 0
    /\ a.status = "active" => ~a.acked
    /\ a.kind = "change" => a.recovered

\* Every alarm is in the list it belongs in.
Listed(e, narrowed) ==
    /\ e.active \cup e.history \subseteq DOMAIN e.occ
    /\ \A o \in DOMAIN e.occ : /\ Told(e.occ[o])
                               /\ o \in e.active <=> ~e.occ[o].recovered
                               /\ e.occ[o].recovered => o \in e.history \/ narrowed

\* Rule r is there and on, and has no second alarm beside o.
Stands(e, rules, o) ==
    LET r == e.occ[o].rule
    IN  /\ rules[r] # NoRule /\ rules[r].enabled
        /\ \A p \in e.active : e.occ[p].rule = r => p = o

\* The candidate of rule r is of the rule as it is, which has no alarm.
Waits(e, rules, r) ==
    /\ rules[r] # NoRule /\ rules[r].enabled /\ rules[r].confirm
    /\ e.confirm[r].rule = rules[r]
    /\ \A p \in e.active : e.occ[p].rule # r

Good(rules, edited, narrowed) ==
    {e \in EngineType :
        /\ Listed(e, narrowed)
        /\ \A o \in e.active : e.occ[o].rule \in edited \/ Stands(e, rules, o)
        /\ \A r \in Rule \ edited : e.confirm[r] # LA!NoEntry => Waits(e, rules, r)}

LEMMA CountIs ==
    /\ Count(<<"trigger">>, {"trigger"}) = 1
    /\ Count(<<"trigger">>, {"ack"}) = 0
    /\ Count(<<"trigger">>, {"recover", "rule_disabled"}) = 0
<1> DEFINE K(kinds) == {i \in DOMAIN <<"trigger">> : <<"trigger">>[i] \in kinds}
<1>1. K({"trigger"}) = {1} /\ K({"ack"}) = {} /\ K({"recover", "rule_disabled"}) = {}
      OBVIOUS
<1> QED
    BY <1>1, FS_EmptySet, FS_Singleton DEF Count

LEMMA CountAppend ==
    ASSUME NEW events \in Seq(EventType), NEW x \in EventType, NEW kinds
    PROVE  /\ Count(events, kinds) \in Nat
           /\ Count(Append(events, x), kinds)
                 = Count(events, kinds) + (IF x \in kinds THEN 1 ELSE 0)
<1> DEFINE K == {i \in DOMAIN events : events[i] \in kinds}
           L == {i \in DOMAIN Append(events, x) : Append(events, x)[i] \in kinds}
           n == Len(events) + 1
<1>1. IsFiniteSet(K) /\ Cardinality(K) \in Nat
  <2>1. IsFiniteSet(1..Len(events)) /\ K \subseteq 1..Len(events)
        BY FS_Interval
  <2> QED
      BY <2>1, FS_Subset, FS_CardinalityType
<1>2. L = (IF x \in kinds THEN K \cup {n} ELSE K) /\ n \notin K
      OBVIOUS
<1> HIDE DEF K, L, n
<1>3. Cardinality(K \cup {n}) = Cardinality(K) + 1
      BY <1>1, <1>2, FS_AddElement
<1>4. Cardinality(L) = Cardinality(K) + (IF x \in kinds THEN 1 ELSE 0)
      BY <1>1, <1>2, <1>3
<1> QED
    BY <1>1, <1>4 DEF Count, K, L

LEMMA RaisedFits ==
    ASSUME NEW r \in Rule, NEW k \in Condition
    PROVE  LA!Raised(r, k) \in AlarmType /\ Told(LA!Raised(r, k))
<1>1. <<"trigger">> \in Seq(EventType)
      BY DEF EventType
<1> QED
    BY <1>1, CountIs DEF LA!Raised, AlarmType, Told

LEMMA RecoveredFits ==
    ASSUME NEW a \in AlarmType, Told(a), ~a.recovered,
           NEW reason \in {"recover", "rule_disabled"}
    PROVE  /\ LA!RecoveredAlarm(a, reason) \in AlarmType /\ Told(LA!RecoveredAlarm(a, reason))
           /\ LA!RecoveredAlarm(a, reason).recovered
           /\ LA!RecoveredAlarm(a, reason).rule = a.rule
<1> DEFINE b == LA!RecoveredAlarm(a, reason)
<1>1. a.events \in Seq(EventType) /\ reason \in EventType
      BY DEF AlarmType, EventType
<1>2. /\ b \in AlarmType /\ b.events = Append(a.events, reason) /\ b.recovered = TRUE
      /\ b.status = "recovered" /\ b.acked = a.acked /\ b.kind = a.kind /\ b.rule = a.rule
  <2> DEFINE es == Append(a.events, reason)
  <2>1. es \in Seq(EventType)
        BY <1>1
  <2> HIDE DEF es
  <2>2. b = [a EXCEPT !.status = "recovered", !.recovered = TRUE, !.events = es]
        BY DEF LA!RecoveredAlarm, es
  <2>3. b.events = es
        BY <2>2 DEF AlarmType
  <2> QED
      BY <2>1, <2>2, <2>3 DEF AlarmType, es
<1>3. /\ Count(b.events, {"trigger"}) = Count(a.events, {"trigger"}) + 0
      /\ Count(b.events, {"ack"}) = Count(a.events, {"ack"}) + 0
      /\ Count(b.events, {"recover", "rule_disabled"})
            = Count(a.events, {"recover", "rule_disabled"}) + 1
      BY <1>1, <1>2, CountAppend
<1> HIDE DEF b
<1>4. Told(b)
      BY <1>2, <1>3 DEF Told
<1> QED
    BY <1>2, <1>4 DEF b

LEMMA AckedFits ==
    ASSUME NEW a \in AlarmType, Told(a), ~a.acked
    PROVE  /\ LA!AckedAlarm(a) \in AlarmType /\ Told(LA!AckedAlarm(a))
           /\ LA!AckedAlarm(a).recovered = a.recovered /\ LA!AckedAlarm(a).rule = a.rule
<1> DEFINE b == LA!AckedAlarm(a)
<1>1. a.events \in Seq(EventType) /\ "ack" \in EventType
      BY DEF AlarmType, EventType
<1>2. /\ b \in AlarmType /\ b.events = Append(a.events, "ack") /\ b.recovered = a.recovered
      /\ b.status = "acknowledged" /\ b.acked = TRUE /\ b.kind = a.kind /\ b.rule = a.rule
  <2> DEFINE es == Append(a.events, "ack")
  <2>1. es \in Seq(EventType)
        BY <1>1
  <2> HIDE DEF es
  <2>2. b = [a EXCEPT !.status = "acknowledged", !.acked = TRUE, !.events = es]
        BY DEF LA!AckedAlarm, es
  <2>3. b.events = es
        BY <2>2 DEF AlarmType
  <2> QED
      BY <2>1, <2>2, <2>3 DEF AlarmType, es
<1>3. /\ Count(b.events, {"trigger"}) = Count(a.events, {"trigger"}) + 0
      /\ Count(b.events, {"ack"}) = Count(a.events, {"ack"}) + 1
      /\ Count(b.events, {"recover", "rule_disabled"})
            = Count(a.events, {"recover", "rule_disabled"}) + 0
      BY <1>1, <1>2, CountAppend
<1> HIDE DEF b
<1>4. Told(b)
      BY <1>2, <1>3 DEF Told
<1> QED
    BY <1>2, <1>4 DEF b

EntryType == {LA!NoEntry} \cup [rule : LA!Setting, elapsed : BOOLEAN]

LEMMA EntryFacts ==
    /\ EngineType = [confirm : [Rule -> EntryType],
                     last : [value : 0..2, quality : {"good", "bad", "none"}],
                     occ : Seq(AlarmType), active : SUBSET Nat, history : SUBSET Nat]
    /\ \A s \in LA!Setting, b \in BOOLEAN :
          [rule |-> s, elapsed |-> b] \in EntryType /\ [rule |-> s, elapsed |-> b] # LA!NoEntry
    /\ \A c \in EntryType : c # LA!NoEntry => c.rule \in LA!Setting
    /\ LA!NoEntry \in EntryType /\ LA!NoEntry.rule = NoRule
<1>1. NoRule \notin LA!Setting
      BY EditorAssumption
<1> QED
    BY <1>1 DEF EngineType, EntryType, LA!NoEntry, LA!Waiting

LEMMA ActiveFacts ==
    ASSUME NEW rules, NEW edited, NEW narrowed, NEW e \in Good(rules, edited, narrowed),
           NEW o \in e.active
    PROVE  o \in DOMAIN e.occ /\ e.occ[o].rule \in Rule
<1>1. e.occ \in Seq(AlarmType) /\ o \in DOMAIN e.occ
      BY DEF Good, EngineType, Listed
<1>2. e.occ[o] \in AlarmType
      BY <1>1
<1> QED
    BY <1>1, <1>2 DEF AlarmType

\* What a candidate or the last point is changes nothing for the alarms.
LEMMA SameAlarms ==
    ASSUME NEW rules, NEW edited, NEW narrowed, NEW e \in Good(rules, edited, narrowed),
           NEW d \in EngineType, d.occ = e.occ, d.active = e.active, d.history = e.history,
           \A r \in Rule : \/ d.confirm[r] = e.confirm[r] \/ d.confirm[r] = LA!NoEntry
                           \/ r \in edited \/ Waits(d, rules, r)
    PROVE  d \in Good(rules, edited, narrowed)
<1>1. /\ e \in EngineType /\ Listed(e, narrowed)
      /\ \A o \in e.active : e.occ[o].rule \in edited \/ Stands(e, rules, o)
      /\ \A r \in Rule \ edited : e.confirm[r] # LA!NoEntry => Waits(e, rules, r)
      BY DEF Good
<1>2. Listed(d, narrowed)
      BY <1>1 DEF Listed
<1>3. \A o \in d.active : d.occ[o].rule \in edited \/ Stands(d, rules, o)
      BY <1>1 DEF Stands
<1>4. \A r \in Rule \ edited : d.confirm[r] # LA!NoEntry => Waits(d, rules, r)
      BY <1>1 DEF Waits
<1> QED
    BY <1>2, <1>3, <1>4 DEF Good

\* An alarm of rule r is raised; in place when the rule is on change.
LEMMA TriggerFits ==
    ASSUME NEW rules, NEW edited, NEW narrowed, NEW e \in Good(rules, edited, narrowed),
           NEW r \in Rule, NEW s \in LA!Setting,
           \/ s.condition = "change" \/ r \in edited
           \/ /\ rules[r] # NoRule /\ rules[r].enabled /\ e.confirm[r] = LA!NoEntry
              /\ \A p \in e.active : e.occ[p].rule # r
    PROVE  /\ LA!Trigger(e, r, s) \in Good(rules, edited, narrowed)
           /\ LA!Trigger(e, r, s).confirm = e.confirm
           /\ LA!Trigger(e, r, s).last = e.last
<1> DEFINE d == LA!Trigger(e, r, s)
           a == LA!Raised(r, s.condition)
           n == Len(e.occ) + 1
<1>1. /\ e \in EngineType /\ Listed(e, narrowed)
      /\ \A o \in e.active : e.occ[o].rule \in edited \/ Stands(e, rules, o)
      /\ \A q \in Rule \ edited : e.confirm[q] # LA!NoEntry => Waits(e, rules, q)
      BY DEF Good
<1>2. /\ a \in AlarmType /\ Told(a) /\ a.rule = r /\ a.recovered = (s.condition = "change")
      BY RaisedFits DEF LA!Setting, LA!Raised
<1>3. /\ e.occ \in Seq(AlarmType) /\ e.active \in SUBSET Nat /\ e.history \in SUBSET Nat
      /\ n \in Nat /\ n \notin DOMAIN e.occ
      BY <1>1 DEF EngineType
<1>4. /\ Append(e.occ, a) \in Seq(AlarmType)
      /\ DOMAIN Append(e.occ, a) = DOMAIN e.occ \cup {n}
      /\ Append(e.occ, a)[n] = a
      /\ \A o \in DOMAIN e.occ : Append(e.occ, a)[o] = e.occ[o]
      BY <1>2, <1>3
<1> DEFINE act  == IF s.condition = "change" THEN e.active ELSE e.active \cup {n}
           hist == IF s.condition = "change" THEN e.history \cup {n} ELSE e.history
           occ  == Append(e.occ, a)
<1>5. d = [e EXCEPT !.occ = occ, !.active = act, !.history = hist]
      BY DEF LA!Trigger
<1>6. act \in SUBSET Nat /\ hist \in SUBSET Nat
      BY <1>3
<1>7. n \in act <=> s.condition # "change"
  <2>1. n \notin e.active
        BY <1>1, <1>3 DEF Listed
  <2> QED
      BY <2>1
<1>8. \A o \in DOMAIN e.occ : (o \in act <=> o \in e.active) /\ (o \in e.history => o \in hist)
      BY <1>3
<1>12. act \cup hist \subseteq (e.active \cup e.history) \cup {n} /\ (s.condition = "change" => n \in hist)
      OBVIOUS
<1>13. s.condition = "change" => act = e.active
      OBVIOUS
<1> HIDE DEF d, a, n, act, hist, occ
<1>9. /\ d \in EngineType /\ d.confirm = e.confirm /\ d.last = e.last
      /\ d.occ = occ /\ d.active = act /\ d.history = hist
      BY <1>1, <1>4, <1>5, <1>6 DEF EngineType, occ
<1>10. Listed(d, narrowed)
  <2>1. d.active \cup d.history \subseteq DOMAIN d.occ
        BY <1>1, <1>4, <1>9, <1>12 DEF Listed, occ
  <2>2. \A o \in DOMAIN e.occ : /\ Told(d.occ[o])
                                /\ o \in d.active <=> ~d.occ[o].recovered
                                /\ d.occ[o].recovered => o \in d.history \/ narrowed
        BY <1>1, <1>4, <1>8, <1>9 DEF Listed, occ
  <2>3. /\ Told(d.occ[n])
        /\ n \in d.active <=> ~d.occ[n].recovered
        /\ d.occ[n].recovered => n \in d.history \/ narrowed
        BY <1>2, <1>4, <1>7, <1>9, <1>12 DEF occ
  <2> QED
      BY <1>4, <1>9, <2>1, <2>2, <2>3 DEF Listed, occ
<1>11. CASE s.condition = "change"
  <2>1. d.active = e.active /\ \A o \in e.active : d.occ[o] = e.occ[o]
        BY <1>1, <1>4, <1>9, <1>11, <1>13 DEF Listed, occ
  <2>2. \A o \in d.active : d.occ[o].rule \in edited \/ Stands(d, rules, o)
        BY <1>1, <2>1 DEF Stands
  <2>3. \A q \in Rule \ edited : d.confirm[q] # LA!NoEntry => Waits(d, rules, q)
        BY <1>1, <1>9, <2>1 DEF Waits
  <2> QED
      BY <1>9, <1>10, <2>2, <2>3 DEF Good, d
<1>14. CASE s.condition # "change"
  <2>1. /\ d.active = e.active \cup {n} /\ d.occ[n].rule = r
        /\ \A o \in e.active : d.occ[o] = e.occ[o] /\ o # n
        BY <1>1, <1>2, <1>3, <1>4, <1>9, <1>14 DEF Listed, occ, act
  <2>2. ASSUME NEW o \in d.active PROVE d.occ[o].rule \in edited \/ Stands(d, rules, o)
        BY <1>1, <1>14, <2>1 DEF Stands
  <2>3. ASSUME NEW q \in Rule \ edited, d.confirm[q] # LA!NoEntry PROVE Waits(d, rules, q)
    <3>1. Waits(e, rules, q) /\ q # r
          BY <1>1, <1>9, <1>14, <2>3
    <3> QED
        BY <1>9, <2>1, <3>1 DEF Waits
  <2> QED
      BY <1>9, <1>10, <2>2, <2>3 DEF Good, d
<1> QED
    BY <1>11, <1>14

\* A function on the places of a sequence is a sequence as long.
LEMMA Changed ==
    ASSUME NEW occ \in Seq(AlarmType), NEW Os, NEW changed,
           \A o \in DOMAIN occ : o \in Os => changed[o] \in AlarmType,
           NEW new, new = [o \in DOMAIN occ |-> IF o \in Os THEN changed[o] ELSE occ[o]]
    PROVE  new \in Seq(AlarmType) /\ DOMAIN new = DOMAIN occ
<1>1. new = [o \in 1..Len(occ) |-> IF o \in Os THEN changed[o] ELSE occ[o]]
      OBVIOUS
<1>2. \A o \in 1..Len(occ) : new[o] \in AlarmType
      BY <1>1
<1> QED
    BY <1>1, <1>2

\* The alarms of rule r recover.
LEMMA RecoverFits ==
    ASSUME NEW rules, NEW edited, NEW narrowed, NEW e \in Good(rules, edited, narrowed),
           NEW r \in Rule, NEW reason \in {"recover", "rule_disabled"}
    PROVE  /\ LA!Recover(e, r, reason) \in Good(rules, edited, narrowed)
           /\ LA!Recover(e, r, reason).confirm = e.confirm
           /\ LA!Recover(e, r, reason).last = e.last
           /\ Len(LA!Recover(e, r, reason).occ) = Len(e.occ)
           /\ \A p \in LA!Recover(e, r, reason).active : LA!Recover(e, r, reason).occ[p].rule # r
<1> DEFINE d    == LA!Recover(e, r, reason)
           gone == {o \in e.active : e.occ[o].rule = r}
           after == [o \in DOMAIN e.occ |-> LA!RecoveredAlarm(e.occ[o], reason)]
           occ  == [o \in DOMAIN e.occ |->
                      IF o \in gone THEN LA!RecoveredAlarm(e.occ[o], reason) ELSE e.occ[o]]
<1>1. /\ e \in EngineType /\ Listed(e, narrowed)
      /\ \A o \in e.active : e.occ[o].rule \in edited \/ Stands(e, rules, o)
      /\ \A q \in Rule \ edited : e.confirm[q] # LA!NoEntry => Waits(e, rules, q)
      BY DEF Good
<1>2. /\ e.occ \in Seq(AlarmType) /\ e.active \in SUBSET Nat /\ e.history \in SUBSET Nat
      /\ \A o \in DOMAIN e.occ : e.occ[o] \in AlarmType
      BY <1>1 DEF EngineType
<1>3. ASSUME NEW o \in DOMAIN e.occ, o \in gone
      PROVE  /\ after[o] \in AlarmType /\ Told(after[o]) /\ after[o].recovered
             /\ after[o].rule = e.occ[o].rule
  <2>1. Told(e.occ[o]) /\ ~e.occ[o].recovered
        BY <1>1, <1>3 DEF Listed
  <2> QED
      BY <1>2, <2>1, RecoveredFits
<1>4. gone \subseteq DOMAIN e.occ
      BY <1>1 DEF Listed
<1>5. d = [e EXCEPT !.active = @ \ gone, !.history = @ \cup gone, !.occ = occ]
      BY DEF LA!Recover, LA!ActiveOf
<1>16. occ = [o \in DOMAIN e.occ |-> IF o \in gone THEN after[o] ELSE e.occ[o]]
       OBVIOUS
<1>6. occ \in Seq(AlarmType) /\ DOMAIN occ = DOMAIN e.occ /\ Len(occ) = Len(e.occ)
  <2>1. occ \in Seq(AlarmType) /\ DOMAIN occ = DOMAIN e.occ
    <3> DEFINE new == occ
    <3>1. \A o \in DOMAIN e.occ : o \in gone => after[o] \in AlarmType
          BY <1>3
    <3>2. new = [o \in DOMAIN e.occ |-> IF o \in gone THEN after[o] ELSE e.occ[o]]
          BY <1>16
    <3> HIDE DEF new, gone, after
    <3>3. new \in Seq(AlarmType) /\ DOMAIN new = DOMAIN e.occ
          BY <1>2, <3>1, <3>2, Changed
    <3> QED
        BY <3>3 DEF new
  <2> HIDE DEF occ
  <2> QED
      BY <1>2, <2>1
<1>7. \A o \in DOMAIN e.occ : occ[o] = IF o \in gone THEN after[o] ELSE e.occ[o]
  <2> HIDE DEF occ, gone, after
  <2> QED
      BY <1>16
<1>8. \A o \in e.active : o \notin gone => e.occ[o].rule # r
      OBVIOUS
<1>9. gone \subseteq e.active
      OBVIOUS
<1> HIDE DEF d, gone, after, occ
<1>10. /\ d \in EngineType /\ d.confirm = e.confirm /\ d.last = e.last /\ d.occ = occ
       /\ d.active = e.active \ gone /\ d.history = e.history \cup gone
       BY <1>1, <1>2, <1>5, <1>6, <1>9 DEF EngineType
<1>11. Listed(d, narrowed)
  <2>1. d.active \cup d.history \subseteq DOMAIN d.occ
        BY <1>1, <1>4, <1>6, <1>10 DEF Listed
  <2>2. ASSUME NEW o \in DOMAIN e.occ
        PROVE  /\ Told(d.occ[o])
               /\ o \in d.active <=> ~d.occ[o].recovered
               /\ d.occ[o].recovered => o \in d.history \/ narrowed
    <3>1. CASE o \in gone
          BY <1>3, <1>7, <1>10, <3>1
    <3>2. CASE o \notin gone
          BY <1>1, <1>7, <1>10, <3>2 DEF Listed
    <3> QED
        BY <3>1, <3>2
  <2> QED
      BY <1>6, <1>10, <2>1, <2>2 DEF Listed
<1>12. \A o \in d.active : o \in e.active /\ d.occ[o] = e.occ[o] /\ e.occ[o].rule # r
       BY <1>1, <1>7, <1>8, <1>10 DEF Listed
<1>13. \A o \in d.active : d.occ[o].rule \in edited \/ Stands(d, rules, o)
       BY <1>1, <1>12 DEF Stands
<1>14. \A q \in Rule \ edited : d.confirm[q] # LA!NoEntry => Waits(d, rules, q)
       BY <1>1, <1>10, <1>12 DEF Waits
<1>15. d \in Good(rules, edited, narrowed)
       BY <1>10, <1>11, <1>13, <1>14 DEF Good
<1> QED
    BY <1>6, <1>10, <1>12, <1>15 DEF d

\* Alarms that may be acknowledged are.
LEMMA AckFits ==
    ASSUME NEW rules, NEW edited, NEW narrowed, NEW e \in Good(rules, edited, narrowed),
           NEW os, os \subseteq LA!Ackable(e)
    PROVE  /\ LA!ApplyAck(e, os) \in Good(rules, edited, narrowed)
           /\ Len(LA!ApplyAck(e, os).occ) = Len(e.occ)
<1> DEFINE d    == LA!ApplyAck(e, os)
           after == [o \in DOMAIN e.occ |-> LA!AckedAlarm(e.occ[o])]
           occ  == [o \in DOMAIN e.occ |->
                      IF o \in os THEN LA!AckedAlarm(e.occ[o]) ELSE e.occ[o]]
<1>1. /\ e \in EngineType /\ Listed(e, narrowed)
      /\ \A o \in e.active : e.occ[o].rule \in edited \/ Stands(e, rules, o)
      /\ \A q \in Rule \ edited : e.confirm[q] # LA!NoEntry => Waits(e, rules, q)
      BY DEF Good
<1>2. /\ e.occ \in Seq(AlarmType) /\ \A o \in DOMAIN e.occ : e.occ[o] \in AlarmType
      BY <1>1 DEF EngineType
<1>3. ASSUME NEW o \in DOMAIN e.occ, o \in os
      PROVE  /\ after[o] \in AlarmType /\ Told(after[o])
             /\ after[o].recovered = e.occ[o].recovered /\ after[o].rule = e.occ[o].rule
  <2>1. Told(e.occ[o]) /\ ~e.occ[o].acked
        BY <1>1, <1>3 DEF Listed, Told, LA!Ackable
  <2> QED
      BY <1>2, <2>1, AckedFits
<1>5. d = [e EXCEPT !.occ = occ]
      BY DEF LA!ApplyAck
<1>16. occ = [o \in DOMAIN e.occ |-> IF o \in os THEN after[o] ELSE e.occ[o]]
       OBVIOUS
<1>6. occ \in Seq(AlarmType) /\ DOMAIN occ = DOMAIN e.occ /\ Len(occ) = Len(e.occ)
  <2>1. occ \in Seq(AlarmType) /\ DOMAIN occ = DOMAIN e.occ
    <3> DEFINE new == occ
    <3>1. \A o \in DOMAIN e.occ : o \in os => after[o] \in AlarmType
          BY <1>3
    <3>2. new = [o \in DOMAIN e.occ |-> IF o \in os THEN after[o] ELSE e.occ[o]]
          BY <1>16
    <3> HIDE DEF new, after
    <3>3. new \in Seq(AlarmType) /\ DOMAIN new = DOMAIN e.occ
          BY <1>2, <3>1, <3>2, Changed
    <3> QED
        BY <3>3 DEF new
  <2> HIDE DEF occ
  <2> QED
      BY <1>2, <2>1
<1>7. \A o \in DOMAIN e.occ : occ[o] = IF o \in os THEN after[o] ELSE e.occ[o]
  <2> HIDE DEF occ, after
  <2> QED
      BY <1>16
<1> HIDE DEF d, after, occ
<1>10. /\ d \in EngineType /\ d.confirm = e.confirm /\ d.occ = occ
       /\ d.active = e.active /\ d.history = e.history
       BY <1>1, <1>5, <1>6 DEF EngineType
<1>8. \A o \in DOMAIN e.occ : /\ Told(d.occ[o]) /\ d.occ[o].recovered = e.occ[o].recovered
                              /\ d.occ[o].rule = e.occ[o].rule
      BY <1>1, <1>3, <1>7, <1>10 DEF Listed
<1>11. Listed(d, narrowed)
       BY <1>1, <1>6, <1>8, <1>10 DEF Listed
<1>12. \A o \in d.active : o \in e.active /\ d.occ[o].rule = e.occ[o].rule
       BY <1>1, <1>8, <1>10 DEF Listed
<1>13. \A o \in d.active : d.occ[o].rule \in edited \/ Stands(d, rules, o)
       BY <1>1, <1>10, <1>12 DEF Stands
<1>14. \A q \in Rule \ edited : d.confirm[q] # LA!NoEntry => Waits(d, rules, q)
       BY <1>1, <1>10, <1>12 DEF Waits
<1> QED
    BY <1>6, <1>10, <1>11, <1>13, <1>14 DEF Good, d

\* The candidate of rule r is w, for a reason, and nothing else changes.
LEMMA EntryFits ==
    ASSUME NEW rules, NEW edited, NEW narrowed, NEW e \in Good(rules, edited, narrowed),
           NEW r \in Rule, NEW w \in EntryType,
           \/ w = LA!NoEntry
           \/ /\ rules[r] # NoRule /\ rules[r].enabled /\ rules[r].confirm
              /\ w.rule = rules[r] /\ \A p \in e.active : e.occ[p].rule # r
           \/ w.rule = e.confirm[r].rule /\ e.confirm[r] # LA!NoEntry
    PROVE  /\ [e EXCEPT !.confirm[r] = w] \in Good(rules, edited, narrowed)
           /\ [e EXCEPT !.confirm[r] = w].confirm = [e.confirm EXCEPT ![r] = w]
           /\ [e EXCEPT !.confirm[r] = w].active = e.active
           /\ [e EXCEPT !.confirm[r] = w].occ = e.occ
           /\ [e EXCEPT !.confirm[r] = w].last = e.last
<1> DEFINE d == [e EXCEPT !.confirm[r] = w]
           c == [e.confirm EXCEPT ![r] = w]
<1>1. e \in EngineType /\ \A q \in Rule \ edited : e.confirm[q] # LA!NoEntry => Waits(e, rules, q)
      BY DEF Good
<1>2. e.confirm \in [Rule -> EntryType] /\ c \in [Rule -> EntryType]
      BY <1>1, EntryFacts
<1>3. c[r] = w /\ \A q \in Rule \ {r} : c[q] = e.confirm[q]
      BY <1>2
<1>4. /\ d.confirm = c /\ d.occ = e.occ /\ d.active = e.active /\ d.history = e.history
      /\ d.last = e.last
      BY <1>1, EntryFacts
<1>5. d = [e EXCEPT !.confirm = c]
      BY <1>1, EntryFacts
<1> HIDE DEF d, c
<1>6. d \in EngineType
      BY <1>1, <1>2, <1>5, EntryFacts
<1>7. ASSUME NEW q \in Rule
      PROVE  \/ d.confirm[q] = e.confirm[q] \/ d.confirm[q] = LA!NoEntry
             \/ q \in edited \/ Waits(d, rules, q)
      BY <1>1, <1>3, <1>4 DEF Waits
<1>8. d \in Good(rules, edited, narrowed)
      BY <1>4, <1>6, <1>7, SameAlarms
<1> QED
    BY <1>4, <1>8 DEF c, d

\* An enabled rule is evaluated on a value.
LEMMA EvaluateFits ==
    ASSUME v1 \in [Rule -> LA!Setting \cup {NoRule}], NEW e \in Good(v1, v4, v5),
           NEW r \in LA!Enabled, NEW n, NEW changed
    PROVE  LA!Evaluate(e, r, n, changed) \in Good(v1, v4, v5)
<1> DEFINE s == v1[r]
           g == [e EXCEPT !.confirm[r] = LA!NoEntry]
<1>1. r \in Rule /\ s \in LA!Setting /\ v1[r] # NoRule /\ v1[r].enabled /\ s.confirm \in BOOLEAN
      BY DEF LA!Enabled, LA!Setting
<1>2. \A q \in Rule \ v4 : e.confirm[q] # LA!NoEntry => Waits(e, v1, q)
      BY DEF Good
<1>3. CASE s.condition = "change"
  <2>1. LA!Trigger(e, r, s) \in Good(v1, v4, v5)
        BY <1>1, <1>3, TriggerFits
  <2> QED
      BY <1>3, <2>1 DEF LA!Evaluate
<1>4. CASE s.condition # "change" /\ LA!Triggered(s, n) /\ LA!ActiveOf(e, r) = {}
  <2>1. \A p \in e.active : e.occ[p].rule # r
        BY <1>4 DEF LA!ActiveOf
  <2>2. CASE ~s.confirm
    <3>1. r \in v4 \/ e.confirm[r] = LA!NoEntry
          BY <1>1, <1>2, <2>2 DEF Waits
    <3>2. LA!Trigger(e, r, s) \in Good(v1, v4, v5)
          BY <1>1, <2>1, <3>1, TriggerFits
    <3> QED
        BY <1>4, <2>2, <3>2 DEF LA!Evaluate
  <2>3. CASE s.confirm
    <3> DEFINE w == LA!Waiting(s)
    <3>1. w \in EntryType /\ w.rule = s
          BY <1>1, EntryFacts DEF LA!Waiting
    <3> HIDE DEF w
    <3>2. [e EXCEPT !.confirm[r] = w] \in Good(v1, v4, v5)
          BY <1>1, <2>1, <2>3, <3>1, EntryFits
    <3> QED
        BY <1>4, <2>3, <3>2 DEF LA!Evaluate, w
  <2> QED
      BY <1>1, <2>2, <2>3
<1>5. CASE s.condition # "change" /\ ~(LA!Triggered(s, n) /\ LA!ActiveOf(e, r) = {})
  <2>1. g \in Good(v1, v4, v5)
        BY <1>1, EntryFits, EntryFacts
  <2> HIDE DEF g
  <2>2. LA!Recover(g, r, "recover") \in Good(v1, v4, v5)
        BY <1>1, <2>1, RecoverFits
  <2> QED
      BY <1>5, <2>2 DEF LA!Evaluate, g
<1> QED
    BY <1>3, <1>4, <1>5

\* A candidate that has waited is judged.
LEMMA JudgedFits ==
    ASSUME NEW e \in Good(v1, v4, v5), NEW r \in Rule, e.confirm[r] # LA!NoEntry
    PROVE  /\ LA!Judged(e, r) \in Good(v1, v4, v5)
           /\ \A q \in Rule \ {r} : LA!Judged(e, r).confirm[q] = e.confirm[q]
<1> DEFINE s == e.confirm[r].rule
           g == [e EXCEPT !.confirm[r] = LA!NoEntry]
<1>1. /\ e \in EngineType /\ \A q \in Rule \ v4 : e.confirm[q] # LA!NoEntry => Waits(e, v1, q)
      BY DEF Good
<1>2. e.confirm \in [Rule -> EntryType] /\ s \in LA!Setting
      BY <1>1, EntryFacts
<1>3. /\ g \in Good(v1, v4, v5) /\ g.confirm = [e.confirm EXCEPT ![r] = LA!NoEntry]
      /\ g.active = e.active /\ g.occ = e.occ
      BY EntryFits, EntryFacts
<1> HIDE DEF g
<1>4. g.confirm[r] = LA!NoEntry /\ \A q \in Rule \ {r} : g.confirm[q] = e.confirm[q]
      BY <1>2, <1>3
<1>5. /\ LA!Trigger(g, r, s) \in Good(v1, v4, v5)
      /\ LA!Trigger(g, r, s).confirm = g.confirm
  <2>1. \/ r \in v4
        \/ /\ v1[r] # NoRule /\ v1[r].enabled /\ g.confirm[r] = LA!NoEntry
           /\ \A p \in g.active : g.occ[p].rule # r
        BY <1>1, <1>3, <1>4 DEF Waits
  <2> QED
      BY <1>2, <1>3, <2>1, TriggerFits
<1>6. LA!Judged(e, r) \in {g, LA!Trigger(g, r, s), e}
      BY DEF LA!Judged, g
<1> QED
    BY <1>3, <1>4, <1>5, <1>6

\* The engine after a point: each enabled rule has been evaluated.
LEMMA PointedFits ==
    ASSUME v1 \in [Rule -> LA!Setting \cup {NoRule}], v2 \in Good(v1, v4, v5),
           NEW n \in 0..2, NEW q \in {"good", "bad"}
    PROVE  LA!Pointed(n, q) \in Good(v1, v4, v5)
<1> DEFINE S == LA!Enabled
           G == Good(v1, v4, v5)
           base == [v2 EXCEPT !.last = [value |-> n, quality |-> q]]
           changed == v2.last = LA!NoPoint \/ v2.last.value # n
           after == [p \in S \X G |-> LA!Evaluate(p[2], p[1], n, changed)]
           I == [s \in SUBSET S |-> G]
           Round(f) == [s \in SUBSET S |->
                           IF s = {} THEN base
                           ELSE LA!Evaluate(f[s \ {Taken(s)}], Taken(s), n, changed)]
           F == CHOOSE f : f = Round(f)
<1>1. base \in G
  <2> DEFINE l == [value |-> n, quality |-> q]
  <2>1. v2 \in EngineType /\ l \in [value : 0..2, quality : {"good", "bad", "none"}]
        BY DEF Good
  <2> HIDE DEF l
  <2>2. /\ base \in EngineType /\ base.confirm = v2.confirm /\ base.occ = v2.occ
        /\ base.active = v2.active /\ base.history = v2.history
        BY <2>1 DEF EngineType, l
  <2> HIDE DEF base
  <2> QED
      BY <2>2, SameAlarms
<1>2. IsFiniteSet(S)
      BY EditorAssumption, FS_Subset DEF LA!Enabled
<1>3. \A x \in S, e \in G : after[<<x, e>>] = LA!Evaluate(e, x, n, changed) /\ after[<<x, e>>] \in G
  <2>1. \A x \in S, e \in G : after[<<x, e>>] = LA!Evaluate(e, x, n, changed)
        OBVIOUS
  <2>2. ASSUME NEW x \in S, NEW e \in G PROVE LA!Evaluate(e, x, n, changed) \in G
    <3>1. x \in LA!Enabled /\ e \in Good(v1, v4, v5)
          OBVIOUS
    <3> HIDE DEF changed
    <3> QED
        BY <3>1, EvaluateFits
  <2> HIDE DEF after
  <2> QED
      BY <2>1, <2>2
<1>4. ASSUME q = "good" PROVE LA!Pointed(n, q) = F[S]
      BY <1>4 DEF LA!Pointed, LA!FoldSet, LA!MapThenFoldSet, Taken
<1>5. q # "good" => LA!Pointed(n, q) = base
      BY DEF LA!Pointed
<1>6. \A s \in SUBSET S : I[s] = G
      OBVIOUS
<1>7. \A s \in SUBSET S : s # {} => Taken(s) \in s
      BY DEF Taken
<1> HIDE DEF base, after, I, G, S, changed
<1>8. PICK g : Folds(g, SUBSET S, base, after) /\ \A s \in SUBSET S : g[s] \in I[s]
  <2>1. base \in I[{}]
        BY <1>1, <1>6
  <2>2. \A s \in SUBSET S, x \in S : \A e : x \in s /\ e \in I[s \ {x}] => after[<<x, e>>] \in I[s]
        BY <1>3, <1>6
  <2> QED
      BY <1>2, <2>1, <2>2, FoldFits
<1>9. g = Round(g)
      BY <1>3, <1>6, <1>7, <1>8 DEF Folds
<1> HIDE DEF Round
<1>10. F = Round(F)
       BY <1>9
<1> HIDE DEF F
<1>11. /\ F[{}] = base
       /\ \A s \in SUBSET S : s # {} =>
             F[s] = LA!Evaluate(F[s \ {Taken(s)}], Taken(s), n, changed)
       BY <1>10 DEF Round
<1>12. \A s \in SUBSET S : s # {} =>
          \E x \in s : F[s \ {x}] \in I[s \ {x}] => F[s] \in I[s]
  <2>1. ASSUME NEW s \in SUBSET S, s # {} PROVE F[s \ {Taken(s)}] \in G => F[s] \in G
        BY <1>3, <1>7, <1>11, <2>1
  <2> QED
      BY <1>6, <1>7, <2>1
<1>13. F[S] \in G
  <2>1. F[{}] \in I[{}]
        BY <1>1, <1>6, <1>11
  <2>2. \A s \in SUBSET S : F[s] \in I[s]
        BY <1>2, <1>12, <2>1, FoldKeeps
  <2> QED
      BY <1>6, <2>2
<1> QED
    BY <1>1, <1>4, <1>5, <1>13 DEF G

\* The engine after its timer: each candidate has been judged.
LEMMA TickedFits ==
    ASSUME v1 \in [Rule -> LA!Setting \cup {NoRule}], v2 \in Good(v1, v4, v5)
    PROVE  LA!Ticked \in Good(v1, v4, v5)
<1> DEFINE S == {r \in Rule : v2.confirm[r] # LA!NoEntry}
           G == Good(v1, v4, v5)
           after == [p \in S \X G |-> LA!Judged(p[2], p[1])]
           I == [s \in SUBSET S |-> {e \in G : \A r \in S \ s : e.confirm[r] = v2.confirm[r]}]
           Round(f) == [s \in SUBSET S |->
                           IF s = {} THEN v2 ELSE LA!Judged(f[s \ {Taken(s)}], Taken(s))]
           F == CHOOSE f : f = Round(f)
<1>2. IsFiniteSet(S)
      BY EditorAssumption, FS_Subset
<1>3. \A s \in SUBSET S, x \in S : \A e : x \in s /\ e \in I[s \ {x}] =>
         /\ e \in G /\ after[<<x, e>>] = LA!Judged(e, x) /\ after[<<x, e>>] \in I[s]
  <2>1. \A x \in S, e \in G : after[<<x, e>>] = LA!Judged(e, x)
        OBVIOUS
  <2> SUFFICES ASSUME NEW s \in SUBSET S, NEW x \in S, NEW e, x \in s, e \in I[s \ {x}]
               PROVE  /\ e \in G /\ after[<<x, e>>] = LA!Judged(e, x) /\ after[<<x, e>>] \in I[s]
      OBVIOUS
  <2>2. e \in G /\ e.confirm[x] # LA!NoEntry /\ x \in Rule
        OBVIOUS
  <2>3. \A r \in S \ s : e.confirm[r] = v2.confirm[r] /\ r # x /\ r \in Rule
        OBVIOUS
  <2> HIDE DEF after
  <2>4. /\ LA!Judged(e, x) \in G
        /\ \A q \in Rule \ {x} : LA!Judged(e, x).confirm[q] = e.confirm[q]
        BY <2>2, JudgedFits
  <2> QED
      BY <2>1, <2>2, <2>3, <2>4
<1>4. ASSUME v2.last.quality = "good" PROVE LA!Ticked = F[S]
      BY <1>4 DEF LA!Ticked, LA!FoldSet, LA!MapThenFoldSet, Taken
<1>5. v2.last.quality # "good" => LA!Ticked = v2
      BY DEF LA!Ticked
<1>6. v2 \in I[{}] /\ I[S] \subseteq G
      OBVIOUS
<1>7. \A s \in SUBSET S : s # {} => Taken(s) \in s
      BY DEF Taken
<1> HIDE DEF after, I, S
<1>8. PICK g : Folds(g, SUBSET S, v2, after) /\ \A s \in SUBSET S : g[s] \in I[s]
      BY <1>2, <1>3, <1>6, FoldFits
<1>9. g = Round(g)
  <2>1. \A s \in SUBSET S : s # {} =>
           after[<<Taken(s), g[s \ {Taken(s)}]>>] = LA!Judged(g[s \ {Taken(s)}], Taken(s))
        BY <1>3, <1>7, <1>8
  <2> QED
      BY <1>8, <2>1 DEF Folds
<1> HIDE DEF Round
<1>10. F = Round(F)
       BY <1>9
<1> HIDE DEF F
<1>11. /\ F[{}] = v2
       /\ \A s \in SUBSET S : s # {} => F[s] = LA!Judged(F[s \ {Taken(s)}], Taken(s))
       BY <1>10 DEF Round
<1>12. \A s \in SUBSET S : s # {} =>
          \E x \in s : F[s \ {x}] \in I[s \ {x}] => F[s] \in I[s]
  <2>1. ASSUME NEW s \in SUBSET S, s # {}, F[s \ {Taken(s)}] \in I[s \ {Taken(s)}]
        PROVE  F[s] \in I[s]
        BY <1>3, <1>7, <1>11, <2>1
  <2> QED
      BY <1>7, <2>1
<1>13. F[S] \in G
  <2>1. F[{}] \in I[{}]
        BY <1>6, <1>11
  <2>2. \A s \in SUBSET S : F[s] \in I[s]
        BY <1>2, <1>12, <2>1, FoldKeeps
  <2> QED
      BY <1>6, <2>2
<1> QED
    BY <1>4, <1>5, <1>13

LocalInv ==
    /\ v1 \in [Rule -> LA!Setting \cup {NoRule}] /\ v2 \in Good(v1, v4, v5)
    /\ v3 \in BOOLEAN /\ v4 \subseteq Rule /\ v5 \in BOOLEAN
    /\ Len(v2.occ) <= MaxOccurrences

\* An engine without alarms and candidates is as it should be.
LEMMA ResetFits ==
    ASSUME NEW rules, NEW edited, NEW narrowed
    PROVE  LA!Reset \in Good(rules, edited, narrowed) /\ Len(LA!Reset.occ) = 0
<1> DEFINE e == LA!Reset
<1>1. /\ e.confirm = [r \in Rule |-> LA!NoEntry] /\ e.occ = <<>> /\ e.active = {}
      /\ e.history = {}
      BY DEF LA!Reset
<1>2. e \in EngineType
  <2>1. <<>> \in Seq(AlarmType) /\ LA!NoPoint \in [value : 0..2, quality : {"good", "bad", "none"}]
        BY DEF LA!NoPoint
  <2>2. [r \in Rule |-> LA!NoEntry] \in [Rule -> EntryType]
        BY EntryFacts
  <2> QED
      BY <2>1, <2>2, EntryFacts DEF LA!Reset
<1> HIDE DEF e
<1>3. Listed(e, narrowed)
      BY <1>1 DEF Listed
<1>4. e \in Good(rules, edited, narrowed)
      BY <1>1, <1>2, <1>3 DEF Good
<1> QED
    BY <1>1, <1>4 DEF e

LEMMA LocalStart == ASSUME LA!Init PROVE LocalInv
<1>1. /\ v1 = [r \in Rule |-> NoRule] /\ v2 = LA!Reset /\ v3 = FALSE /\ v4 = {} /\ v5 = FALSE
      BY DEF LA!Init
<1>2. v2 \in Good(v1, v4, v5) /\ Len(v2.occ) = 0
      BY <1>1, ResetFits
<1>3. MaxOccurrences \in Nat
      BY EditorAssumption
<1>4. v1 \in [Rule -> LA!Setting \cup {NoRule}] /\ v4 \subseteq Rule
      BY <1>1
<1>5. v3 \in BOOLEAN /\ v5 \in BOOLEAN
      BY <1>1
<1>6. Len(v2.occ) <= MaxOccurrences
      BY <1>2, <1>3
<1> QED
    BY <1>2, <1>4, <1>5, <1>6 DEF LocalInv

\* Rule r is x from now on, and known to have changed under a candidate of it.
LEMMA RuleFits ==
    ASSUME v1 \in [Rule -> LA!Setting \cup {NoRule}], NEW e \in Good(v1, v4, v5),
           NEW r \in Rule, NEW x \in LA!Setting \cup {NoRule},
           NEW rules, rules = [v1 EXCEPT ![r] = x],
           NEW edited, v4 \subseteq edited, e.confirm[r] # LA!NoEntry => r \in edited,
           \/ x # NoRule /\ x.enabled
           \/ \A p \in e.active : e.occ[p].rule # r
    PROVE  e \in Good(rules, edited, v5)
<1>1. /\ e \in EngineType /\ Listed(e, v5)
      /\ \A o \in e.active : e.occ[o].rule \in v4 \/ Stands(e, v1, o)
      /\ \A q \in Rule \ v4 : e.confirm[q] # LA!NoEntry => Waits(e, v1, q)
      BY DEF Good
<1>2. rules[r] = x /\ \A q \in Rule \ {r} : rules[q] = v1[q]
      OBVIOUS
<1>3. ASSUME NEW o \in e.active PROVE e.occ[o].rule \in edited \/ Stands(e, rules, o)
  <2>1. e.occ[o].rule \in Rule
        BY ActiveFacts
  <2> QED
      BY <1>1, <1>2, <2>1 DEF Stands
<1>4. ASSUME NEW q \in Rule \ edited, e.confirm[q] # LA!NoEntry PROVE Waits(e, rules, q)
      BY <1>1, <1>2, <1>4 DEF Waits
<1> QED
    BY <1>1, <1>3, <1>4 DEF Good

LEMMA SimulationKeeps ==
    ASSUME LocalInv,
           (\E n \in 0..2, q \in {"good", "bad"} : LA!Point(n, q)) \/ LA!TickConfirm
              \/ \E r \in Rule : LA!Elapse(r)
    PROVE  LocalInv'
<1>1. CASE \E n \in 0..2, q \in {"good", "bad"} : LA!Point(n, q)
  <2>1. PICK n \in 0..2, q \in {"good", "bad"} : LA!Point(n, q)
        BY <1>1
  <2>2. v2' = LA!Pointed(n, q) /\ Len(v2'.occ) <= MaxOccurrences /\ UNCHANGED <<v1, v3, v4, v5>>
        BY <2>1 DEF LA!Point
  <2>3. LA!Pointed(n, q) \in Good(v1, v4, v5)
        BY PointedFits DEF LocalInv
  <2> QED
      BY <2>2, <2>3 DEF LocalInv
<1>2. CASE LA!TickConfirm
  <2>2. v2' = LA!Ticked /\ Len(v2'.occ) <= MaxOccurrences /\ UNCHANGED <<v1, v3, v4, v5>>
        BY <1>2 DEF LA!TickConfirm
  <2>3. LA!Ticked \in Good(v1, v4, v5)
        BY TickedFits DEF LocalInv
  <2> QED
      BY <2>2, <2>3 DEF LocalInv
<1>3. CASE \E r \in Rule : LA!Elapse(r)
  <2>1. PICK r \in Rule : LA!Elapse(r)
        BY <1>3
  <2> DEFINE w == [v2.confirm[r] EXCEPT !.elapsed = TRUE]
  <2>2. /\ v2.confirm[r] # LA!NoEntry /\ v2' = [v2 EXCEPT !.confirm[r] = w]
        /\ UNCHANGED <<v1, v3, v4, v5>>
        BY <2>1 DEF LA!Elapse
  <2>3. v2 \in Good(v1, v4, v5) /\ v2.confirm \in [Rule -> EntryType]
        BY EntryFacts DEF LocalInv, Good
  <2>4. v2.confirm[r] \in [rule : LA!Setting, elapsed : BOOLEAN]
        BY <2>2, <2>3 DEF EntryType
  <2>5. w \in EntryType /\ w.rule = v2.confirm[r].rule
        BY <2>4 DEF EntryType
  <2> HIDE DEF w
  <2>6. v2' \in Good(v1, v4, v5) /\ v2'.occ = v2.occ
        BY <2>2, <2>3, <2>5, EntryFits
  <2> QED
      BY <2>2, <2>6 DEF LocalInv
<1> QED
    BY <1>1, <1>2, <1>3

LEMMA RuleEditorKeeps == ASSUME LocalInv, LA!RuleEditor PROVE LocalInv'
<1>1. PICK r \in Rule : LA!DeleteRule(r) \/ \E s \in LA!Setting : LA!SaveRule(r, s)
      BY DEF LA!RuleEditor
<1> DEFINE g == LA!Recover(v2, r, "rule_disabled")
<1>2. /\ v1 \in [Rule -> LA!Setting \cup {NoRule}] /\ v2 \in Good(v1, v4, v5)
      /\ v4 \subseteq Rule
      BY DEF LocalInv
<1>3. /\ g \in Good(v1, v4, v5) /\ g.confirm = v2.confirm /\ Len(g.occ) = Len(v2.occ)
      /\ \A p \in g.active : g.occ[p].rule # r
      BY <1>2, RecoverFits
<1>4. /\ v4 \subseteq v4 \cup LA!Edits(r) /\ v4 \cup LA!Edits(r) \subseteq Rule
      /\ v2.confirm[r] # LA!NoEntry => r \in v4 \cup LA!Edits(r)
      BY <1>2 DEF LA!Edits
<1> HIDE DEF g
<1>5. ASSUME NEW x \in LA!Setting \cup {NoRule}, NEW e \in {v2, g},
             \/ x # NoRule /\ x.enabled
             \/ e = g,
             v1' = [v1 EXCEPT ![r] = x], v2' = e, v4' = v4 \cup LA!Edits(r), UNCHANGED <<v3, v5>>
      PROVE  LocalInv'
  <2>1. e \in Good(v1, v4, v5) /\ e.confirm = v2.confirm /\ Len(e.occ) = Len(v2.occ)
        BY <1>2, <1>3
  <2>2. \/ x # NoRule /\ x.enabled
        \/ \A p \in e.active : e.occ[p].rule # r
        BY <1>3, <1>5
  <2>3. e \in Good(v1', v4', v5)
        BY <1>2, <1>4, <1>5, <2>1, <2>2, RuleFits
  <2>4. v1' \in [Rule -> LA!Setting \cup {NoRule}]
        BY <1>2, <1>5
  <2> QED
      BY <1>4, <1>5, <2>1, <2>3, <2>4 DEF LocalInv
<1>6. CASE LA!DeleteRule(r)
  <2>1. /\ v1' = [v1 EXCEPT ![r] = NoRule] /\ v2' = g /\ v4' = v4 \cup LA!Edits(r)
        /\ UNCHANGED <<v3, v5>>
        BY <1>6 DEF LA!DeleteRule, g
  <2> QED
      BY <1>5, <2>1
<1>7. CASE \E s \in LA!Setting : LA!SaveRule(r, s)
  <2>1. PICK s \in LA!Setting : LA!SaveRule(r, s)
        BY <1>7
  <2>2. /\ v1' = [v1 EXCEPT ![r] = s] /\ v2' = (IF s.enabled THEN v2 ELSE g)
        /\ v4' = v4 \cup LA!Edits(r) /\ UNCHANGED <<v3, v5>>
        BY <2>1 DEF LA!SaveRule, LA!Saved, g
  <2>3. s # NoRule
        BY EditorAssumption
  <2> QED
      BY <1>5, <2>2, <2>3
<1> QED
    BY <1>1, <1>6, <1>7

LEMMA AlarmPanelKeeps == ASSUME LocalInv, LA!AlarmPanel PROVE LocalInv'
<1>1. PICK os \in SUBSET LA!Ackable(v2) : LA!Acknowledge(os)
      BY DEF LA!AlarmPanel
<1>2. v2' = LA!ApplyAck(v2, os) /\ UNCHANGED <<v1, v3, v4, v5>>
      BY <1>1 DEF LA!Acknowledge
<1>3. LA!ApplyAck(v2, os) \in Good(v1, v4, v5) /\ Len(LA!ApplyAck(v2, os).occ) = Len(v2.occ)
      BY AckFits DEF LocalInv
<1> QED
    BY <1>2, <1>3 DEF LocalInv

LEMMA AlarmCenterKeeps == ASSUME LocalInv, LA!AlarmCenter PROVE LocalInv'
<1>1. PICK s : LA!QueryHistory(s)
      BY DEF LA!AlarmCenter
<1> DEFINE kept == {o \in v2.history : LA!Matches(o, s)}
<1>2. /\ v2' = [v2 EXCEPT !.history = kept] /\ v5' = (v5 \/ v2' # v2) /\ UNCHANGED <<v1, v3, v4>>
      BY <1>1 DEF LA!QueryHistory
<1>3. /\ v2 \in EngineType /\ Listed(v2, v5)
      /\ \A o \in v2.active : v2.occ[o].rule \in v4 \/ Stands(v2, v1, o)
      /\ \A q \in Rule \ v4 : v2.confirm[q] # LA!NoEntry => Waits(v2, v1, q)
      BY DEF LocalInv, Good
<1>4. kept \subseteq v2.history
      OBVIOUS
<1> HIDE DEF kept
<1>5. /\ v2' \in EngineType /\ v2'.confirm = v2.confirm /\ v2'.occ = v2.occ
      /\ v2'.active = v2.active /\ v2'.history = kept
      BY <1>2, <1>3, <1>4 DEF EngineType
<1>6. Listed(v2', v5')
      BY <1>2, <1>3, <1>4, <1>5 DEF Listed
<1>7. \A o \in v2'.active : v2'.occ[o].rule \in v4 \/ Stands(v2', v1, o)
      BY <1>3, <1>5 DEF Stands
<1>8. \A q \in Rule \ v4 : v2'.confirm[q] # LA!NoEntry => Waits(v2', v1, q)
      BY <1>3, <1>5 DEF Waits
<1>9. v2' \in Good(v1, v4, v5')
      BY <1>5, <1>6, <1>7, <1>8 DEF Good
<1>10. v5' \in BOOLEAN /\ Len(v2'.occ) <= MaxOccurrences
       BY <1>2, <1>5 DEF LocalInv
<1> QED
    BY <1>2, <1>9, <1>10 DEF LocalInv

LEMMA LocalStep == ASSUME LocalInv, LA!Next PROVE LocalInv'
<1>1. CASE LA!Start \/ LA!Stop
      BY <1>1 DEF LA!Start, LA!Stop, LocalInv
<1>2. CASE LA!SwitchAndBack
  <2>1. v2' = LA!Reset /\ v3' = FALSE /\ v4' = {} /\ v5' = FALSE /\ UNCHANGED v1
        BY <1>2 DEF LA!SwitchAndBack
  <2>2. v2' \in Good(v1, v4', v5') /\ Len(v2'.occ) = 0
        BY <2>1, ResetFits
  <2>3. MaxOccurrences \in Nat
        BY EditorAssumption
  <2>4. Len(v2'.occ) <= MaxOccurrences
        BY <2>2, <2>3
  <2>5. v3' \in BOOLEAN /\ v5' \in BOOLEAN /\ v4' \subseteq Rule
        BY <2>1
  <2> QED
      BY <2>1, <2>2, <2>4, <2>5 DEF LocalInv
<1> QED
    BY <1>1, <1>2, SimulationKeeps, RuleEditorKeeps, AlarmPanelKeeps, AlarmCenterKeeps DEF LA!Next

LEMMA SameCardinality == ASSUME NEW S PROVE LA!Cardinality(S) = Cardinality(S)
BY DEF LA!Cardinality, Cardinality

\* What the invariant says of a state.
LEMMA LocalPromises == ASSUME LocalInv PROVE LA!TypeOK /\ LA!AlarmStands /\ LA!EventsTell
<1>1. /\ v1 \in [Rule -> LA!Setting \cup {NoRule}] /\ v2 \in EngineType /\ Listed(v2, v5)
      /\ \A o \in v2.active : v2.occ[o].rule \in v4 \/ Stands(v2, v1, o)
      /\ v3 \in BOOLEAN /\ v4 \subseteq Rule /\ v5 \in BOOLEAN /\ Len(v2.occ) <= MaxOccurrences
      BY DEF LocalInv, Good
<1>2. LA!TypeOK
  <2>1. \A r \in Rule : v2.confirm[r] \in EntryType
        BY <1>1, EntryFacts
  <2>2. \A r \in Rule : v2.confirm[r].rule \in LA!Setting \cup {NoRule}
        BY <2>1, EntryFacts
  <2> QED
      BY <1>1, <2>2 DEF LA!TypeOK, Listed
<1>3. LA!AlarmStands
  <2>1. ASSUME NEW o \in v2.active, v2.occ[o].rule \notin v4
        PROVE  v2.occ[o].rule \in LA!Enabled /\ LA!ActiveOf(v2, v2.occ[o].rule) = {o}
    <3>1. Stands(v2, v1, o) /\ v2.occ[o].rule \in Rule
          BY <1>1, <2>1, ActiveFacts DEF LocalInv
    <3> QED
        BY <2>1, <3>1 DEF Stands, LA!Enabled, LA!ActiveOf
  <2> QED
      BY <2>1 DEF LA!AlarmStands
<1>4. LA!EventsTell
  <2> DEFINE Times(a, kinds) == LA!Cardinality({i \in DOMAIN a.events : a.events[i] \in kinds})
             Once(b) == IF b THEN 1 ELSE 0
  <2>1. \A a, kinds : Times(a, kinds) = Count(a.events, kinds)
        BY SameCardinality DEF Count
  <2>2. ASSUME NEW o \in DOMAIN v2.occ
        PROVE  LET a == v2.occ[o]
               IN  /\ Times(a, {"trigger"}) = 1
                   /\ Times(a, {"ack"}) = Once(a.acked)
                   /\ Times(a, {"recover", "rule_disabled"}) = Once(a.recovered /\ a.kind # "change")
                   /\ o \in v2.active <=> ~a.recovered
                   /\ a.recovered => o \in v2.history \/ v5
                   /\ a.status = "active" => ~a.acked
    <3> HIDE DEF Times
    <3> QED
        BY <1>1, <2>1 DEF Listed, Told
  <2> QED
      BY <2>2 DEF LA!EventsTell
<1> QED
    BY <1>2, <1>3, <1>4

\* While the part that runs is the editor's alarm engine, its invariant holds.
LocalHolds == part = "localAlarms" => LocalInv

LEMMA LocalKept == LocalHolds /\ [Next]_vars => LocalHolds'
<1>1. SUFFICES ASSUME LocalHolds, [Next]_vars, part' = "localAlarms"
               PROVE  LocalInv'
      BY DEF LocalHolds
<1>2. CASE UNCHANGED vars
      BY <1>1, <1>2 DEF LocalHolds, LocalInv, vars
<1>3. CASE Next
  <2>1. part = "localAlarms" /\ LA!Next
        BY <1>1, <1>3 DEF Next
  <2> QED
      BY <1>1, <2>1, LocalStep DEF LocalHolds
<1> QED
    BY <1>1, <1>2, <1>3

LEMMA LocalAlways == Spec => []LocalHolds
<1>1. Init => LocalHolds
      BY LocalStart DEF Init, LocalHolds
<1> QED
    BY <1>1, LocalKept, PTL DEF Spec

-----------------------------------------------------------------------------
(* The backend's alarms.  RemoteAlarms declares its variables in this order: *)
(* active v1, history v2, rules v3, subscribed v4, asked v5, answers v6,     *)
(* up v7, stream v8, backend v9, backendRules v10, stale v11.                *)

Statuses == {"none", "active", "acked", "recovered", "closed"}
News ==
    [type : {"update"}, event : {"trigger", "ack", "recover"}, occ : RA!Occurrence, st : Statuses]
    \cup [type : {"snapshot"}, active : [RA!Occurrence -> Statuses]]
    \cup [type : {"rules"}, rules : 0..MaxRules] \cup [type : {"rules_changed"}]

About(m, o) == m.type = "update" /\ m.occ = o

\* After place n of ms an event of o is told that leads to one of sts.
Comes(ms, n, o, ev, sts) ==
    \E i \in DOMAIN ms : i > n /\ About(ms[i], o) /\ ms[i].event = ev /\ ms[i].st \in sts

\* What event ev takes the status b of o to st.
Moves(o, b, ev, st) ==
    \/ b = "none" /\ ev = "trigger" /\ o \in ThresholdAlarm /\ st = "active"
    \/ b = "none" /\ ev = "trigger" /\ o \in ChangeAlarm /\ st = "recovered"
    \/ b = "active" /\ ev = "ack" /\ st = "acked"
    \/ b = "active" /\ ev = "recover" /\ st = "recovered"
    \/ b = "acked" /\ ev = "recover" /\ st = "closed"
    \/ b = "recovered" /\ ev = "ack" /\ st = "closed"

\* What a message about o may tell.
Formed(m, o) ==
    /\ m.event = "trigger" => m.st = IF o \in ChangeAlarm THEN "recovered" ELSE "active"
    /\ m.event = "ack" => m.st = "closed" \/ (m.st = "acked" /\ o \notin ChangeAlarm)
    /\ m.event = "recover" => m.st \in {"recovered", "closed"} /\ o \notin ChangeAlarm

\* What does not come before or after the i-th of ms.
Apart(ms, i, o) ==
    /\ ms[i].event = "trigger" => \A j \in DOMAIN ms : j < i => ~About(ms[j], o)
    /\ ms[i].event = "recover" => /\ ~Comes(ms, i, o, "ack", {"acked"})
                                  /\ ~Comes(ms, i, o, "recover", Statuses)
    /\ ms[i].event = "ack" /\ ms[i].st = "closed" => \A j \in DOMAIN ms : j > i => ~About(ms[j], o)

\* The status b of o was st, and what took it on from there comes.
Followed(ms, i, o, st, b) ==
    /\ b # "none"
    /\ b = "active" => st = "active"
    /\ b = "acked" => st \in {"active", "acked"}
    /\ b = "recovered" => st \in {"active", "recovered"}
    /\ st \in {"active", "acked"} /\ b \in {"recovered", "closed"} => Comes(ms, i, o, "recover", Statuses)
    /\ st = "active" /\ b = "acked" => Comes(ms, i, o, "ack", {"acked"})
    /\ st = "recovered" /\ b = "closed" => Comes(ms, i, o, "ack", {"closed"})

\* The i-th of ms, about o whose status is b, has its place among the others.
InPlace(ms, i, o, b) ==
    Formed(ms[i], o) /\ Apart(ms, i, o) /\ Followed(ms, i, o, ms[i].st, b)

InOrder(ms, bs) ==
    \A o \in RA!Occurrence : \A i \in DOMAIN ms :
        About(ms[i], o) => InPlace(ms, i, o, bs[o])

LEMMA NewsFacts ==
    /\ \A m \in News : m.type \in {"update", "snapshot", "rules", "rules_changed"}
    /\ \A m \in News : m.type = "update" =>
          m.event \in {"trigger", "ack", "recover"} /\ m.occ \in RA!Occurrence /\ m.st \in Statuses
    /\ \A m \in News : m.type = "snapshot" => m.active \in [RA!Occurrence -> Statuses]
    /\ \A m \in News : m.type = "rules" => m.rules \in 0..MaxRules
BY DEF News

LEMMA ComesAppend ==
    ASSUME NEW ms \in Seq(News), NEW m \in News, NEW n \in Nat, NEW o, NEW ev, NEW sts
    PROVE  Comes(Append(ms, m), n, o, ev, sts) <=>
              \/ Comes(ms, n, o, ev, sts)
              \/ n <= Len(ms) /\ About(m, o) /\ m.event = ev /\ m.st \in sts
<1>1. DOMAIN Append(ms, m) = DOMAIN ms \cup {Len(ms) + 1}
      OBVIOUS
<1>2. Append(ms, m)[Len(ms) + 1] = m /\ \A i \in DOMAIN ms : Append(ms, m)[i] = ms[i]
      OBVIOUS
<1>3. Len(ms) + 1 > n <=> n <= Len(ms)
      OBVIOUS
<1> QED
    BY <1>1, <1>2, <1>3 DEF Comes

LEMMA ComesTail ==
    ASSUME NEW ms \in Seq(News), ms # <<>>, NEW o, NEW ev, NEW sts
    PROVE  /\ \A n \in Nat : Comes(Tail(ms), n, o, ev, sts) <=> Comes(ms, n + 1, o, ev, sts)
           /\ Comes(ms, 0, o, ev, sts) <=>
                 \/ About(Head(ms), o) /\ Head(ms).event = ev /\ Head(ms).st \in sts
                 \/ Comes(Tail(ms), 0, o, ev, sts)
           /\ \A n, k \in Nat : n <= k /\ Comes(ms, k, o, ev, sts) => Comes(ms, n, o, ev, sts)
<1>1. /\ DOMAIN ms = 1..Len(ms) /\ Len(ms) \in Nat /\ Len(ms) > 0
      /\ DOMAIN Tail(ms) = 1..(Len(ms) - 1) /\ ms[1] = Head(ms)
      /\ \A i \in 1..(Len(ms) - 1) : Tail(ms)[i] = ms[i + 1]
      OBVIOUS
<1>2. ASSUME NEW n \in Nat PROVE Comes(Tail(ms), n, o, ev, sts) <=> Comes(ms, n + 1, o, ev, sts)
  <2>1. ASSUME Comes(Tail(ms), n, o, ev, sts) PROVE Comes(ms, n + 1, o, ev, sts)
        BY <1>1, <2>1 DEF Comes
  <2>2. ASSUME Comes(ms, n + 1, o, ev, sts) PROVE Comes(Tail(ms), n, o, ev, sts)
    <3>1. PICK i \in 1..Len(ms) : i > n + 1 /\ About(ms[i], o) /\ ms[i].event = ev /\ ms[i].st \in sts
          BY <1>1, <2>2 DEF Comes
    <3>2. i - 1 \in 1..(Len(ms) - 1) /\ i - 1 > n /\ Tail(ms)[i - 1] = ms[i]
          BY <1>1, <3>1
    <3> QED
        BY <1>1, <3>1, <3>2 DEF Comes
  <2> QED
      BY <2>1, <2>2
<1>3. Comes(ms, 0, o, ev, sts) <=>
         \/ About(Head(ms), o) /\ Head(ms).event = ev /\ Head(ms).st \in sts
         \/ Comes(ms, 1, o, ev, sts)
  <2>1. \A i \in 1..Len(ms) : i > 0 <=> i = 1 \/ i > 1
        BY <1>1
  <2> QED
      BY <1>1, <2>1 DEF Comes
<1>4. \A n, k \in Nat : n <= k /\ Comes(ms, k, o, ev, sts) => Comes(ms, n, o, ev, sts)
      BY <1>1 DEF Comes
<1> QED
    BY <1>2, <1>3, <1>4

\* One more message does not disturb those before it.
LEMMA InPlaceGrows ==
    ASSUME NEW ms \in Seq(News), NEW i \in DOMAIN ms, NEW o \in RA!Occurrence,
           About(ms[i], o), NEW b, InPlace(ms, i, o, b),
           NEW m \in News, NEW c,
           \/ ~About(m, o) /\ c = b
           \/ About(m, o) /\ Moves(o, b, m.event, m.st) /\ c = m.st
    PROVE  InPlace(Append(ms, m), i, o, c)
<1> DEFINE ns == Append(ms, m)
<1>1. /\ DOMAIN ns = DOMAIN ms \cup {Len(ms) + 1} /\ ns[i] = ms[i] /\ ns[Len(ms) + 1] = m
      /\ \A j \in DOMAIN ms : ns[j] = ms[j]
      /\ i \in Nat /\ i <= Len(ms) /\ Len(ms) + 1 > i
      OBVIOUS
<1>2. \A ev, sts : Comes(ns, i, o, ev, sts) <=>
              \/ Comes(ms, i, o, ev, sts)
              \/ About(m, o) /\ m.event = ev /\ m.st \in sts
      BY <1>1, ComesAppend
<1>3. m.type = "update" => m.st \in Statuses
      BY NewsFacts
<1>8. SUFFICES InPlace(ns, i, o, c)
      OBVIOUS
<1> HIDE DEF ns
<1>6. \A j \in DOMAIN ns : /\ j < i => j \in DOMAIN ms
                           /\ j > i => j \in DOMAIN ms \/ ns[j] = m
      BY <1>1
<1>7. ms[i].event \in {"trigger", "ack", "recover"} /\ ms[i].st \in Statuses
      BY NewsFacts DEF About
<1>4. CASE ~About(m, o) /\ c = b
  <2>1. /\ Comes(ns, i, o, "ack", {"acked"}) <=> Comes(ms, i, o, "ack", {"acked"})
        /\ Comes(ns, i, o, "ack", {"closed"}) <=> Comes(ms, i, o, "ack", {"closed"})
        /\ Comes(ns, i, o, "recover", Statuses) <=> Comes(ms, i, o, "recover", Statuses)
        BY <1>2, <1>4
  <2>2. /\ (\A j \in DOMAIN ms : j < i => ~About(ms[j], o)) => \A j \in DOMAIN ns : j < i => ~About(ns[j], o)
        /\ (\A j \in DOMAIN ms : j > i => ~About(ms[j], o)) => \A j \in DOMAIN ns : j > i => ~About(ns[j], o)
        BY <1>1, <1>4, <1>6
  <2>3. Formed(ns[i], o)
        BY <1>1 DEF InPlace
  <2>4. Apart(ns, i, o)
        BY <1>1, <2>1, <2>2 DEF InPlace, Apart
  <2>5. Followed(ns, i, o, ns[i].st, c)
        BY <1>1, <1>4, <2>1 DEF InPlace, Followed
  <2> QED
      BY <2>3, <2>4, <2>5 DEF InPlace
<1>5. CASE About(m, o) /\ Moves(o, b, m.event, m.st) /\ c = m.st
  <2>1. /\ Comes(ns, i, o, "ack", {"acked"}) <=>
              Comes(ms, i, o, "ack", {"acked"}) \/ (m.event = "ack" /\ m.st = "acked")
        /\ Comes(ns, i, o, "ack", {"closed"}) <=>
              Comes(ms, i, o, "ack", {"closed"}) \/ (m.event = "ack" /\ m.st = "closed")
        /\ Comes(ns, i, o, "recover", Statuses) <=>
              Comes(ms, i, o, "recover", Statuses) \/ m.event = "recover"
        BY <1>2, <1>3, <1>5 DEF About
  <2>2. (\A j \in DOMAIN ms : j < i => ~About(ms[j], o)) => \A j \in DOMAIN ns : j < i => ~About(ns[j], o)
        BY <1>1, <1>6
  <2>3. /\ Formed(ms[i], o) /\ Apart(ms, i, o) /\ Followed(ms, i, o, ms[i].st, b)
        /\ Moves(o, b, m.event, c)
        BY <1>5 DEF InPlace
  <2>4. Apart(ns, i, o)
    <3>1. ~(ms[i].event = "ack" /\ ms[i].st = "closed")
          BY <2>3 DEF Followed, Moves
    <3>2. ms[i].event = "recover" => ~(m.event = "ack" /\ m.st = "acked") /\ m.event # "recover"
          BY <1>5, <2>3 DEF Formed, Followed, Moves
    <3> QED
        BY <1>1, <2>1, <2>2, <2>3, <3>1, <3>2 DEF Apart
  <2>5. Followed(ns, i, o, ns[i].st, c)
        BY <1>1, <1>5, <1>7, <2>1, <2>3 DEF Followed, Moves, Statuses
  <2> QED
      BY <1>1, <2>3, <2>4, <2>5 DEF InPlace
<1> QED
    BY <1>4, <1>5

LEMMA InOrderGrows ==
    ASSUME NEW ms \in Seq(News), NEW bs \in [RA!Occurrence -> Statuses], InOrder(ms, bs),
           \A o \in ChangeAlarm : bs[o] \notin {"active", "acked"},
           NEW o \in RA!Occurrence, NEW m \in News, About(m, o), Moves(o, bs[o], m.event, m.st)
    PROVE  InOrder(Append(ms, m), [bs EXCEPT ![o] = m.st])
<1> DEFINE ns == Append(ms, m)
           cs == [bs EXCEPT ![o] = m.st]
           n  == Len(ms) + 1
<1>1. /\ DOMAIN ns = DOMAIN ms \cup {n} /\ ns[n] = m /\ n \in Nat
      /\ \A j \in DOMAIN ms : ns[j] = ms[j] /\ j < n
      OBVIOUS
<1>2. cs[o] = m.st /\ \A p \in RA!Occurrence \ {o} : cs[p] = bs[p]
      OBVIOUS
<1>3. ASSUME NEW p \in RA!Occurrence, NEW i \in DOMAIN ms, About(ns[i], p)
      PROVE  InPlace(ns, i, p, cs[p])
  <2>1. About(ms[i], p) /\ InPlace(ms, i, p, bs[p])
        BY <1>1, <1>3 DEF InOrder
  <2>2. \/ ~About(m, p) /\ cs[p] = bs[p]
        \/ About(m, p) /\ Moves(p, bs[p], m.event, m.st) /\ cs[p] = m.st
        BY <1>2 DEF About
  <2> HIDE DEF cs
  <2> QED
      BY <2>1, <2>2, InPlaceGrows
<1>4. InPlace(ns, n, o, cs[o])
  <2>1. \A ev, sts : ~Comes(ns, n, o, ev, sts)
        BY <1>1 DEF Comes
  <2>2. \A j \in DOMAIN ns : ~(j > n)
        BY <1>1
  <2>3. bs[o] = "none" => \A j \in DOMAIN ns : j < n => ~About(ns[j], o)
        BY <1>1 DEF InOrder, InPlace, Followed
  <2>4. m.event \in {"trigger", "ack", "recover"} /\ m.st \in Statuses
        BY NewsFacts DEF About
  <2>5. ThresholdAlarm \cap ChangeAlarm = {}
        BY EditorAssumption
  <2> HIDE DEF ns, cs, n
  <2>6. Formed(ns[n], o) /\ Apart(ns, n, o)
        BY <1>1, <2>1, <2>2, <2>3, <2>4, <2>5 DEF Formed, Apart, Moves
  <2>7. Followed(ns, n, o, ns[n].st, cs[o])
        BY <1>1, <1>2, <2>4 DEF Followed, Moves
  <2> QED
      BY <2>6, <2>7 DEF InPlace
<1>5. \A p \in RA!Occurrence : About(m, p) => p = o
      BY DEF About
<1> HIDE DEF ns, cs, n
<1>6. InOrder(ns, cs)
      BY <1>1, <1>3, <1>4, <1>5 DEF InOrder
<1> QED
    BY <1>6 DEF ns, cs

LEMMA InOrderTail ==
    ASSUME NEW ms \in Seq(News), ms # <<>>, NEW bs, InOrder(ms, bs)
    PROVE  InOrder(Tail(ms), bs)
<1>1. /\ DOMAIN ms = 1..Len(ms) /\ Len(ms) \in Nat /\ Len(ms) > 0
      /\ DOMAIN Tail(ms) = 1..(Len(ms) - 1)
      /\ \A i \in 1..(Len(ms) - 1) : Tail(ms)[i] = ms[i + 1]
      OBVIOUS
<1>2. SUFFICES ASSUME NEW o \in RA!Occurrence, NEW i \in DOMAIN Tail(ms), About(Tail(ms)[i], o)
               PROVE  InPlace(Tail(ms), i, o, bs[o])
      BY DEF InOrder
<1>3. i \in Nat /\ i + 1 \in DOMAIN ms /\ ms[i + 1] = Tail(ms)[i] /\ InPlace(ms, i + 1, o, bs[o])
      BY <1>1, <1>2 DEF InOrder
<1>4. \A ev, sts : Comes(Tail(ms), i, o, ev, sts) <=> Comes(ms, i + 1, o, ev, sts)
      BY <1>3, ComesTail
<1>5. \A j \in DOMAIN Tail(ms) :
         /\ j + 1 \in DOMAIN ms /\ Tail(ms)[j] = ms[j + 1]
         /\ j < i => j + 1 < i + 1
         /\ j > i => j + 1 > i + 1
      BY <1>1, <1>3
<1> DEFINE ns == Tail(ms)
<1> HIDE DEF ns
<1>6. InPlace(ns, i, o, bs[o])
      BY <1>3, <1>4, <1>5 DEF InPlace, Apart, Followed, ns
<1> QED
    BY <1>6 DEF ns

\* What the messages after the first say of those about o, when it is about o.
LEMMA HeadFacts ==
    ASSUME NEW ms \in Seq(News), ms # <<>>, NEW bs, InOrder(ms, bs),
           NEW o \in RA!Occurrence, About(Head(ms), o)
    PROVE  /\ Formed(Head(ms), o) /\ Head(ms).event \in {"trigger", "ack", "recover"}
           /\ Followed(Tail(ms), 0, o, Head(ms).st, bs[o])
           /\ \A sts : ~Comes(Tail(ms), 0, o, "trigger", sts)
           /\ Head(ms).event = "recover" =>
                 /\ ~Comes(Tail(ms), 0, o, "ack", {"acked"})
                 /\ ~Comes(Tail(ms), 0, o, "recover", Statuses)
           /\ Head(ms).event = "ack" /\ Head(ms).st = "closed" =>
                 \A ev, sts : ~Comes(Tail(ms), 0, o, ev, sts)
<1>1. /\ DOMAIN ms = 1..Len(ms) /\ 1 \in DOMAIN ms /\ ms[1] = Head(ms) /\ Head(ms) \in News
      OBVIOUS
<1>2. Formed(Head(ms), o) /\ Apart(ms, 1, o) /\ Followed(ms, 1, o, Head(ms).st, bs[o])
      BY <1>1 DEF InOrder, InPlace
<1>3. \A ev, sts : Comes(Tail(ms), 0, o, ev, sts) <=> Comes(ms, 1, o, ev, sts)
      BY ComesTail
<1>4. Followed(Tail(ms), 0, o, Head(ms).st, bs[o])
      BY <1>2, <1>3 DEF Followed
<1>5. \A sts : ~Comes(ms, 1, o, "trigger", sts)
      BY <1>1 DEF Comes, InOrder, InPlace, Apart
<1>6. Head(ms).event = "ack" /\ Head(ms).st = "closed" => \A ev, sts : ~Comes(ms, 1, o, ev, sts)
      BY <1>1, <1>2 DEF Comes, Apart
<1>7. Head(ms).event \in {"trigger", "ack", "recover"}
      BY <1>1, NewsFacts DEF About
<1> QED
    BY <1>1, <1>2, <1>3, <1>4, <1>5, <1>6, <1>7 DEF Apart

LEMMA ComesAny ==
    ASSUME NEW ms \in Seq(News), NEW n, NEW o, NEW ev, NEW sts, Comes(ms, n, o, ev, sts)
    PROVE  Comes(ms, n, o, ev, Statuses)
<1>1. PICK i \in DOMAIN ms : i > n /\ About(ms[i], o) /\ ms[i].event = ev
      BY DEF Comes
<1>2. ms[i].st \in Statuses
      BY <1>1, NewsFacts DEF About
<1> QED
    BY <1>1, <1>2 DEF Comes

-----------------------------------------------------------------------------
\* With the messages after place n, x is going to be what is shown of o.
ActiveFit(x, ms, n, o, b) ==
    \/ b = "none" /\ x = "none"
    \/ b = "active" /\ (x = "active" \/ Comes(ms, n, o, "trigger", {"active"}))
    \/ b = "acked" /\ \/ x = "acked"
                      \/ /\ Comes(ms, n, o, "ack", {"acked"})
                         /\ x = "active" \/ Comes(ms, n, o, "trigger", {"active"})
    \/ b \in {"recovered", "closed"} /\ (x = "none" \/ Comes(ms, n, o, "recover", Statuses))

ActiveFits(val, ms, n, bs) == \A o \in RA!Occurrence : ActiveFit(val[o], ms, n, o, bs[o])

SnapshotsFit(ms, bs) ==
    \A i \in DOMAIN ms : ms[i].type = "snapshot" => ActiveFits(ms[i].active, ms, i, bs)

\* What m, about the occurrence shown as x, makes of it.
Shows(x, m) ==
    IF m.event = "recover" THEN "none"
    ELSE IF m.event = "trigger" /\ m.st \in {"recovered", "closed"} THEN x
    ELSE IF m.event = "ack" /\ x = "none" THEN x
    ELSE m.st

LEMMA ActiveGrows ==
    ASSUME NEW ms \in Seq(News), NEW bs \in [RA!Occurrence -> Statuses],
           NEW n \in Nat, n <= Len(ms), NEW val, ActiveFits(val, ms, n, bs),
           NEW o \in RA!Occurrence, NEW m \in News, About(m, o), Moves(o, bs[o], m.event, m.st)
    PROVE  ActiveFits(val, Append(ms, m), n, [bs EXCEPT ![o] = m.st])
<1> DEFINE ns == Append(ms, m)
           cs == [bs EXCEPT ![o] = m.st]
<1>1. SUFFICES ASSUME NEW p \in RA!Occurrence PROVE ActiveFit(val[p], ns, n, p, cs[p])
      BY DEF ActiveFits
<1>2. ActiveFit(val[p], ms, n, p, bs[p])
      BY DEF ActiveFits
<1>3. \A ev, sts : Comes(ns, n, p, ev, sts) <=>
         Comes(ms, n, p, ev, sts) \/ (About(m, p) /\ m.event = ev /\ m.st \in sts)
      BY ComesAppend
<1>4. m.st \in Statuses
      BY NewsFacts DEF About
<1> HIDE DEF ns
<1>5. CASE p = o
  <2>1. cs[p] = m.st
        BY <1>5
  <2> HIDE DEF cs
  <2>2. /\ Comes(ns, n, o, "trigger", {"active"}) <=>
              Comes(ms, n, o, "trigger", {"active"}) \/ (m.event = "trigger" /\ m.st = "active")
        /\ Comes(ns, n, o, "ack", {"acked"}) <=>
              Comes(ms, n, o, "ack", {"acked"}) \/ (m.event = "ack" /\ m.st = "acked")
        /\ Comes(ns, n, o, "recover", Statuses) <=>
              Comes(ms, n, o, "recover", Statuses) \/ m.event = "recover"
        BY <1>3, <1>4, <1>5
  <2> QED
      BY <1>2, <1>5, <2>1, <2>2 DEF ActiveFit, Moves
<1>6. CASE p # o
  <2>1. cs[p] = bs[p] /\ ~About(m, p)
        BY <1>6 DEF About
  <2> HIDE DEF cs
  <2>2. \A ev, sts : Comes(ns, n, p, ev, sts) <=> Comes(ms, n, p, ev, sts)
        BY <1>3, <2>1
  <2> QED
      BY <1>2, <2>1, <2>2 DEF ActiveFit
<1> QED
    BY <1>5, <1>6

LEMMA SnapshotsGrow ==
    ASSUME NEW ms \in Seq(News), NEW bs \in [RA!Occurrence -> Statuses], SnapshotsFit(ms, bs),
           NEW o \in RA!Occurrence, NEW m \in News, About(m, o), Moves(o, bs[o], m.event, m.st)
    PROVE  SnapshotsFit(Append(ms, m), [bs EXCEPT ![o] = m.st])
<1>1. SUFFICES ASSUME NEW i \in DOMAIN Append(ms, m), Append(ms, m)[i].type = "snapshot"
               PROVE  ActiveFits(Append(ms, m)[i].active, Append(ms, m), i, [bs EXCEPT ![o] = m.st])
      BY DEF SnapshotsFit
<1>2. i \in DOMAIN ms /\ Append(ms, m)[i] = ms[i] /\ i \in Nat /\ i <= Len(ms)
      BY <1>1 DEF About
<1>3. ActiveFits(ms[i].active, ms, i, bs)
      BY <1>1, <1>2 DEF SnapshotsFit
<1> QED
    BY <1>2, <1>3, ActiveGrows

\* The first message is taken; before is what the shown alarms were, after what
\* they are.
LEMMA ActiveTail ==
    ASSUME NEW ms \in Seq(News), ms # <<>>, NEW bs, InOrder(ms, bs),
           NEW before, ActiveFits(before, ms, 0, bs), NEW after,
           \A o \in RA!Occurrence :
              after[o] = IF About(Head(ms), o) THEN Shows(before[o], Head(ms)) ELSE before[o]
    PROVE  ActiveFits(after, Tail(ms), 0, bs)
<1> DEFINE m == Head(ms)
           t == Tail(ms)
<1>1. SUFFICES ASSUME NEW o \in RA!Occurrence PROVE ActiveFit(after[o], t, 0, o, bs[o])
      BY DEF ActiveFits
<1>2. ActiveFit(before[o], ms, 0, o, bs[o])
      BY DEF ActiveFits
<1>3. \A ev, sts : Comes(ms, 0, o, ev, sts) <=>
         (About(m, o) /\ m.event = ev /\ m.st \in sts) \/ Comes(t, 0, o, ev, sts)
      BY ComesTail
<1>4. CASE About(m, o)
  <2>1. /\ Formed(m, o) /\ m.event \in {"trigger", "ack", "recover"}
        /\ Followed(t, 0, o, m.st, bs[o]) /\ ~Comes(t, 0, o, "trigger", {"active"})
        /\ m.event = "recover" => /\ ~Comes(t, 0, o, "ack", {"acked"})
                                  /\ ~Comes(t, 0, o, "recover", Statuses)
        /\ m.event = "ack" /\ m.st = "closed" => ~Comes(t, 0, o, "recover", Statuses)
        BY <1>4, HeadFacts
  <2>2. after[o] = Shows(before[o], m)
        BY <1>4
  <2>3. m.st \in Statuses
        BY <1>4, NewsFacts DEF About
  <2> HIDE DEF m, t
  <2>4. /\ Comes(ms, 0, o, "trigger", {"active"}) <=> m.event = "trigger" /\ m.st = "active"
        /\ Comes(ms, 0, o, "ack", {"acked"}) <=>
              (m.event = "ack" /\ m.st = "acked") \/ Comes(t, 0, o, "ack", {"acked"})
        /\ Comes(ms, 0, o, "recover", Statuses) <=>
              m.event = "recover" \/ Comes(t, 0, o, "recover", Statuses)
        BY <1>3, <1>4, <2>1, <2>3
  <2>5. CASE bs[o] \in {"recovered", "closed"}
        BY <1>2, <2>1, <2>2, <2>4, <2>5 DEF ActiveFit, Shows, Formed, Followed
  <2>6. CASE bs[o] \notin {"recovered", "closed"}
        BY <1>2, <2>1, <2>2, <2>4, <2>6 DEF ActiveFit, Shows, Formed, Followed
  <2> QED
      BY <2>5, <2>6
<1>5. CASE ~About(m, o)
  <2>1. after[o] = before[o] /\ \A ev, sts : Comes(ms, 0, o, ev, sts) <=> Comes(t, 0, o, ev, sts)
        BY <1>3, <1>5
  <2> HIDE DEF m, t
  <2> QED
      BY <1>2, <2>1 DEF ActiveFit
<1> QED
    BY <1>4, <1>5

LEMMA SnapshotsTail ==
    ASSUME NEW ms \in Seq(News), ms # <<>>, NEW bs, SnapshotsFit(ms, bs)
    PROVE  /\ SnapshotsFit(Tail(ms), bs)
           /\ Head(ms).type = "snapshot" => ActiveFits(Head(ms).active, Tail(ms), 0, bs)
<1>1. ASSUME NEW n \in Nat, NEW val, ActiveFits(val, ms, n + 1, bs)
      PROVE  ActiveFits(val, Tail(ms), n, bs)
  <2>1. SUFFICES ASSUME NEW o \in RA!Occurrence PROVE ActiveFit(val[o], Tail(ms), n, o, bs[o])
        BY DEF ActiveFits
  <2>2. ActiveFit(val[o], ms, n + 1, o, bs[o])
        BY <1>1 DEF ActiveFits
  <2>3. \A ev, sts : Comes(Tail(ms), n, o, ev, sts) <=> Comes(ms, n + 1, o, ev, sts)
        BY ComesTail
  <2> QED
      BY <2>2, <2>3 DEF ActiveFit
<1>2. \A i \in DOMAIN Tail(ms) : i \in Nat /\ i + 1 \in DOMAIN ms /\ Tail(ms)[i] = ms[i + 1]
      OBVIOUS
<1>3. 1 \in DOMAIN ms /\ ms[1] = Head(ms)
      OBVIOUS
<1>4. SnapshotsFit(Tail(ms), bs)
      BY <1>1, <1>2 DEF SnapshotsFit
<1>5. Head(ms).type = "snapshot" => ActiveFits(Head(ms).active, ms, 0 + 1, bs)
      BY <1>3 DEF SnapshotsFit
<1> QED
    BY <1>1, <1>4, <1>5

-----------------------------------------------------------------------------
\* A list of at most one copy.
Single(l) == l = <<>> \/ \E x \in Statuses : l = <<x>>

\* With the messages ms, the copies l of o will be those of the backend's history,
\* as far as they are of recovered alarms.
ListFit(l, ms, o, b) ==
    \/ b = "none" /\ l = <<>>
    \/ b \in {"active", "acked"} /\ l \in {<<>>, <<"active">>, <<"acked">>}
    \/ /\ b \in {"recovered", "closed"} /\ o \in ThresholdAlarm /\ Single(l)
       /\ \/ l = <<b>> \/ Comes(ms, 0, o, "recover", Statuses)
          \/ b = "closed" /\ l = <<"recovered">> /\ Comes(ms, 0, o, "ack", {"closed"})
    \/ /\ b \in {"recovered", "closed"} /\ o \in ChangeAlarm
       /\ l = <<>> /\ Comes(ms, 0, o, "trigger", Statuses)
    \/ /\ b \in {"recovered", "closed"} /\ o \in ChangeAlarm
       /\ ~Comes(ms, 0, o, "trigger", Statuses)
       /\ \/ l = <<b>>
          \/ b = "closed" /\ l = <<"recovered">> /\ Comes(ms, 0, o, "ack", {"closed"})

ListFits(h, ms, bs) == \A o \in RA!Occurrence : ListFit(h[o], ms, o, bs[o])

\* What m makes of the copies of its occurrence when it is not misled.
Lists(l, m, shown) ==
    IF m.event = "trigger" /\ m.st \in {"recovered", "closed"} THEN <<m.st>> \o l
    ELSE IF m.event = "trigger" \/ (m.event = "ack" /\ (shown \/ l = <<>>)) THEN l
    ELSE IF l = <<>> THEN <<m.st>> ELSE <<m.st>> \o Tail(l)

LEMMA ListGrows ==
    ASSUME NEW ms \in Seq(News), NEW bs \in [RA!Occurrence -> Statuses],
           NEW h, ListFits(h, ms, bs), \A o \in ChangeAlarm : bs[o] \notin {"active", "acked"},
           InOrder(ms, bs),
           NEW o \in RA!Occurrence, NEW m \in News, About(m, o), Moves(o, bs[o], m.event, m.st)
    PROVE  ListFits(h, Append(ms, m), [bs EXCEPT ![o] = m.st])
<1> DEFINE ns == Append(ms, m)
           cs == [bs EXCEPT ![o] = m.st]
<1>1. SUFFICES ASSUME NEW p \in RA!Occurrence PROVE ListFit(h[p], ns, p, cs[p])
      BY DEF ListFits
<1>2. ListFit(h[p], ms, p, bs[p])
      BY DEF ListFits
<1>3. \A ev, sts : Comes(ns, 0, p, ev, sts) <=>
         Comes(ms, 0, p, ev, sts) \/ (About(m, p) /\ m.event = ev /\ m.st \in sts)
      BY ComesAppend
<1>4. m.st \in Statuses
      BY NewsFacts DEF About
<1> HIDE DEF ns
<1>5. CASE p = o
  <2>1. cs[p] = m.st
        BY <1>5
  <2> HIDE DEF cs
  <2>2. /\ Comes(ns, 0, o, "trigger", Statuses) <=>
              Comes(ms, 0, o, "trigger", Statuses) \/ m.event = "trigger"
        /\ Comes(ns, 0, o, "ack", {"closed"}) <=>
              Comes(ms, 0, o, "ack", {"closed"}) \/ (m.event = "ack" /\ m.st = "closed")
        /\ Comes(ns, 0, o, "recover", Statuses) <=>
              Comes(ms, 0, o, "recover", Statuses) \/ m.event = "recover"
        BY <1>3, <1>4, <1>5
  <2>3. o \in ThresholdAlarm \/ o \in ChangeAlarm
        BY DEF RA!Occurrence
  <2>4. ThresholdAlarm \cap ChangeAlarm = {}
        BY EditorAssumption
  <2>5. Single(<<>>) /\ \A x \in Statuses : Single(<<x>>)
        BY DEF Single
  <2>6. Single(<<"active">>) /\ Single(<<"acked">>)
        BY DEF Single, Statuses
  <2> QED
      BY <1>2, <1>5, <2>1, <2>2, <2>3, <2>4, <2>5, <2>6 DEF ListFit, Moves
<1>6. CASE p # o
  <2>1. cs[p] = bs[p] /\ ~About(m, p)
        BY <1>6 DEF About
  <2> HIDE DEF cs
  <2>2. \A ev, sts : Comes(ns, 0, p, ev, sts) <=> Comes(ms, 0, p, ev, sts)
        BY <1>3, <2>1
  <2> QED
      BY <1>2, <2>1, <2>2 DEF ListFit
<1> QED
    BY <1>5, <1>6

LEMMA ListsOne ==
    ASSUME NEW l, Single(l), NEW st
    PROVE  l # <<>> => <<st>> \o Tail(l) = <<st>>
<1>1. \A x : Len(Tail(<<x>>)) = 0 /\ Tail(<<x>>) \in Seq({x})
      OBVIOUS
<1>3. \A x : Tail(<<x>>) = <<>>
      BY <1>1
<1>4. l # <<>> => Tail(l) = <<>>
      BY <1>3 DEF Single
<1>2. <<st>> \o <<>> = <<st>>
      OBVIOUS
<1> QED
    BY <1>2, <1>4

LEMMA ListTail ==
    ASSUME NEW ms \in Seq(News), ms # <<>>, NEW bs, InOrder(ms, bs),
           \A o \in ChangeAlarm : bs[o] \notin {"active", "acked"},
           NEW before, ListFits(before, ms, bs), NEW after, NEW shown,
           \A o \in RA!Occurrence : About(Head(ms), o) =>
              ~(Head(ms).event = "ack" /\ Head(ms).st = "closed" /\ shown[o] # "none"),
           \A o \in RA!Occurrence :
              after[o] = IF About(Head(ms), o)
                         THEN Lists(before[o], Head(ms), shown[o] # "none") ELSE before[o]
    PROVE  ListFits(after, Tail(ms), bs)
<1> DEFINE m == Head(ms)
           t == Tail(ms)
<1>1. SUFFICES ASSUME NEW o \in RA!Occurrence PROVE ListFit(after[o], t, o, bs[o])
      BY DEF ListFits
<1>2. ListFit(before[o], ms, o, bs[o])
      BY DEF ListFits
<1>3. \A ev, sts : Comes(ms, 0, o, ev, sts) <=>
         (About(m, o) /\ m.event = ev /\ m.st \in sts) \/ Comes(t, 0, o, ev, sts)
      BY ComesTail
<1>4. CASE About(m, o)
  <2>1. /\ Formed(m, o) /\ m.event \in {"trigger", "ack", "recover"}
        /\ Followed(t, 0, o, m.st, bs[o]) /\ ~Comes(t, 0, o, "trigger", Statuses)
        /\ m.event = "recover" => /\ ~Comes(t, 0, o, "ack", {"acked"})
                                  /\ ~Comes(t, 0, o, "recover", Statuses)
        /\ m.event = "ack" /\ m.st = "closed" => /\ ~Comes(t, 0, o, "recover", Statuses)
                                                 /\ ~Comes(t, 0, o, "ack", {"closed"})
        BY <1>4, HeadFacts
  <2>2. after[o] = Lists(before[o], m, shown[o] # "none")
        BY <1>4
  <2>3. m.st \in Statuses
        BY <1>4, NewsFacts DEF About
  <2>4. m.event = "ack" /\ m.st = "closed" => shown[o] = "none"
        BY <1>4
  <2>5. <<m.st>> \o <<>> = <<m.st>> /\ Single(<<>>) /\ Single(<<m.st>>)
        BY <2>3 DEF Single
  <2>6. Single(<<"active">>) /\ Single(<<"acked">>)
        BY DEF Single, Statuses
  <2>7. o \in ThresholdAlarm \/ o \in ChangeAlarm
        BY DEF RA!Occurrence
  <2>8. ThresholdAlarm \cap ChangeAlarm = {}
        BY EditorAssumption
  <2> DEFINE l == before[o]
             k == after[o]
  <2>9. Single(l) /\ \A st : l # <<>> => <<st>> \o Tail(l) = <<st>>
    <3>1. \A x \in Statuses : Single(<<x>>)
          BY DEF Single
    <3>2. {"active", "acked", "recovered", "closed"} \subseteq Statuses
          BY DEF Statuses
    <3>3. Single(l)
          BY <1>2, <2>5, <3>1, <3>2 DEF ListFit
    <3> QED
        BY <3>3, ListsOne
  <2>10. /\ m.event = "trigger" /\ m.st \in {"recovered", "closed"} /\ l = <<>> => k = <<m.st>>
         /\ m.event = "trigger" /\ m.st \notin {"recovered", "closed"} => k = l
         /\ m.event = "ack" /\ (shown[o] # "none" \/ l = <<>>) => k = l
         /\ m.event = "ack" /\ shown[o] = "none" /\ l # <<>> => k = <<m.st>>
         /\ m.event = "recover" => k = <<m.st>>
         BY <2>1, <2>2, <2>5, <2>9 DEF Lists
  <2>11. /\ Comes(ms, 0, o, "trigger", Statuses) <=> m.event = "trigger"
         /\ Comes(ms, 0, o, "ack", {"closed"}) <=>
               (m.event = "ack" /\ m.st = "closed") \/ Comes(t, 0, o, "ack", {"closed"})
         /\ Comes(ms, 0, o, "recover", Statuses) <=>
               m.event = "recover" \/ Comes(t, 0, o, "recover", Statuses)
         BY <1>3, <1>4, <2>1, <2>3
  <2>16. SUFFICES ListFit(k, t, o, bs[o])
         OBVIOUS
  <2> HIDE DEF m, t, k, l
  <2>12. ListFit(l, ms, o, bs[o])
         BY <1>2 DEF l
  <2>13. CASE bs[o] \notin {"recovered", "closed"}
         BY <2>1, <2>4, <2>10, <2>11, <2>12, <2>13 DEF ListFit, Formed, Followed
  <2>14. CASE bs[o] \in {"recovered", "closed"} /\ o \in ThresholdAlarm
    <3>1. /\ Single(l)
          /\ \/ l = <<bs[o]>> \/ m.event = "recover" \/ Comes(t, 0, o, "recover", Statuses)
             \/ /\ bs[o] = "closed" /\ l = <<"recovered">>
                /\ (m.event = "ack" /\ m.st = "closed") \/ Comes(t, 0, o, "ack", {"closed"})
          BY <2>8, <2>11, <2>12, <2>14 DEF ListFit
    <3>2. Single(k)
          BY <2>1, <2>5, <2>8, <2>9, <2>10, <2>14, <3>1 DEF Formed
    <3>3. m.event = "trigger" => m.st = "active"
          BY <2>1, <2>8, <2>14 DEF Formed
    <3>4. \/ k = <<bs[o]>> \/ Comes(t, 0, o, "recover", Statuses)
          \/ bs[o] = "closed" /\ k = <<"recovered">> /\ Comes(t, 0, o, "ack", {"closed"})
          BY <2>1, <2>4, <2>10, <2>14, <3>1, <3>3 DEF Formed, Followed
    <3> QED
        BY <2>14, <3>2, <3>4 DEF ListFit
  <2>15. CASE bs[o] \in {"recovered", "closed"} /\ o \in ChangeAlarm
         BY <2>1, <2>4, <2>8, <2>10, <2>11, <2>12, <2>15 DEF ListFit, Formed, Followed
  <2> QED
      BY <2>7, <2>13, <2>14, <2>15
<1>5. CASE ~About(m, o)
  <2>1. after[o] = before[o] /\ \A ev, sts : Comes(ms, 0, o, ev, sts) <=> Comes(t, 0, o, ev, sts)
        BY <1>3, <1>5
  <2> HIDE DEF m, t
  <2> QED
      BY <1>2, <2>1 DEF ListFit
<1> QED
    BY <1>4, <1>5

-----------------------------------------------------------------------------
RulesFit(val, ms, n, br) ==
    val = br \/ \E i \in DOMAIN ms : i > n /\ ms[i].type = "rules_changed"
RulesFits(ms, br) ==
    \A i \in DOMAIN ms : ms[i].type = "rules" => RulesFit(ms[i].rules, ms, i, br)

Coming(ms, type) == \E i \in DOMAIN ms : ms[i].type = type

\* With the messages ms, val is going to be what the backend has of kind k.
Fits(k, val, ms, bs, br) ==
    /\ k = "active"  => Coming(ms, "snapshot") \/ ActiveFits(val, ms, 0, bs)
    /\ k = "history" => ListFits(val, ms, bs)
    /\ k = "rules"   => Coming(ms, "rules") \/ RulesFit(val, ms, 0, br)

\* What is shown fits when no answer is on its way, and so does the last answer.
Settled(k, val, ans, outdated, ms, bs, br) ==
    /\ ans = <<>> /\ ~outdated => Fits(k, val, ms, bs, br)
    /\ ans # <<>> /\ ~ans[Len(ans)].late => Fits(k, ans[Len(ans)].val, ms, bs, br)

Values(k) ==
    IF k = "active" THEN [RA!Occurrence -> Statuses]
    ELSE IF k = "history" THEN [RA!Occurrence -> Seq(Statuses)] ELSE 0..MaxRules
Letter == [val : Values("active") \cup Values("history") \cup Values("rules"), late : BOOLEAN]
ShownOf(k) == IF k = "active" THEN v1 ELSE IF k = "history" THEN v2 ELSE v3

RemoteTypes ==
    /\ v1 \in Values("active") /\ v9 \in Values("active") /\ v2 \in Values("history")
    /\ v3 \in 0..MaxRules /\ v10 \in 0..MaxRules
    /\ v4 \in BOOLEAN /\ v7 \in BOOLEAN /\ v11 \in [AskedKind -> BOOLEAN]
    /\ v5 \in [AskedKind -> 0..MaxAsked] /\ v6 \in [AskedKind -> Seq(Letter)]
    /\ \A k \in AskedKind : \A i \in DOMAIN v6[k] : v6[k][i].val \in Values(k)

StreamFits(ms, bs, br) ==
    /\ ms \in Seq(News) /\ InOrder(ms, bs) /\ SnapshotsFit(ms, bs) /\ RulesFits(ms, br)
    /\ \A o \in ChangeAlarm : bs[o] \notin {"active", "acked"}

RemoteInv ==
    /\ RemoteTypes /\ StreamFits(v8, v9, v10) /\ (~v7 => v8 = <<>>)
    /\ \A k \in AskedKind :
          v4 /\ v7 /\ v5[k] = 0 => Settled(k, ShownOf(k), v6[k], v11[k], v8, v9, v10)

LEMMA StatusFacts ==
    /\ RA!Status = Statuses /\ RA!Active = {"active", "acked"} /\ RA!Done = {"recovered", "closed"}
    /\ AskedKind \subseteq {"active", "history", "rules"}
    /\ MaxRules \in Nat /\ MaxAsked \in Nat
BY EditorAssumption DEF RA!Status, RA!Active, RA!Done, Statuses

LEMMA EmptyFits ==
    ASSUME NEW bs, NEW br, \A o \in ChangeAlarm : bs[o] \notin {"active", "acked"}
    PROVE  StreamFits(<<>>, bs, br)
<1>1. <<>> \in Seq(News) /\ DOMAIN <<>> = {}
      OBVIOUS
<1> QED
    BY <1>1 DEF StreamFits, InOrder, SnapshotsFit, RulesFits

LEMMA RemoteStart == ASSUME RA!Init PROVE RemoteInv
<1>1. /\ v1 = [o \in RA!Occurrence |-> "none"] /\ v2 = [o \in RA!Occurrence |-> <<>>]
      /\ v3 = 0 /\ v10 = 0 /\ v4 = FALSE /\ v7 = FALSE /\ v8 = <<>> /\ v9 = v1
      /\ v5 = [k \in AskedKind |-> 0] /\ v6 = [k \in AskedKind |-> <<>>]
      /\ v11 = [k \in AskedKind |-> FALSE]
      BY DEF RA!Init
<1>2. v1 \in Values("active") /\ v9 \in Values("active")
      BY <1>1 DEF Values, Statuses
<1>3. v2 \in Values("history")
      BY <1>1 DEF Values
<1>4. v3 \in 0..MaxRules /\ v10 \in 0..MaxRules /\ 0 \in 0..MaxAsked
      BY <1>1, StatusFacts
<1>5. v5 \in [AskedKind -> 0..MaxAsked] /\ v11 \in [AskedKind -> BOOLEAN]
      BY <1>1, <1>4
<1>6. v6 \in [AskedKind -> Seq(Letter)]
      BY <1>1
<1>9. \A k \in AskedKind : DOMAIN v6[k] = {}
      BY <1>1
<1>7. v4 \in BOOLEAN /\ v7 \in BOOLEAN /\ ~v4
      BY <1>1
<1>10. \A o \in ChangeAlarm : v9[o] = "none"
       BY <1>1 DEF RA!Occurrence
<1>8. StreamFits(v8, v9, v10)
      BY <1>1, <1>10, EmptyFits
<1> QED
    BY <1>1, <1>2, <1>3, <1>4, <1>5, <1>6, <1>7, <1>8, <1>9 DEF RemoteInv, RemoteTypes

\* Requests are sent.
LEMMA AskFits ==
    ASSUME RemoteTypes, NEW ks, RA!Ask(ks)
    PROVE  /\ v5' \in [AskedKind -> 0..MaxAsked]
           /\ \A k \in AskedKind : v5'[k] = 0 => v5[k] = 0 /\ k \notin ks
<1>1. /\ \A k \in AskedKind \cap ks : v5[k] + Len(v6[k]) < MaxAsked
      /\ v5' = [k \in AskedKind |-> IF k \in ks THEN v5[k] + 1 ELSE v5[k]]
      BY DEF RA!Ask
<1>2. ASSUME NEW k \in AskedKind
      PROVE  v5'[k] \in 0..MaxAsked /\ (v5'[k] = 0 => v5[k] = 0 /\ k \notin ks)
  <2>1. v5[k] \in 0..MaxAsked /\ Len(v6[k]) \in Nat /\ MaxAsked \in Nat
        BY StatusFacts DEF RemoteTypes
  <2> QED
      BY <1>1, <2>1
<1> QED
    BY <1>1, <1>2

LEMMA ClientKeeps ==
    ASSUME RemoteInv, RA!QueryHistory \/ RA!SetRemote \/ RA!SetLocal \/ RA!Lose
    PROVE  RemoteInv'
<1>1. CASE RA!QueryHistory
  <2>1. RA!Ask({"history"}) /\ UNCHANGED <<v1, v2, v3, v4, v6, v7, v8, v9, v10, v11>>
        BY <1>1 DEF RA!QueryHistory, RA!client, RA!server
  <2>2. /\ v5' \in [AskedKind -> 0..MaxAsked]
        /\ \A k \in AskedKind : v5'[k] = 0 => v5[k] = 0
        BY <2>1, AskFits DEF RemoteInv
  <2> QED
      BY <2>1, <2>2 DEF RemoteInv, RemoteTypes, ShownOf
<1>2. CASE RA!SetRemote
  <2>1. /\ RA!Ask(AskedKind) /\ v4' = TRUE
        /\ UNCHANGED <<v1, v2, v3, v6, v7, v8, v9, v10, v11>>
        BY <1>2 DEF RA!SetRemote, RA!RefreshAll, RA!server
  <2>2. v5' \in [AskedKind -> 0..MaxAsked] /\ \A k \in AskedKind : v5'[k] # 0
        BY <2>1, AskFits DEF RemoteInv
  <2> QED
      BY <2>1, <2>2 DEF RemoteInv, RemoteTypes
<1>3. CASE RA!SetLocal
      BY <1>3 DEF RA!SetLocal, RA!server, RemoteInv, RemoteTypes
<1>4. CASE RA!Lose
  <2>1. v7' = FALSE /\ v8' = <<>> /\ UNCHANGED <<v1, v2, v3, v4, v5, v6, v9, v10, v11>>
        BY <1>4 DEF RA!Lose, RA!client, RA!server
  <2>2. StreamFits(<<>>, v9, v10)
        BY EmptyFits DEF RemoteInv, StreamFits
  <2> QED
      BY <2>1, <2>2 DEF RemoteInv, RemoteTypes
<1> QED
    BY <1>1, <1>2, <1>3, <1>4

\* What the backend answers fits, but for a history that is late from the start.
LEMMA ValueFits ==
    ASSUME RemoteInv, NEW k \in AskedKind
    PROVE  /\ RA!Value(k) \in Values(k)
           /\ \/ k = "history" /\ \E m \in RA!Range(v8) : m.type = "update" /\ m.occ \in ChangeAlarm
              \/ Fits(k, RA!Value(k), v8, v9, v10)
<1>1. v9 \in [RA!Occurrence -> Statuses] /\ v10 \in 0..MaxRules
      BY DEF RemoteInv, RemoteTypes, Values
<1>2. CASE k = "active"
  <2> DEFINE val == [o \in RA!Occurrence |->
                        IF v9[o] \in {"active", "acked"} THEN v9[o] ELSE "none"]
  <2>1. RA!Value(k) = val
        BY <1>2, StatusFacts DEF RA!Value
  <2>2. val \in [RA!Occurrence -> Statuses]
        BY <1>1 DEF Statuses
  <2>3. ActiveFits(val, v8, 0, v9)
        BY <1>1 DEF ActiveFits, ActiveFit, Statuses
  <2> QED
      BY <1>2, <2>1, <2>2, <2>3 DEF Fits, Values
<1>3. CASE k = "history"
  <2> DEFINE val == [o \in RA!Occurrence |-> IF v9[o] = "none" THEN <<>> ELSE <<v9[o]>>]
  <2>1. RA!Value(k) = val
        BY <1>3 DEF RA!Value
  <2>2. val \in [RA!Occurrence -> Seq(Statuses)]
        BY <1>1
  <2>3. ASSUME ~ \E m \in RA!Range(v8) : m.type = "update" /\ m.occ \in ChangeAlarm
        PROVE  ListFits(val, v8, v9)
    <3>1. SUFFICES ASSUME NEW o \in RA!Occurrence PROVE ListFit(val[o], v8, o, v9[o])
          BY DEF ListFits
    <3>2. o \in ChangeAlarm => ~Comes(v8, 0, o, "trigger", Statuses)
          BY <2>3 DEF Comes, About, RA!Range
    <3>3. /\ v9[o] = "none" => val[o] = <<>>
          /\ v9[o] # "none" => val[o] = <<v9[o]>> /\ Single(val[o])
          BY <1>1 DEF Single
    <3>4. v9[o] \in Statuses /\ (o \in ThresholdAlarm \/ o \in ChangeAlarm)
          BY <1>1 DEF RA!Occurrence
    <3> HIDE DEF val
    <3> QED
        BY <3>2, <3>3, <3>4 DEF ListFit, Statuses
  <2> QED
      BY <1>3, <2>1, <2>2, <2>3 DEF Fits, Values
<1>4. CASE k = "rules"
  <2>1. RA!Value(k) = v10
        BY <1>4 DEF RA!Value
  <2> QED
      BY <1>1, <1>4, <2>1 DEF Fits, RulesFit, Values
<1> QED
    BY <1>2, <1>3, <1>4, StatusFacts

LEMMA LateFits ==
    ASSUME NEW ans \in Seq(Letter)
    PROVE  /\ RA!Late(ans) \in Seq(Letter) /\ Len(RA!Late(ans)) = Len(ans)
           /\ \A i \in 1..Len(ans) : RA!Late(ans)[i].val = ans[i].val /\ RA!Late(ans)[i].late
<1> DEFINE new == RA!Late(ans)
<1>1. new = [i \in 1..Len(ans) |-> [ans[i] EXCEPT !.late = TRUE]]
      BY DEF RA!Late
<1>2. \A i \in 1..Len(ans) : ans[i] \in Letter
      OBVIOUS
<1>3. \A a \in Letter : /\ [a EXCEPT !.late = TRUE] \in Letter
                        /\ [a EXCEPT !.late = TRUE].val = a.val
                        /\ [a EXCEPT !.late = TRUE].late
      BY DEF Letter
<1>4. SUFFICES /\ new \in Seq(Letter) /\ Len(new) = Len(ans)
               /\ \A i \in 1..Len(ans) : new[i].val = ans[i].val /\ new[i].late
      OBVIOUS
<1> HIDE DEF new
<1>5. \A i \in 1..Len(ans) : new[i] = [ans[i] EXCEPT !.late = TRUE]
      BY <1>1
<1>6. \A i \in 1..Len(ans) : new[i] \in Letter /\ new[i].val = ans[i].val /\ new[i].late
  <2>1. ASSUME NEW i \in 1..Len(ans)
        PROVE  new[i] \in Letter /\ new[i].val = ans[i].val /\ new[i].late
    <3>1. ans[i] \in Letter /\ new[i] = [ans[i] EXCEPT !.late = TRUE]
          BY <1>2, <1>5
    <3> QED
        BY <1>3, <3>1, Zenon
  <2> QED
      BY <2>1
<1>7. new = [i \in 1..Len(ans) |-> new[i]]
      BY <1>1
<1>8. new \in Seq(Letter) /\ Len(new) = Len(ans)
  <2>1. Len(ans) \in Nat
        OBVIOUS
  <2> QED
      BY <1>6, <1>7, <2>1
<1> QED
    BY <1>6, <1>8

-----------------------------------------------------------------------------
(* Answers of the backend.                                                   *)

\* Only what is shown, asked and answered of kind k changes.
LEMMA OneKind ==
    ASSUME RemoteInv, NEW k \in AskedKind, RemoteTypes',
           UNCHANGED <<v4, v7, v8, v9, v10>>,
           \A j \in AskedKind \ {k} :
              /\ ShownOf(j)' = ShownOf(j)
              /\ v5'[j] = v5[j] /\ v6'[j] = v6[j] /\ v11'[j] = v11[j],
           v4 /\ v7 /\ v5'[k] = 0 => Settled(k, ShownOf(k)', v6'[k], v11'[k], v8, v9, v10)
    PROVE  RemoteInv'
<1>1. ASSUME NEW j \in AskedKind, v4, v7, v5'[j] = 0
      PROVE  Settled(j, ShownOf(j)', v6'[j], v11'[j], v8, v9, v10)
  <2>1. CASE j = k
        BY <1>1, <2>1
  <2>2. CASE j # k
    <3>1. v5[j] = 0 /\ ShownOf(j)' = ShownOf(j) /\ v6'[j] = v6[j] /\ v11'[j] = v11[j]
          BY <1>1, <2>2
    <3>2. Settled(j, ShownOf(j), v6[j], v11[j], v8, v9, v10)
          BY <1>1, <3>1 DEF RemoteInv
    <3> QED
        BY <3>1, <3>2
  <2> QED
      BY <2>1, <2>2
<1>2. \A j \in AskedKind :
         v4' /\ v7' /\ v5'[j] = 0 => Settled(j, ShownOf(j)', v6'[j], v11'[j], v8', v9', v10')
      BY <1>1
<1>3. StreamFits(v8', v9', v10') /\ (~v7' => v8' = <<>>)
      BY DEF RemoteInv
<1> QED
    BY <1>2, <1>3 DEF RemoteInv

LEMMA LetterFacts ==
    /\ \A k \in AskedKind : \A val \in Values(k) : \A late \in BOOLEAN :
          [val |-> val, late |-> late] \in Letter
    /\ \A a \in Letter : a.late \in BOOLEAN
    /\ Values("rules") = 0..MaxRules
<1>1. ASSUME NEW k \in AskedKind, NEW val \in Values(k)
      PROVE  val \in Values("active") \cup Values("history") \cup Values("rules")
      BY StatusFacts
<1> QED
    BY <1>1 DEF Letter, Values

\* The answers to one kind change.
LEMMA AnswersTyped ==
    ASSUME RemoteTypes, NEW k \in AskedKind, NEW ans \in Seq(Letter),
           \A i \in DOMAIN ans : ans[i].val \in Values(k),
           v6' = [v6 EXCEPT ![k] = ans]
    PROVE  /\ v6' \in [AskedKind -> Seq(Letter)]
           /\ \A j \in AskedKind : \A i \in DOMAIN v6'[j] : v6'[j][i].val \in Values(j)
           /\ v6'[k] = ans /\ \A j \in AskedKind \ {k} : v6'[j] = v6[j]
<1>1. v6 \in [AskedKind -> Seq(Letter)]
      BY DEF RemoteTypes
<1>2. v6'[k] = ans /\ \A j \in AskedKind \ {k} : v6'[j] = v6[j]
      BY <1>1
<1>3. v6' \in [AskedKind -> Seq(Letter)]
      BY <1>1
<1>4. ASSUME NEW j \in AskedKind
      PROVE  \A i \in DOMAIN v6'[j] : v6'[j][i].val \in Values(j)
  <2>1. CASE j = k
        BY <1>2, <2>1
  <2>2. CASE j # k
        BY <1>2, <2>2 DEF RemoteTypes
  <2> QED
      BY <2>1, <2>2
<1> QED
    BY <1>2, <1>3, <1>4

LEMMA AskedLess ==
    ASSUME RemoteTypes, NEW k \in AskedKind, v5[k] > 0, v5' = [v5 EXCEPT ![k] = @ - 1]
    PROVE  /\ v5' \in [AskedKind -> 0..MaxAsked]
           /\ \A j \in AskedKind \ {k} : v5'[j] = v5[j]
<1>1. v5 \in [AskedKind -> 0..MaxAsked] /\ MaxAsked \in Nat
      BY StatusFacts DEF RemoteTypes
<1>2. v5[k] - 1 \in 0..MaxAsked
      BY <1>1
<1> QED
    BY <1>1, <1>2

LEMMA HandledFits ==
    ASSUME RemoteInv, NEW k \in AskedKind, RA!Handled(k)
    PROVE  RemoteInv'
<1> DEFINE val == RA!Value(k)
           late == k = "history" /\ \E m \in RA!Range(v8) : m.type = "update" /\ m.occ \in ChangeAlarm
           a == [val |-> val, late |-> late]
           ans == Append(v6[k], a)
<1>1. /\ v5[k] > 0 /\ v5' = [v5 EXCEPT ![k] = @ - 1] /\ v6' = [v6 EXCEPT ![k] = ans]
      /\ UNCHANGED <<v1, v2, v3, v4, v7, v8, v9, v10, v11>>
      BY DEF RA!Handled, RA!client, RA!server
<1>2. late \in BOOLEAN /\ val \in Values(k) /\ (late \/ Fits(k, val, v8, v9, v10))
      BY ValueFits
<1> HIDE DEF val, late
<1>3. a \in Letter
      BY <1>2, LetterFacts
<1>4. a.val = val /\ a.late = late
      OBVIOUS
<1>5. v6[k] \in Seq(Letter) /\ \A i \in DOMAIN v6[k] : v6[k][i].val \in Values(k)
      BY DEF RemoteInv, RemoteTypes
<1> HIDE DEF a
<1>6. /\ ans \in Seq(Letter) /\ ans # <<>> /\ ans[Len(ans)] = a
      /\ DOMAIN ans = DOMAIN v6[k] \cup {Len(v6[k]) + 1} /\ ans[Len(v6[k]) + 1] = a
      /\ \A i \in DOMAIN v6[k] : ans[i] = v6[k][i]
      BY <1>3, <1>5
<1> HIDE DEF ans
<1>7. \A i \in DOMAIN ans : ans[i].val \in Values(k)
      BY <1>2, <1>4, <1>5, <1>6
<1>8. /\ v6' \in [AskedKind -> Seq(Letter)]
      /\ \A j \in AskedKind : \A i \in DOMAIN v6'[j] : v6'[j][i].val \in Values(j)
      /\ v6'[k] = ans /\ \A j \in AskedKind \ {k} : v6'[j] = v6[j]
      BY <1>1, <1>6, <1>7, AnswersTyped DEF RemoteInv
<1>9. v5' \in [AskedKind -> 0..MaxAsked] /\ \A j \in AskedKind \ {k} : v5'[j] = v5[j]
      BY <1>1, AskedLess DEF RemoteInv
<1>10. RemoteTypes'
       BY <1>1, <1>8, <1>9 DEF RemoteInv, RemoteTypes
<1>11. Settled(k, ShownOf(k)', v6'[k], v11'[k], v8, v9, v10)
       BY <1>2, <1>4, <1>6, <1>8 DEF Settled
<1> QED
    BY <1>1, <1>8, <1>9, <1>10, <1>11, OneKind DEF ShownOf

LEMMA FailedFits ==
    ASSUME RemoteInv, NEW k \in AskedKind, RA!Failed(k)
    PROVE  RemoteInv'
<1> DEFINE ans == RA!Late(v6[k])
<1>1. /\ v5[k] > 0 /\ v5' = [v5 EXCEPT ![k] = @ - 1] /\ v6' = [v6 EXCEPT ![k] = ans]
      /\ v11' = [v11 EXCEPT ![k] = TRUE]
      /\ UNCHANGED <<v1, v2, v3, v4, v7, v8, v9, v10>>
      BY DEF RA!Failed, RA!client, RA!server
<1>2. v6[k] \in Seq(Letter) /\ \A i \in DOMAIN v6[k] : v6[k][i].val \in Values(k)
      BY DEF RemoteInv, RemoteTypes
<1>3. /\ ans \in Seq(Letter) /\ Len(ans) = Len(v6[k])
      /\ \A i \in 1..Len(v6[k]) : ans[i].val = v6[k][i].val /\ ans[i].late
      BY <1>2, LateFits
<1> HIDE DEF ans
<1>4. DOMAIN v6[k] = 1..Len(v6[k]) /\ DOMAIN ans = 1..Len(ans) /\ Len(ans) \in Nat
      BY <1>2, <1>3
<1>5. \A i \in DOMAIN ans : ans[i].val \in Values(k)
      BY <1>2, <1>3, <1>4
<1>6. ans # <<>> => ans[Len(ans)].late
  <2>1. ans # <<>> => Len(ans) \in 1..Len(ans)
        BY <1>3
  <2> QED
      BY <1>3, <2>1
<1>7. /\ v6' \in [AskedKind -> Seq(Letter)]
      /\ \A j \in AskedKind : \A i \in DOMAIN v6'[j] : v6'[j][i].val \in Values(j)
      /\ v6'[k] = ans /\ \A j \in AskedKind \ {k} : v6'[j] = v6[j]
      BY <1>1, <1>3, <1>5, AnswersTyped DEF RemoteInv
<1>8. v5' \in [AskedKind -> 0..MaxAsked] /\ \A j \in AskedKind \ {k} : v5'[j] = v5[j]
      BY <1>1, AskedLess DEF RemoteInv
<1>9. v11 \in [AskedKind -> BOOLEAN]
      BY DEF RemoteInv, RemoteTypes
<1>10. v11' \in [AskedKind -> BOOLEAN] /\ v11'[k] /\ \A j \in AskedKind \ {k} : v11'[j] = v11[j]
       BY <1>1, <1>9
<1>11. RemoteTypes'
       BY <1>1, <1>7, <1>8, <1>10 DEF RemoteInv, RemoteTypes
<1>12. Settled(k, ShownOf(k)', v6'[k], v11'[k], v8, v9, v10)
       BY <1>6, <1>7, <1>10 DEF Settled
<1> QED
    BY <1>1, <1>7, <1>8, <1>10, <1>11, <1>12, OneKind DEF ShownOf

\* Sequences joined and cut.
LEMMA Joined ==
    ASSUME NEW S, NEW s \in Seq(S), NEW t \in Seq(S)
    PROVE  /\ s \o t \in Seq(S) /\ Len(s \o t) = Len(s) + Len(t)
           /\ \A j \in 1..Len(s) : (s \o t)[j] = s[j]
           /\ \A j \in 1..Len(t) : (s \o t)[Len(s) + j] = t[j]
<1>1. /\ Len(s) \in Nat /\ Len(t) \in Nat
      /\ s \o t \in Seq(S) /\ Len(s \o t) = Len(s) + Len(t)
      OBVIOUS
<1>2. \A j \in 1..Len(s) : (s \o t)[j] = s[j]
      BY <1>1
<1>3. ASSUME NEW j \in 1..Len(t) PROVE (s \o t)[Len(s) + j] = t[j]
  <2>1. Len(s) + j \in 1..(Len(s) + Len(t)) /\ Len(s) + j > Len(s) /\ (Len(s) + j) - Len(s) = j
        BY <1>1
  <2> QED
      BY <1>1, <2>1
<1> QED
    BY <1>1, <1>2, <1>3

LEMMA Beginning ==
    ASSUME NEW S, NEW s \in Seq(S), NEW i \in 0..Len(s)
    PROVE  /\ SubSeq(s, 1, i) \in Seq(S) /\ Len(SubSeq(s, 1, i)) = i
           /\ \A j \in 1..i : SubSeq(s, 1, i)[j] = s[j]
<1>1. Len(s) \in Nat /\ i \in Nat /\ i <= Len(s)
      OBVIOUS
<1> QED
    BY <1>1

LEMMA Rest ==
    ASSUME NEW S, NEW s \in Seq(S), NEW i \in 0..Len(s), NEW c, c = SubSeq(s, i + 1, Len(s))
    PROVE  c \in Seq(S) /\ Len(c) = Len(s) - i /\ \A j \in 1..(Len(s) - i) : c[j] = s[i + j]
<1>1. Len(s) \in Nat /\ i \in Nat /\ i + 1 \in 1..(Len(s) + 1)
      OBVIOUS
<1>2. CASE i = Len(s)
  <2>1. c \in Seq(S) /\ Len(c) = 0
        BY <1>1, <1>2
  <2> QED
      BY <1>1, <1>2, <2>1
<1>3. CASE i < Len(s)
  <2>1. i + 1 \in 1..Len(s) /\ Len(s) - (i + 1) + 1 = Len(s) - i
        BY <1>1, <1>3
  <2>2. c \in Seq(S) /\ Len(c) = Len(s) - i
        BY <1>1, <2>1
  <2>3. ASSUME NEW j \in 1..(Len(s) - i) PROVE c[j] = s[i + j]
    <3>1. (i + 1) + j - 1 = i + j
          BY <1>1
    <3> QED
        BY <1>1, <2>1, <2>2, <3>1
  <2> QED
      BY <2>2, <2>3
<1> QED
    BY <1>1, <1>2, <1>3

\* The i-th answer is taken: those before it are late, those after it are not.
Without(ans, i) == RA!Late(SubSeq(ans, 1, i - 1)) \o SubSeq(ans, i + 1, Len(ans))

LEMMA Dropped ==
    ASSUME NEW ans \in Seq(Letter), NEW i \in 1..Len(ans)
    PROVE  /\ Without(ans, i) \in Seq(Letter) /\ Len(Without(ans, i)) = Len(ans) - 1
           /\ \A j \in 1..(i - 1) : Without(ans, i)[j].val = ans[j].val /\ Without(ans, i)[j].late
           /\ \A j \in 1..(Len(ans) - i) : Without(ans, i)[(i - 1) + j] = ans[i + j]
<1> DEFINE new == Without(ans, i)
           n == Len(ans)
<1>9. SUFFICES /\ new \in Seq(Letter) /\ Len(new) = n - 1
               /\ \A j \in 1..(i - 1) : new[j].val = ans[j].val /\ new[j].late
               /\ \A j \in 1..(n - i) : new[(i - 1) + j] = ans[i + j]
      OBVIOUS
<1> DEFINE b == SubSeq(ans, 1, i - 1)
           l == RA!Late(b)
           c == SubSeq(ans, i + 1, Len(ans))
<1>1. n \in Nat /\ i \in Nat /\ i - 1 \in Nat /\ i <= n /\ n - i \in Nat
      OBVIOUS
<1>2. /\ b \in Seq(Letter) /\ Len(b) = i - 1 /\ \A j \in 1..(i - 1) : b[j] = ans[j]
      BY <1>1
<1>3. /\ c \in Seq(Letter) /\ Len(c) = n - i
      /\ \A j \in 1..(n - i) : c[j] = ans[i + j]
      BY Rest
<1> HIDE DEF b, c
<1>4. /\ l \in Seq(Letter) /\ Len(l) = i - 1
      /\ \A j \in 1..(i - 1) : l[j].val = ans[j].val /\ l[j].late
      BY <1>2, LateFits
<1> HIDE DEF l
<1>5. new = l \o c
      BY DEF l, b, c, new, Without
<1> HIDE DEF new
<1>6. /\ l \o c \in Seq(Letter) /\ Len(l \o c) = Len(l) + Len(c)
      /\ \A j \in 1..Len(l) : (l \o c)[j] = l[j]
      /\ \A j \in 1..Len(c) : (l \o c)[Len(l) + j] = c[j]
  <2>1. l \in Seq(Letter) /\ c \in Seq(Letter)
        BY <1>3, <1>4
  <2> QED
      BY <2>1, Joined
<1>7. (i - 1) + (n - i) = n - 1
      BY <1>1
<1>8. /\ new \in Seq(Letter) /\ Len(new) = n - 1
      /\ \A j \in 1..(i - 1) : new[j] = l[j]
      /\ \A j \in 1..(n - i) : new[(i - 1) + j] = c[j]
      BY <1>3, <1>4, <1>5, <1>6, <1>7
<1> QED
    BY <1>3, <1>4, <1>8

LEMMA DropFits ==
    ASSUME NEW ans \in Seq(Letter), NEW i \in 1..Len(ans)
    PROVE  /\ \A j \in DOMAIN Without(ans, i) :
                 \E l \in DOMAIN ans : Without(ans, i)[j].val = ans[l].val
           /\ Without(ans, i) = <<>> => ans # <<>> /\ i = Len(ans)
           /\ Without(ans, i) # <<>> /\ ~Without(ans, i)[Len(Without(ans, i))].late
                 => ans # <<>> /\ Without(ans, i)[Len(Without(ans, i))] = ans[Len(ans)]
<1> DEFINE new == Without(ans, i)
           n == Len(ans)
<1>7. SUFFICES
           /\ \A j \in DOMAIN new : \E l \in DOMAIN ans : new[j].val = ans[l].val
           /\ new = <<>> => ans # <<>> /\ i = n
           /\ new # <<>> /\ ~new[Len(new)].late => ans # <<>> /\ new[Len(new)] = ans[n]
      OBVIOUS
<1>8. /\ new \in Seq(Letter) /\ Len(new) = n - 1 /\ n = Len(ans) /\ i \in 1..n
      /\ \A j \in 1..(i - 1) : new[j].val = ans[j].val /\ new[j].late
      /\ \A j \in 1..(n - i) : new[(i - 1) + j] = ans[i + j]
      BY Dropped
<1> HIDE DEF new, n
<1>1. /\ n \in Nat /\ i \in Nat /\ i - 1 \in Nat /\ i <= n /\ ans # <<>> /\ i >= 1
      /\ DOMAIN ans = 1..n /\ DOMAIN new = 1..(n - 1)
      BY <1>8
<1>2. ASSUME NEW j \in 1..(n - 1), j \notin 1..(i - 1)
      PROVE  j - (i - 1) \in 1..(n - i) /\ (i - 1) + (j - (i - 1)) = j /\ i + (j - (i - 1)) = j + 1
      BY <1>1, <1>2
<1>3. ASSUME NEW j \in 1..(n - 1), j \notin 1..(i - 1) PROVE new[j] = ans[j + 1] /\ j + 1 \in 1..n
  <2>1. j + 1 \in 1..n
        BY <1>1
  <2>2. /\ j - (i - 1) \in 1..(n - i) /\ (i - 1) + (j - (i - 1)) = j
        /\ i + (j - (i - 1)) = j + 1
        BY <1>2, <1>3
  <2>3. new[(i - 1) + (j - (i - 1))] = ans[i + (j - (i - 1))]
        BY <1>8, <2>2
  <2> QED
      BY <2>1, <2>2, <2>3
<1>4. ASSUME NEW j \in DOMAIN new PROVE \E k \in DOMAIN ans : new[j].val = ans[k].val
  <2>1. CASE j \in 1..(i - 1)
    <3>1. j \in 1..n
          BY <1>1, <2>1
    <3> QED
        BY <1>1, <1>8, <2>1, <3>1
  <2>2. CASE j \notin 1..(i - 1)
        BY <1>1, <1>3, <2>2
  <2> QED
      BY <2>1, <2>2
<1>5. new = <<>> => i = n
  <2>1. SUFFICES ASSUME new = <<>> PROVE i = n
        OBVIOUS
  <2>2. Len(new) = 0 /\ Len(new) = n - 1
        BY <1>8, <2>1
  <2> QED
      BY <1>1, <2>2
<1>6. ASSUME new # <<>>, ~new[Len(new)].late PROVE new[Len(new)] = ans[n]
  <2>1. n - 1 \in 1..(n - 1)
        BY <1>1, <1>6, <1>8
  <2>2. n - 1 \notin 1..(i - 1) /\ (n - 1) + 1 = n
        BY <1>1, <1>6, <1>8
  <2> QED
      BY <1>3, <1>8, <2>1, <2>2
<1> QED
    BY <1>1, <1>4, <1>5, <1>6

LEMMA AnsweredFits ==
    ASSUME RemoteInv, NEW k \in AskedKind, NEW i, RA!Answered(k, i)
    PROVE  RemoteInv'
<1> DEFINE a == v6[k][i]
           old == v6[k]
           ans == Without(old, i)
<1>1. /\ i \in DOMAIN v6[k]
      /\ v1' = (IF k = "active" THEN a.val ELSE v1)
      /\ v2' = (IF k = "history" THEN a.val ELSE v2)
      /\ v3' = (IF k = "rules" THEN a.val ELSE v3)
      /\ v11' = [v11 EXCEPT ![k] = a.late]
      /\ v6' = [v6 EXCEPT ![k] = ans]
      /\ UNCHANGED <<v4, v5, v7, v8, v9, v10>>
      BY DEF RA!Answered, RA!server, Without
<1>2. v6[k] \in Seq(Letter) /\ \A n \in DOMAIN v6[k] : v6[k][n].val \in Values(k)
      BY DEF RemoteInv, RemoteTypes
<1>3. i \in 1..Len(v6[k]) /\ a \in Letter /\ a.val \in Values(k) /\ a.late \in BOOLEAN
      BY <1>1, <1>2, LetterFacts
<1>13. /\ old \in Seq(Letter) /\ i \in 1..Len(old) /\ ans = Without(old, i) /\ v6[k] = old
       BY <1>2, <1>3
<1> HIDE DEF ans, old
<1>14. /\ ans \in Seq(Letter) /\ Len(ans) = Len(old) - 1
       /\ \A j \in 1..(i - 1) : ans[j].val = old[j].val /\ ans[j].late
       /\ \A j \in 1..(Len(old) - i) : ans[(i - 1) + j] = old[i + j]
       BY <1>13, Dropped
<1>15. /\ \A j \in DOMAIN ans : \E l \in DOMAIN old : ans[j].val = old[l].val
       /\ ans = <<>> => old # <<>> /\ i = Len(old)
       /\ ans # <<>> /\ ~ans[Len(ans)].late => old # <<>> /\ ans[Len(ans)] = old[Len(old)]
       BY <1>13, <1>14, DropFits
<1>4. /\ ans \in Seq(Letter)
      /\ \A j \in DOMAIN ans : \E l \in DOMAIN v6[k] : ans[j].val = v6[k][l].val
      /\ ans = <<>> => v6[k] # <<>> /\ i = Len(v6[k])
      /\ ans # <<>> /\ ~ans[Len(ans)].late => v6[k] # <<>> /\ ans[Len(ans)] = v6[k][Len(v6[k])]
      BY <1>13, <1>14, <1>15
<1>5. \A j \in DOMAIN ans : ans[j].val \in Values(k)
      BY <1>2, <1>4
<1>6. /\ v6' \in [AskedKind -> Seq(Letter)]
      /\ \A j \in AskedKind : \A n \in DOMAIN v6'[j] : v6'[j][n].val \in Values(j)
      /\ v6'[k] = ans /\ \A j \in AskedKind \ {k} : v6'[j] = v6[j]
      BY <1>1, <1>4, <1>5, AnswersTyped DEF RemoteInv
<1>7. v11 \in [AskedKind -> BOOLEAN]
      BY DEF RemoteInv, RemoteTypes
<1>8. v11' \in [AskedKind -> BOOLEAN] /\ v11'[k] = a.late /\ \A j \in AskedKind \ {k} : v11'[j] = v11[j]
      BY <1>1, <1>3, <1>7
<1>9. v1' \in Values("active") /\ v2' \in Values("history") /\ v3' \in 0..MaxRules
      BY <1>1, <1>3, LetterFacts DEF RemoteInv, RemoteTypes
<1>10. RemoteTypes'
       BY <1>1, <1>6, <1>8, <1>9 DEF RemoteInv, RemoteTypes
<1>11. ShownOf(k)' = a.val /\ \A j \in AskedKind \ {k} : ShownOf(j)' = ShownOf(j)
       BY <1>1, StatusFacts DEF ShownOf
<1>12. v4 /\ v7 /\ v5'[k] = 0 => Settled(k, ShownOf(k)', v6'[k], v11'[k], v8, v9, v10)
  <2>1. SUFFICES ASSUME v4, v7, v5[k] = 0
                 PROVE  Settled(k, a.val, ans, a.late, v8, v9, v10)
        BY <1>1, <1>6, <1>8, <1>11
  <2>2. Settled(k, ShownOf(k), v6[k], v11[k], v8, v9, v10)
        BY <2>1 DEF RemoteInv
  <2> QED
      BY <1>4, <2>2 DEF Settled
<1> QED
    BY <1>1, <1>6, <1>8, <1>10, <1>11, <1>12, OneKind

-----------------------------------------------------------------------------
(* Messages of the backend.                                                  *)

\* The backend's first messages on a new connection.
LEMMA OpenFits == ASSUME RemoteInv, RA!Open PROVE RemoteInv'
<1> DEFINE r == [type |-> "rules", rules |-> v10]
           val == RA!Value("active")
           s == [type |-> "snapshot", active |-> val]
           ms == <<r, s>>
<1>1. /\ v7' = TRUE /\ v8' = ms
      /\ IF v4 THEN RA!Ask(AskedKind) ELSE UNCHANGED v5
      /\ UNCHANGED <<v1, v2, v3, v4, v6, v9, v10, v11>>
      BY DEF RA!Open, RA!RefreshAll, RA!client, RA!server
<1>2. v9 \in [RA!Occurrence -> Statuses] /\ v10 \in 0..MaxRules
      BY DEF RemoteInv, RemoteTypes, Values
<1>3. val = [o \in RA!Occurrence |-> IF v9[o] \in {"active", "acked"} THEN v9[o] ELSE "none"]
      BY StatusFacts DEF RA!Value
<1>4. val \in [RA!Occurrence -> Statuses]
      BY <1>2, <1>3 DEF Statuses
<1>5. \A n : ActiveFits(val, ms, n, v9)
      BY <1>2, <1>3 DEF ActiveFits, ActiveFit, Statuses
<1> HIDE DEF val
<1>6. r \in News /\ s \in News
      BY <1>2, <1>4 DEF News
<1>7. r.type = "rules" /\ r.rules = v10 /\ s.type = "snapshot" /\ s.active = val
      OBVIOUS
<1> HIDE DEF r, s
<1>8. ms \in Seq(News) /\ DOMAIN ms = {1, 2} /\ ms[1] = r /\ ms[2] = s
      BY <1>6
<1> HIDE DEF ms
<1>9. InOrder(ms, v9)
      BY <1>7, <1>8 DEF InOrder, About
<1>10. SnapshotsFit(ms, v9)
       BY <1>5, <1>7, <1>8 DEF SnapshotsFit
<1>11. RulesFits(ms, v10)
       BY <1>7, <1>8 DEF RulesFits, RulesFit
<1>12. StreamFits(ms, v9, v10)
       BY <1>8, <1>9, <1>10, <1>11 DEF RemoteInv, StreamFits
<1>13. /\ v5' \in [AskedKind -> 0..MaxAsked]
       /\ v4 => \A k \in AskedKind : v5'[k] # 0
  <2>1. CASE v4
        BY <1>1, <2>1, AskFits DEF RemoteInv
  <2>2. CASE ~v4
        BY <1>1, <2>2 DEF RemoteInv, RemoteTypes
  <2> QED
      BY <2>1, <2>2
<1>14. RemoteTypes'
       BY <1>1, <1>13 DEF RemoteInv, RemoteTypes
<1> QED
    BY <1>1, <1>12, <1>13, <1>14 DEF RemoteInv

-----------------------------------------------------------------------------
LEMMA RulesTail ==
    ASSUME NEW ms \in Seq(News), ms # <<>>, NEW br
    PROVE  /\ RulesFits(ms, br) => RulesFits(Tail(ms), br)
           /\ RulesFits(ms, br) /\ Head(ms).type = "rules" => RulesFit(Head(ms).rules, Tail(ms), 0, br)
           /\ \A val : RulesFit(val, ms, 0, br) /\ Head(ms).type # "rules_changed"
                 => RulesFit(val, Tail(ms), 0, br)
           /\ \A ty : Coming(ms, ty) /\ Head(ms).type # ty => Coming(Tail(ms), ty)
<1>1. /\ DOMAIN ms = 1..Len(ms) /\ Len(ms) \in Nat /\ Len(ms) > 0
      /\ DOMAIN Tail(ms) = 1..(Len(ms) - 1) /\ ms[1] = Head(ms)
      /\ \A i \in 1..(Len(ms) - 1) : Tail(ms)[i] = ms[i + 1]
      OBVIOUS
<1> DEFINE t == Tail(ms)
<1>2. \A i \in DOMAIN t : i \in Nat /\ i + 1 \in DOMAIN ms /\ t[i] = ms[i + 1]
      BY <1>1
<1>3. ASSUME NEW i \in DOMAIN ms, i > 1
      PROVE  i - 1 \in DOMAIN t /\ t[i - 1] = ms[i] /\ i \in Nat
  <2>1. i - 1 \in 1..(Len(ms) - 1) /\ (i - 1) + 1 = i /\ i \in Nat
        BY <1>1, <1>3
  <2> QED
      BY <1>1, <2>1
<1>4. \A i \in DOMAIN ms : i = 1 \/ i > 1
      BY <1>1
<1>5. 1 \in DOMAIN ms /\ ms[1] = Head(ms)
      BY <1>1
<1>6. SUFFICES /\ RulesFits(ms, br) => RulesFits(t, br)
               /\ RulesFits(ms, br) /\ Head(ms).type = "rules" => RulesFit(Head(ms).rules, t, 0, br)
               /\ \A val : RulesFit(val, ms, 0, br) /\ Head(ms).type # "rules_changed"
                     => RulesFit(val, t, 0, br)
               /\ \A ty : Coming(ms, ty) /\ Head(ms).type # ty => Coming(t, ty)
      OBVIOUS
<1> HIDE DEF t
<1>7. ASSUME NEW n \in Nat, NEW val, RulesFit(val, ms, n + 1, br) PROVE RulesFit(val, t, n, br)
  <2>1. CASE val = br
        BY <2>1 DEF RulesFit
  <2>2. CASE val # br
    <3>1. PICK i \in DOMAIN ms : i > n + 1 /\ ms[i].type = "rules_changed"
          BY <1>7, <2>2 DEF RulesFit
    <3>2. i > 1 /\ i \in Nat
          BY <1>1, <3>1
    <3>3. i - 1 \in DOMAIN t /\ t[i - 1] = ms[i] /\ i - 1 > n
          BY <1>3, <3>1, <3>2
    <3> QED
        BY <3>1, <3>3 DEF RulesFit
  <2> QED
      BY <2>1, <2>2
<1>8. RulesFits(ms, br) => RulesFits(t, br)
      BY <1>2, <1>7 DEF RulesFits
<1>9. RulesFits(ms, br) /\ Head(ms).type = "rules" => RulesFit(Head(ms).rules, t, 0, br)
  <2>1. SUFFICES ASSUME RulesFits(ms, br), Head(ms).type = "rules"
                 PROVE  RulesFit(Head(ms).rules, t, 0, br)
        OBVIOUS
  <2>2. RulesFit(Head(ms).rules, ms, 1, br) /\ 0 + 1 = 1 /\ 0 \in Nat
        BY <1>5, <2>1 DEF RulesFits
  <2> QED
      BY <1>7, <2>2
<1>10. ASSUME NEW val, RulesFit(val, ms, 0, br), Head(ms).type # "rules_changed"
       PROVE  RulesFit(val, t, 0, br)
  <2>1. RulesFit(val, ms, 1, br)
        BY <1>4, <1>5, <1>10 DEF RulesFit
  <2>2. 0 + 1 = 1 /\ 0 \in Nat
        OBVIOUS
  <2> QED
      BY <1>7, <2>1, <2>2
<1>11. ASSUME NEW ty, Coming(ms, ty), Head(ms).type # ty PROVE Coming(t, ty)
  <2>1. PICK i \in DOMAIN ms : ms[i].type = ty
        BY <1>11 DEF Coming
  <2>2. i > 1
        BY <1>4, <1>5, <1>11, <2>1
  <2> QED
      BY <1>3, <2>1, <2>2 DEF Coming
<1> QED
    BY <1>8, <1>9, <1>10, <1>11

LEMMA StreamTail ==
    ASSUME NEW ms, NEW bs, NEW br, StreamFits(ms, bs, br), ms # <<>>
    PROVE  StreamFits(Tail(ms), bs, br)
<1>1. Tail(ms) \in Seq(News) /\ ms \in Seq(News)
      BY DEF StreamFits
<1> QED
    BY <1>1, InOrderTail, SnapshotsTail, RulesTail DEF StreamFits

\* A message that tells nothing of kind k is taken.
LEMMA UntoldTail ==
    ASSUME NEW ms, NEW bs, NEW br, StreamFits(ms, bs, br), ms # <<>>,
           NEW k, NEW val, Fits(k, val, ms, bs, br),
           k = "active" => Head(ms).type \notin {"update", "snapshot"},
           k = "history" => Head(ms).type # "update",
           k = "rules" => Head(ms).type \notin {"rules", "rules_changed"}
    PROVE  Fits(k, val, Tail(ms), bs, br)
<1>1. /\ ms \in Seq(News) /\ InOrder(ms, bs)
      /\ \A o \in ChangeAlarm : bs[o] \notin {"active", "acked"}
      BY DEF StreamFits
<1>2. Head(ms).type # "update" => \A o : ~About(Head(ms), o)
      BY DEF About
<1>3. ASSUME k = "active" PROVE Coming(Tail(ms), "snapshot") \/ ActiveFits(val, Tail(ms), 0, bs)
  <2>1. CASE Coming(ms, "snapshot")
        BY <1>1, <1>3, <2>1, RulesTail
  <2>2. CASE ActiveFits(val, ms, 0, bs)
    <3>1. \A o \in RA!Occurrence :
             val[o] = IF About(Head(ms), o) THEN Shows(val[o], Head(ms)) ELSE val[o]
          BY <1>2, <1>3
    <3> QED
        BY <1>1, <2>2, <3>1, ActiveTail
  <2> QED
      BY <1>3, <2>1, <2>2 DEF Fits
<1>4. ASSUME k = "history" PROVE ListFits(val, Tail(ms), bs)
  <2>1. ListFits(val, ms, bs)
        BY <1>4 DEF Fits
  <2>2. \A o \in RA!Occurrence : ~About(Head(ms), o)
        BY <1>2, <1>4
  <2>3. \A o \in RA!Occurrence :
           val[o] = IF About(Head(ms), o)
                    THEN Lists(val[o], Head(ms), val[o] # "none") ELSE val[o]
        BY <2>2
  <2>4. \A o \in RA!Occurrence : About(Head(ms), o) =>
           ~(Head(ms).event = "ack" /\ Head(ms).st = "closed" /\ val[o] # "none")
        BY <2>2
  <2> QED
      BY <1>1, <2>1, <2>3, <2>4, ListTail
<1>5. ASSUME k = "rules" PROVE Coming(Tail(ms), "rules") \/ RulesFit(val, Tail(ms), 0, br)
      BY <1>1, <1>5, RulesTail DEF Fits
<1> QED
    BY <1>3, <1>4, <1>5 DEF Fits

\* What an update makes of what is shown.
LEMMA UpdateShows ==
    ASSUME RemoteTypes, NEW m \in News, m.type = "update", RA!Update(m)
    PROVE  /\ v1' \in Values("active") /\ v2' \in Values("history")
           /\ \A o \in RA!Occurrence :
                 v1'[o] = IF About(m, o) THEN Shows(v1[o], m) ELSE v1[o]
           /\ \A o \in RA!Occurrence :
                 v2'[o] = IF About(m, o) THEN Lists(v2[o], m, v1[o] # "none") ELSE v2[o]
<1> DEFINE o == m.occ
           st == m.st
<1>1. /\ v1 \in [RA!Occurrence -> Statuses] /\ v2 \in [RA!Occurrence -> Seq(Statuses)]
      BY DEF RemoteTypes, Values
<1>2. /\ m.event \in {"trigger", "ack", "recover"} /\ o \in RA!Occurrence /\ st \in Statuses
      BY NewsFacts
<1>3. RA!Done = {"recovered", "closed"}
      BY StatusFacts
<1>4. \A p : About(m, p) <=> p = o
      BY DEF About
<1>5. "none" \in Statuses
      BY DEF Statuses
<1>6. \A l \in Seq(Statuses) : <<st>> \o l \in Seq(Statuses) /\ (l # <<>> => <<st>> \o Tail(l) \in Seq(Statuses))
      BY <1>2
<1>7. <<st>> \in Seq(Statuses)
      BY <1>2
<1>8. SUFFICES ASSUME NEW x, NEW l,
                      v1' = [v1 EXCEPT ![o] = x], v2' = [v2 EXCEPT ![o] = l],
                      x = Shows(v1[o], m), l = Lists(v2[o], m, v1[o] # "none")
               PROVE  /\ v1' \in Values("active") /\ v2' \in Values("history")
                      /\ \A p \in RA!Occurrence :
                            v1'[p] = IF About(m, p) THEN Shows(v1[p], m) ELSE v1[p]
                      /\ \A p \in RA!Occurrence :
                            v2'[p] = IF About(m, p) THEN Lists(v2[p], m, v1[p] # "none") ELSE v2[p]
  <2>1. v1 = [v1 EXCEPT ![o] = v1[o]] /\ v2 = [v2 EXCEPT ![o] = v2[o]]
        BY <1>1
  <2>2. CASE m.event = "trigger" /\ st \in {"recovered", "closed"}
    <3>1. v2' = [v2 EXCEPT ![o] = <<st>> \o v2[o]] /\ v1' = v1
          BY <1>3, <2>2 DEF RA!Update
    <3>2. v1[o] = Shows(v1[o], m) /\ <<st>> \o v2[o] = Lists(v2[o], m, v1[o] # "none")
          BY <2>2 DEF Shows, Lists
    <3> QED
        BY <1>8, <2>1, <3>1, <3>2
  <2>3. CASE m.event = "trigger" /\ st \notin {"recovered", "closed"}
    <3>1. v1' = [v1 EXCEPT ![o] = st] /\ v2' = v2
          BY <1>3, <2>3 DEF RA!Update
    <3>2. st = Shows(v1[o], m) /\ v2[o] = Lists(v2[o], m, v1[o] # "none")
          BY <2>3 DEF Shows, Lists
    <3> QED
        BY <1>8, <2>1, <3>1, <3>2
  <2>4. CASE m.event = "ack" /\ v1[o] # "none"
    <3>1. v1' = [v1 EXCEPT ![o] = st] /\ v2' = v2
          BY <2>4 DEF RA!Update
    <3>2. st = Shows(v1[o], m) /\ v2[o] = Lists(v2[o], m, v1[o] # "none")
          BY <2>4 DEF Shows, Lists
    <3> QED
        BY <1>8, <2>1, <3>1, <3>2
  <2>5. CASE m.event = "ack" /\ v1[o] = "none"
    <3> DEFINE l == IF v2[o] = <<>> THEN v2[o] ELSE <<st>> \o Tail(v2[o])
    <3>1. v2' = [v2 EXCEPT ![o] = l] /\ v1' = v1
          BY <2>5 DEF RA!Update, RA!Patched
    <3>2. v1[o] = Shows(v1[o], m) /\ l = Lists(v2[o], m, v1[o] # "none")
          BY <2>5 DEF Shows, Lists
    <3> HIDE DEF l
    <3> QED
        BY <1>8, <2>1, <3>1, <3>2
  <2>6. CASE m.event = "recover"
    <3> DEFINE l == IF v2[o] = <<>> THEN <<st>> ELSE <<st>> \o Tail(v2[o])
    <3>1. v2' = [v2 EXCEPT ![o] = l] /\ v1' = [v1 EXCEPT ![o] = "none"]
          BY <2>6 DEF RA!Update, RA!Recovered, RA!Moved
    <3>2. "none" = Shows(v1[o], m) /\ l = Lists(v2[o], m, v1[o] # "none")
          BY <2>6 DEF Shows, Lists
    <3> HIDE DEF l
    <3> QED
        BY <1>8, <3>1, <3>2
  <2> QED
      BY <1>2, <2>2, <2>3, <2>4, <2>5, <2>6
<1>9. x \in Statuses
      BY <1>1, <1>2, <1>5, <1>8 DEF Shows
<1>10. l \in Seq(Statuses)
       BY <1>1, <1>2, <1>6, <1>7, <1>8 DEF Lists
<1> HIDE DEF o
<1>11. v1' \in Values("active") /\ v2' \in Values("history")
       BY <1>1, <1>8, <1>9, <1>10 DEF Values
<1>12. /\ v1'[o] = x /\ \A p \in RA!Occurrence : p # o => v1'[p] = v1[p]
       /\ v2'[o] = l /\ \A p \in RA!Occurrence : p # o => v2'[p] = v2[p]
       BY <1>1, <1>2, <1>8
<1> QED
    BY <1>4, <1>8, <1>11, <1>12

\* The kinds a message tells of.
TellsOf(m) == IF m.type = "update" THEN {"active", "history"}
           ELSE IF m.type = "snapshot" THEN {"active"} ELSE {"rules"}

\* The answers to what a message tells of are late.
LEMMA LateAnswers ==
    ASSUME RemoteTypes, NEW ks,
           v6' = [k \in AskedKind |-> IF k \in ks THEN RA!Late(v6[k]) ELSE v6[k]]
    PROVE  /\ v6' \in [AskedKind -> Seq(Letter)]
           /\ \A k \in AskedKind : \A i \in DOMAIN v6'[k] : v6'[k][i].val \in Values(k)
           /\ \A k \in AskedKind \cap ks :
                 /\ v6'[k] # <<>> => v6'[k][Len(v6'[k])].late
                 /\ v6'[k] = <<>> => v6[k] = <<>>
           /\ \A k \in AskedKind \ ks : v6'[k] = v6[k]
<1>1. \A k \in AskedKind : v6'[k] = IF k \in ks THEN RA!Late(v6[k]) ELSE v6[k]
      OBVIOUS
<1>2. ASSUME NEW k \in AskedKind
      PROVE  /\ v6[k] \in Seq(Letter)
             /\ \A i \in DOMAIN v6[k] : v6[k][i].val \in Values(k)
             /\ RA!Late(v6[k]) \in Seq(Letter)
             /\ \A i \in DOMAIN RA!Late(v6[k]) : RA!Late(v6[k])[i].val \in Values(k)
             /\ RA!Late(v6[k]) # <<>> => RA!Late(v6[k])[Len(RA!Late(v6[k]))].late
             /\ RA!Late(v6[k]) = <<>> => v6[k] = <<>>
  <2> DEFINE old == v6[k]
             new == RA!Late(old)
  <2>1. old \in Seq(Letter) /\ \A i \in DOMAIN old : old[i].val \in Values(k)
        BY DEF RemoteTypes
  <2>2. SUFFICES /\ new \in Seq(Letter)
                 /\ \A i \in DOMAIN new : new[i].val \in Values(k)
                 /\ new # <<>> => new[Len(new)].late
                 /\ new = <<>> => old = <<>>
        BY <2>1
  <2> HIDE DEF old
  <2>3. /\ new \in Seq(Letter) /\ Len(new) = Len(old)
        /\ \A i \in 1..Len(old) : new[i].val = old[i].val /\ new[i].late
        BY <2>1, LateFits
  <2> HIDE DEF new
  <2>4. DOMAIN new = 1..Len(old) /\ DOMAIN old = 1..Len(old)
        BY <2>1, <2>3
  <2>5. new # <<>> => Len(new) \in 1..Len(old)
        BY <2>3
  <2>6. new = <<>> => old = <<>>
    <3>1. new = <<>> => Len(new) = 0
          OBVIOUS
    <3>2. Len(old) = 0 => old = <<>>
          BY <2>1
    <3> QED
        BY <2>3, <3>1, <3>2
  <2> QED
      BY <2>1, <2>3, <2>4, <2>5, <2>6
<1>3. v6' \in [AskedKind -> Seq(Letter)]
      BY <1>2
<1>4. ASSUME NEW k \in AskedKind
      PROVE  \A i \in DOMAIN v6'[k] : v6'[k][i].val \in Values(k)
  <2>1. v6'[k] = v6[k] \/ v6'[k] = RA!Late(v6[k])
        BY <1>1
  <2> QED
      BY <1>2, <2>1
<1>5. ASSUME NEW k \in AskedKind \cap ks
      PROVE  /\ v6'[k] # <<>> => v6'[k][Len(v6'[k])].late
             /\ v6'[k] = <<>> => v6[k] = <<>>
  <2>1. v6'[k] = RA!Late(v6[k])
        BY <1>1
  <2> QED
      BY <1>2, <2>1
<1> QED
    BY <1>1, <1>3, <1>4, <1>5

\* A message met by a client that does not listen.
LEMMA UnheardFits == ASSUME RemoteInv, RA!Message, ~v4 PROVE RemoteInv'
<1>1. /\ v8 # <<>> /\ v8' = Tail(v8)
      /\ UNCHANGED <<v1, v2, v3, v4, v5, v7, v9, v10, v11>>
      BY DEF RA!Message, RA!server
<1>2. PICK ks : v6' = [k \in AskedKind |-> IF k \in ks THEN RA!Late(v6[k]) ELSE v6[k]]
      BY DEF RA!Message
<1>3. RemoteTypes /\ StreamFits(v8, v9, v10) /\ (~v7 => v8 = <<>>)
      BY DEF RemoteInv
<1>4. /\ v6' \in [AskedKind -> Seq(Letter)]
      /\ \A k \in AskedKind : \A i \in DOMAIN v6'[k] : v6'[k][i].val \in Values(k)
      BY <1>2, <1>3, LateAnswers
<1>5. RemoteTypes'
      BY <1>1, <1>3, <1>4 DEF RemoteTypes
<1>6. StreamFits(v8', v9', v10') /\ v7' /\ ~v4'
      BY <1>1, <1>3, StreamTail
<1> QED
    BY <1>5, <1>6 DEF RemoteInv

\* What a message does to a client that listens.
Heard(m) ==
    /\ v8 # <<>> /\ v8' = Tail(v8) /\ m = Head(v8)
    /\ v6' = [k \in AskedKind |-> IF k \in TellsOf(m) THEN RA!Late(v6[k]) ELSE v6[k]]
    /\ IF m.type = "update" THEN RA!Update(m)
       ELSE v1' = (IF m.type = "snapshot" THEN m.active ELSE v1) /\ v2' = v2
    /\ v3' = IF m.type = "rules" THEN m.rules ELSE v3
    /\ IF m.type = "rules_changed" THEN RA!Ask({"rules"}) ELSE v5' = v5
    /\ v11' = [k \in AskedKind |->
          IF m.type \in {"rules", "snapshot"} THEN v11[k] /\ k \notin TellsOf(m)
          ELSE v11[k] \/ (k = "history" /\ m.type = "update" /\ RA!Misled(m))]
    /\ UNCHANGED <<v4, v7, v9, v10>>

LEMMA MessageHeard == ASSUME RemoteInv, RA!Message, v4 PROVE Heard(Head(v8)) /\ Head(v8) \in News
<1> DEFINE m == Head(v8)
<1>1. v8 # <<>> /\ v8' = Tail(v8) /\ UNCHANGED <<v4, v7, v9, v10>>
      BY DEF RA!Message, RA!server
<1>2. v8 \in Seq(News)
      BY DEF RemoteInv, StreamFits
<1>3. m \in News
      BY <1>1, <1>2
<1>4. TellsOf(m) = CASE m.type = "update"   -> {"active", "history"}
                  [] m.type = "snapshot" -> {"active"}
                  [] m.type \in {"rules", "rules_changed"} -> {"rules"}
      BY <1>3, NewsFacts DEF TellsOf
<1>5. Heard(m)
      BY <1>1, <1>4 DEF RA!Message, Heard
<1> QED
    BY <1>3, <1>5

LEMMA HeardTypes ==
    ASSUME RemoteInv, NEW m \in News, Heard(m)
    PROVE  /\ RemoteTypes'
           /\ \A k \in AskedKind : v5'[k] = 0 =>
                 v5[k] = 0 /\ ~(k = "rules" /\ m.type = "rules_changed")
<1>1. RemoteTypes
      BY DEF RemoteInv
<1>2. /\ v6' \in [AskedKind -> Seq(Letter)]
      /\ \A k \in AskedKind : \A i \in DOMAIN v6'[k] : v6'[k][i].val \in Values(k)
      BY <1>1, LateAnswers DEF Heard
<1>3. v1' \in Values("active") /\ v2' \in Values("history")
  <2>1. CASE m.type = "update"
        BY <1>1, <2>1, UpdateShows DEF Heard
  <2>2. CASE m.type = "snapshot"
    <3>1. v1' = m.active /\ v2' = v2
          BY <2>2 DEF Heard
    <3>2. m.active \in Values("active")
          BY <2>2, NewsFacts DEF Values
    <3> QED
        BY <1>1, <3>1, <3>2 DEF RemoteTypes
  <2>3. CASE m.type \notin {"update", "snapshot"}
        BY <1>1, <2>3 DEF Heard, RemoteTypes
  <2> QED
      BY <2>1, <2>2, <2>3
<1>4. v3' \in 0..MaxRules
      BY <1>1, NewsFacts DEF Heard, RemoteTypes
<1>5. /\ v5' \in [AskedKind -> 0..MaxAsked]
      /\ \A k \in AskedKind : v5'[k] = 0 =>
            v5[k] = 0 /\ ~(k = "rules" /\ m.type = "rules_changed")
  <2>1. CASE m.type = "rules_changed"
    <3>1. RA!Ask({"rules"})
          BY <2>1 DEF Heard
    <3> QED
        BY <1>1, <3>1, AskFits
  <2>2. CASE m.type # "rules_changed"
        BY <1>1, <2>2 DEF Heard, RemoteTypes
  <2> QED
      BY <2>1, <2>2
<1>6. v11' \in [AskedKind -> BOOLEAN]
  <2>1. v11 \in [AskedKind -> BOOLEAN]
        BY <1>1 DEF RemoteTypes
  <2> DEFINE f(k) == IF m.type \in {"rules", "snapshot"} THEN v11[k] /\ k \notin TellsOf(m)
                     ELSE v11[k] \/ (k = "history" /\ m.type = "update" /\ RA!Misled(m))
  <2>2. v11' = [k \in AskedKind |-> f(k)]
        BY DEF Heard
  <2>3. \A k \in AskedKind : f(k) \in BOOLEAN
        BY <2>1
  <2> HIDE DEF f
  <2> QED
      BY <2>2, <2>3
<1>7. v4' = v4 /\ v7' = v7 /\ v9' = v9 /\ v10' = v10
      BY DEF Heard
<1> QED
    BY <1>1, <1>2, <1>3, <1>4, <1>5, <1>6, <1>7 DEF RemoteTypes

\* What is shown of a kind that is told of fits afterwards.
LEMMA ToldFits ==
    ASSUME RemoteInv, NEW m \in News, Heard(m), NEW k \in AskedKind \cap TellsOf(m),
           ~(k = "rules" /\ m.type = "rules_changed"), ~v11'[k],
           m.type = "update" => Fits(k, ShownOf(k), v8, v9, v10) \/ v11[k]
    PROVE  Fits(k, ShownOf(k)', v8', v9, v10)
<1>1. /\ RemoteTypes /\ StreamFits(v8, v9, v10) /\ v8 \in Seq(News) /\ InOrder(v8, v9)
      /\ SnapshotsFit(v8, v9) /\ RulesFits(v8, v10)
      /\ \A o \in ChangeAlarm : v9[o] \notin {"active", "acked"}
      BY DEF RemoteInv, StreamFits
<1>2. v8 # <<>> /\ v8' = Tail(v8) /\ m = Head(v8)
      BY DEF Heard
<1>3. m.type \in {"update", "snapshot", "rules", "rules_changed"}
      BY NewsFacts
<1>4. CASE m.type = "snapshot"
  <2>1. k = "active" /\ ShownOf(k)' = m.active
        BY <1>4 DEF TellsOf, Heard, ShownOf
  <2> QED
      BY <1>1, <1>2, <1>4, <2>1, SnapshotsTail DEF Fits
<1>5. CASE m.type = "rules"
  <2>1. k = "rules" /\ ShownOf(k)' = m.rules
        BY <1>5 DEF TellsOf, Heard, ShownOf
  <2> QED
      BY <1>1, <1>2, <1>5, <2>1, RulesTail DEF Fits
<1>6. CASE m.type = "rules_changed"
      BY <1>6 DEF TellsOf
<1>7. CASE m.type = "update"
  <2>1. k \in {"active", "history"}
        BY <1>7 DEF TellsOf
  <2>2. ~v11[k] /\ ~(k = "history" /\ RA!Misled(m))
    <3>1. v11'[k] = (v11[k] \/ (k = "history" /\ m.type = "update" /\ RA!Misled(m)))
          BY <1>7 DEF Heard
    <3> QED
        BY <1>7, <3>1
  <2>3. Fits(k, ShownOf(k), v8, v9, v10)
        BY <1>7, <2>2
  <2>4. RA!Update(m)
        BY <1>7 DEF Heard
  <2>5. /\ \A o \in RA!Occurrence :
              v1'[o] = IF About(m, o) THEN Shows(v1[o], m) ELSE v1[o]
        /\ \A o \in RA!Occurrence :
              v2'[o] = IF About(m, o) THEN Lists(v2[o], m, v1[o] # "none") ELSE v2[o]
        BY <1>1, <1>7, <2>4, UpdateShows
  <2>6. CASE k = "active"
    <3>1. ShownOf(k) = v1 /\ ShownOf(k)' = v1'
          BY <2>6 DEF ShownOf
    <3>2. CASE Coming(v8, "snapshot")
      <4>1. Coming(Tail(v8), "snapshot")
            BY <1>1, <1>2, <1>7, <3>2, RulesTail
      <4> QED
          BY <1>2, <2>6, <4>1 DEF Fits
    <3>3. CASE ActiveFits(v1, v8, 0, v9)
      <4>1. ActiveFits(v1', Tail(v8), 0, v9)
            BY <1>1, <1>2, <2>5, <3>3, ActiveTail
      <4> QED
          BY <1>2, <2>6, <3>1, <4>1 DEF Fits
    <3> QED
        BY <2>3, <2>6, <3>1, <3>2, <3>3 DEF Fits
  <2>7. CASE k = "history"
    <3>1. ShownOf(k) = v2 /\ ShownOf(k)' = v2'
          BY <2>7 DEF ShownOf
    <3>2. ListFits(v2, v8, v9)
          BY <2>3, <2>7, <3>1 DEF Fits
    <3>3. \A o \in RA!Occurrence : About(m, o) =>
             ~(m.event = "ack" /\ m.st = "closed" /\ v1[o] # "none")
          BY <2>2, <2>7 DEF RA!Misled, About
    <3>4. ListFits(v2', Tail(v8), v9)
          BY <1>1, <1>2, <2>5, <3>2, <3>3, ListTail
    <3> QED
        BY <1>2, <2>7, <3>1, <3>4 DEF Fits
  <2> QED
      BY <2>1, <2>6, <2>7
<1> QED
    BY <1>3, <1>4, <1>5, <1>6, <1>7

LEMMA MessageFits == ASSUME RemoteInv, RA!Message PROVE RemoteInv'
<1>1. CASE ~v4
      BY <1>1, UnheardFits
<1>2. CASE v4
  <2>1. PICK m \in News : Heard(m)
        BY <1>2, MessageHeard
  <2>2. /\ RemoteTypes'
        /\ \A k \in AskedKind : v5'[k] = 0 =>
              v5[k] = 0 /\ ~(k = "rules" /\ m.type = "rules_changed")
        BY <2>1, HeardTypes
  <2>3. /\ v8 # <<>> /\ v8' = Tail(v8) /\ m = Head(v8)
        /\ v4' = v4 /\ v7' = v7 /\ v9' = v9 /\ v10' = v10
        /\ v6' = [k \in AskedKind |-> IF k \in TellsOf(m) THEN RA!Late(v6[k]) ELSE v6[k]]
        BY <2>1 DEF Heard
  <2>4. RemoteTypes /\ StreamFits(v8, v9, v10) /\ (~v7 => v8 = <<>>)
        BY DEF RemoteInv
  <2>5. /\ \A k \in AskedKind \cap TellsOf(m) :
              /\ v6'[k] # <<>> => v6'[k][Len(v6'[k])].late
              /\ v6'[k] = <<>> => v6[k] = <<>>
        /\ \A k \in AskedKind \ TellsOf(m) : v6'[k] = v6[k]
        BY <2>3, <2>4, LateAnswers
  <2>6. StreamFits(v8', v9', v10') /\ v7'
        BY <2>3, <2>4, StreamTail
  <2>7. ASSUME NEW k \in AskedKind, v5'[k] = 0
        PROVE  Settled(k, ShownOf(k)', v6'[k], v11'[k], v8', v9, v10)
    <3>1. /\ v5[k] = 0 /\ ~(k = "rules" /\ m.type = "rules_changed")
          /\ Settled(k, ShownOf(k), v6[k], v11[k], v8, v9, v10)
          BY <1>2, <2>2, <2>3, <2>4, <2>7 DEF RemoteInv
    <3>2. CASE k \in TellsOf(m)
      <4>1. v6'[k] # <<>> => v6'[k][Len(v6'[k])].late
            BY <2>5, <3>2
      <4>2. ASSUME v6'[k] = <<>>, ~v11'[k] PROVE Fits(k, ShownOf(k)', v8', v9, v10)
        <5>1. v6[k] = <<>>
              BY <2>5, <3>2, <4>2
        <5>2. Fits(k, ShownOf(k), v8, v9, v10) \/ v11[k]
              BY <3>1, <5>1 DEF Settled
        <5> QED
            BY <2>1, <3>1, <3>2, <4>2, <5>2, ToldFits
      <4> QED
          BY <4>1, <4>2 DEF Settled
    <3>3. CASE k \notin TellsOf(m)
      <4>1. /\ k = "active" => m.type \notin {"update", "snapshot"}
            /\ k = "history" => m.type # "update"
            /\ k = "rules" => m.type \notin {"rules", "rules_changed"}
            BY <3>3 DEF TellsOf
      <4>2. ShownOf(k)' = ShownOf(k)
        <5>1. k = "active" => v1' = v1
              BY <2>1, <4>1 DEF Heard
        <5>2. k = "history" => v2' = v2
              BY <2>1, <4>1 DEF Heard
        <5>3. k = "rules" => v3' = v3
              BY <2>1, <4>1 DEF Heard
        <5> QED
            BY <5>1, <5>2, <5>3, StatusFacts DEF ShownOf
      <4>3. v11[k] => v11'[k]
        <5>1. v11'[k] = IF m.type \in {"rules", "snapshot"} THEN v11[k] /\ k \notin TellsOf(m)
                        ELSE v11[k] \/ (k = "history" /\ m.type = "update" /\ RA!Misled(m))
              BY <2>1 DEF Heard
        <5> QED
            BY <3>3, <5>1
      <4>4. v6'[k] = v6[k]
            BY <2>5, <3>3
      <4>5. \A val : Fits(k, val, v8, v9, v10) => Fits(k, val, v8', v9, v10)
            BY <2>3, <2>4, <4>1, UntoldTail
      <4> QED
          BY <3>1, <4>2, <4>3, <4>4, <4>5 DEF Settled
    <3> QED
        BY <3>2, <3>3
  <2>8. \A k \in AskedKind :
           v4' /\ v7' /\ v5'[k] = 0 => Settled(k, ShownOf(k)', v6'[k], v11'[k], v8', v9', v10')
        BY <2>3, <2>7
  <2> QED
      BY <2>2, <2>6, <2>8 DEF RemoteInv
<1> QED
    BY <1>1, <1>2

-----------------------------------------------------------------------------
(* The backend's engine.                                                     *)

LEMMA RulesGrow ==
    ASSUME NEW ms \in Seq(News), NEW m \in News, m.type # "rules", NEW br, NEW cr,
           cr = br \/ m.type = "rules_changed"
    PROVE  /\ RulesFits(ms, br) => RulesFits(Append(ms, m), cr)
           /\ \A val : RulesFit(val, ms, 0, br) => RulesFit(val, Append(ms, m), 0, cr)
           /\ \A ty : Coming(ms, ty) => Coming(Append(ms, m), ty)
<1> DEFINE ns == Append(ms, m)
           n == Len(ms) + 1
<1>1. /\ DOMAIN ns = DOMAIN ms \cup {n} /\ ns[n] = m /\ n \in Nat
      /\ \A i \in DOMAIN ms : ns[i] = ms[i] /\ i < n /\ i > 0
      OBVIOUS
<1>2. SUFFICES /\ RulesFits(ms, br) => RulesFits(ns, cr)
               /\ \A val : RulesFit(val, ms, 0, br) => RulesFit(val, ns, 0, cr)
               /\ \A ty : Coming(ms, ty) => Coming(ns, ty)
      OBVIOUS
<1>3. n > 0
      OBVIOUS
<1> HIDE DEF ns, n
<1>4. \A val, i : RulesFit(val, ms, i, br) /\ n > i => RulesFit(val, ns, i, cr)
      BY <1>1 DEF RulesFit
<1> QED
    BY <1>1, <1>3, <1>4 DEF RulesFits, Coming

\* A message that is not about an alarm comes after the others.
LEMMA OtherGrows ==
    ASSUME NEW ms \in Seq(News), NEW bs, NEW m \in News, m.type \notin {"update", "snapshot"}
    PROVE  /\ InOrder(ms, bs) => InOrder(Append(ms, m), bs)
           /\ SnapshotsFit(ms, bs) => SnapshotsFit(Append(ms, m), bs)
           /\ \A val : ActiveFits(val, ms, 0, bs) => ActiveFits(val, Append(ms, m), 0, bs)
           /\ \A val : ListFits(val, ms, bs) => ListFits(val, Append(ms, m), bs)
<1> DEFINE ns == Append(ms, m)
           n == Len(ms) + 1
<1>1. /\ DOMAIN ns = DOMAIN ms \cup {n} /\ ns[n] = m /\ n \in Nat
      /\ \A i \in DOMAIN ms : ns[i] = ms[i] /\ i < n /\ i \in Nat
      OBVIOUS
<1>2. \A o : ~About(m, o)
      BY DEF About
<1>3. ASSUME NEW i \in Nat, NEW o, NEW ev, NEW sts
      PROVE  Comes(ns, i, o, ev, sts) <=> Comes(ms, i, o, ev, sts)
      BY <1>2, ComesAppend
<1>4. SUFFICES /\ InOrder(ms, bs) => InOrder(ns, bs)
               /\ SnapshotsFit(ms, bs) => SnapshotsFit(ns, bs)
               /\ \A val : ActiveFits(val, ms, 0, bs) => ActiveFits(val, ns, 0, bs)
               /\ \A val : ListFits(val, ms, bs) => ListFits(val, ns, bs)
      OBVIOUS
<1>5. ASSUME InOrder(ms, bs) PROVE InOrder(ns, bs)
  <2>1. SUFFICES ASSUME NEW o \in RA!Occurrence, NEW i \in DOMAIN ns, About(ns[i], o)
                 PROVE  InPlace(ns, i, o, bs[o])
        BY DEF InOrder
  <2> HIDE DEF n
  <2>2. i \in DOMAIN ms /\ About(ms[i], o)
        BY <1>1, <1>2, <2>1
  <2>3. InPlace(ms, i, o, bs[o])
        BY <1>5, <2>2 DEF InOrder
  <2> QED
      BY <1>2, <2>2, <2>3, InPlaceGrows
<1> HIDE DEF ns, n
<1>6. ASSUME NEW val, NEW i \in Nat, ActiveFits(val, ms, i, bs) PROVE ActiveFits(val, ns, i, bs)
  <2>1. SUFFICES ASSUME NEW o \in RA!Occurrence PROVE ActiveFit(val[o], ns, i, o, bs[o])
        BY DEF ActiveFits
  <2>2. ActiveFit(val[o], ms, i, o, bs[o])
        BY <1>6 DEF ActiveFits
  <2>3. \A ev, sts : Comes(ns, i, o, ev, sts) <=> Comes(ms, i, o, ev, sts)
        BY <1>3
  <2> QED
      BY <2>2, <2>3 DEF ActiveFit
<1>7. ASSUME NEW val, ListFits(val, ms, bs) PROVE ListFits(val, ns, bs)
  <2>1. SUFFICES ASSUME NEW o \in RA!Occurrence PROVE ListFit(val[o], ns, o, bs[o])
        BY DEF ListFits
  <2>2. ListFit(val[o], ms, o, bs[o])
        BY <1>7 DEF ListFits
  <2>3. \A ev, sts : Comes(ns, 0, o, ev, sts) <=> Comes(ms, 0, o, ev, sts)
        BY <1>3
  <2> QED
      BY <2>2, <2>3 DEF ListFit
<1>8. SnapshotsFit(ms, bs) => SnapshotsFit(ns, bs)
  <2>1. SUFFICES ASSUME SnapshotsFit(ms, bs), NEW i \in DOMAIN ns, ns[i].type = "snapshot"
                 PROVE  ActiveFits(ns[i].active, ns, i, bs)
        BY DEF SnapshotsFit
  <2>2. i \in DOMAIN ms /\ ns[i] = ms[i] /\ i \in Nat
        BY <1>1, <2>1
  <2>3. ActiveFits(ms[i].active, ms, i, bs)
        BY <2>1, <2>2 DEF SnapshotsFit
  <2> QED
      BY <1>6, <2>2, <2>3
<1> QED
    BY <1>5, <1>6, <1>7, <1>8

\* The backend changes and, if someone is connected, tells of it.
LEMMA TellFits ==
    ASSUME RemoteInv, NEW m, v8' = IF v7 THEN Append(v8, m) ELSE v8,
           UNCHANGED <<v1, v2, v3, v4, v5, v6, v7, v11>>,
           v9' \in Values("active"), v10' \in 0..MaxRules,
           \A o \in ChangeAlarm : v9'[o] \notin {"active", "acked"},
           v7 => StreamFits(Append(v8, m), v9', v10'),
           v7 => \A k \in AskedKind : \A val :
                    Fits(k, val, v8, v9, v10) => Fits(k, val, Append(v8, m), v9', v10')
    PROVE  RemoteInv'
<1>1. RemoteTypes'
      BY DEF RemoteInv, RemoteTypes
<1>2. CASE v7
  <2>1. v8' = Append(v8, m) /\ v7'
        BY <1>2
  <2>2. \A k \in AskedKind :
           v4' /\ v7' /\ v5'[k] = 0 => Settled(k, ShownOf(k)', v6'[k], v11'[k], v8', v9', v10')
    <3>1. SUFFICES ASSUME NEW k \in AskedKind, v4, v5[k] = 0
                   PROVE  Settled(k, ShownOf(k)', v6[k], v11[k], v8', v9', v10')
          OBVIOUS
    <3>2. Settled(k, ShownOf(k), v6[k], v11[k], v8, v9, v10)
          BY <1>2, <3>1 DEF RemoteInv
    <3>3. ShownOf(k)' = ShownOf(k)
          BY DEF ShownOf
    <3> QED
        BY <1>2, <2>1, <3>2, <3>3 DEF Settled
  <2> QED
      BY <1>1, <1>2, <2>1, <2>2 DEF RemoteInv
<1>3. CASE ~v7
  <2>1. v8' = <<>> /\ ~v7'
        BY <1>3 DEF RemoteInv
  <2> QED
      BY <1>1, <2>1, EmptyFits DEF RemoteInv
<1> QED
    BY <1>2, <1>3

LEMMA StepFacts ==
    ASSUME NEW o \in RA!Occurrence, RA!Trigger(o) \/ RA!Recover(o) \/ RA!Acknowledge(o)
    PROVE  \E ev \in {"trigger", "ack", "recover"}, st \in Statuses :
              Moves(o, v9[o], ev, st) /\ RA!Step(o, ev, st)
<1>1. o \in ThresholdAlarm \/ o \in ChangeAlarm
      BY DEF RA!Occurrence
<1>2. CASE RA!Trigger(o)
  <2>1. v9[o] = "none" /\ RA!Step(o, "trigger", IF o \in ChangeAlarm THEN "recovered" ELSE "active")
        BY <1>2 DEF RA!Trigger
  <2>2. CASE o \in ChangeAlarm
    <3>1. Moves(o, v9[o], "trigger", "recovered") /\ RA!Step(o, "trigger", "recovered")
          BY <2>1, <2>2 DEF Moves
    <3> QED
        BY <3>1 DEF Statuses
  <2>3. CASE o \notin ChangeAlarm
    <3>1. Moves(o, v9[o], "trigger", "active") /\ RA!Step(o, "trigger", "active")
          BY <1>1, <2>1, <2>3 DEF Moves
    <3> QED
        BY <3>1 DEF Statuses
  <2> QED
      BY <2>2, <2>3
<1>3. CASE RA!Recover(o)
  <2>1. \/ v9[o] = "active" /\ RA!Step(o, "recover", "recovered")
        \/ v9[o] = "acked" /\ RA!Step(o, "recover", "closed")
        BY <1>3 DEF RA!Recover
  <2> QED
      BY <2>1 DEF Moves, Statuses
<1>4. CASE RA!Acknowledge(o)
  <2>1. \/ v9[o] = "active" /\ RA!Step(o, "ack", "acked")
        \/ v9[o] = "recovered" /\ RA!Step(o, "ack", "closed")
        BY <1>4 DEF RA!Acknowledge
  <2> QED
      BY <2>1 DEF Moves, Statuses
<1> QED
    BY <1>2, <1>3, <1>4

LEMMA StepFits ==
    ASSUME RemoteInv, NEW o \in RA!Occurrence, RA!Trigger(o) \/ RA!Recover(o) \/ RA!Acknowledge(o)
    PROVE  RemoteInv'
<1>1. PICK ev \in {"trigger", "ack", "recover"}, st \in Statuses :
         Moves(o, v9[o], ev, st) /\ RA!Step(o, ev, st)
      BY StepFacts
<1> DEFINE m == [type |-> "update", event |-> ev, occ |-> o, st |-> st]
           cs == [v9 EXCEPT ![o] = st]
<1>2. /\ v9' = cs /\ v8' = IF v7 THEN Append(v8, m) ELSE v8
      BY <1>1 DEF RA!Step, RA!Tell
<1>3. UNCHANGED <<v1, v2, v3, v4, v5, v6, v7, v10, v11>>
      BY <1>1 DEF RA!Step, RA!client
<1>4. m \in News
      BY DEF News
<1>5. About(m, o) /\ m.type = "update" /\ m.event = ev /\ m.st = st
      BY DEF About
<1> HIDE DEF m
<1>6. Moves(o, v9[o], m.event, m.st) /\ cs = [v9 EXCEPT ![o] = m.st]
      BY <1>1, <1>5
<1>7. /\ v9 \in [RA!Occurrence -> Statuses] /\ v10 \in 0..MaxRules
      /\ v8 \in Seq(News) /\ InOrder(v8, v9) /\ SnapshotsFit(v8, v9) /\ RulesFits(v8, v10)
      /\ \A p \in ChangeAlarm : v9[p] \notin {"active", "acked"}
      BY DEF RemoteInv, RemoteTypes, Values, StreamFits
<1>8. cs \in Values("active")
      BY <1>7 DEF Values
<1>9. \A p \in ChangeAlarm : cs[p] \notin {"active", "acked"}
  <2>1. SUFFICES ASSUME NEW p \in ChangeAlarm PROVE cs[p] \notin {"active", "acked"}
        OBVIOUS
  <2>2. p \in RA!Occurrence /\ v9[p] \notin {"active", "acked"}
        BY <1>7 DEF RA!Occurrence
  <2>3. CASE p = o
    <3>1. ThresholdAlarm \cap ChangeAlarm = {}
          BY EditorAssumption
    <3>2. cs[p] = st
          BY <1>7, <2>2, <2>3
    <3> QED
        BY <1>1, <2>2, <2>3, <3>1, <3>2 DEF Moves
  <2>4. CASE p # o
        BY <1>7, <2>2, <2>4
  <2> QED
      BY <2>3, <2>4
<1> DEFINE ns == Append(v8, m)
<1>10. ns \in Seq(News)
       BY <1>4, <1>7
<1>11. InOrder(ns, cs)
       BY <1>4, <1>5, <1>6, <1>7, InOrderGrows
<1>12. SnapshotsFit(ns, cs)
       BY <1>4, <1>5, <1>6, <1>7, SnapshotsGrow
<1>13. /\ RulesFits(ns, v10)
       /\ \A val : RulesFit(val, v8, 0, v10) => RulesFit(val, ns, 0, v10)
       /\ \A ty : Coming(v8, ty) => Coming(ns, ty)
       BY <1>4, <1>5, <1>7, RulesGrow
<1>14. ASSUME NEW val, ActiveFits(val, v8, 0, v9) PROVE ActiveFits(val, ns, 0, cs)
  <2>1. 0 <= Len(v8) /\ 0 \in Nat
        BY <1>7
  <2> QED
      BY <1>4, <1>5, <1>6, <1>7, <1>14, <2>1, ActiveGrows
<1>15. ASSUME NEW val, ListFits(val, v8, v9) PROVE ListFits(val, ns, cs)
      BY <1>4, <1>5, <1>6, <1>7, <1>15, ListGrows
<1> HIDE DEF cs
<1>16. StreamFits(ns, cs, v10)
       BY <1>9, <1>10, <1>11, <1>12, <1>13 DEF StreamFits
<1>17. \A k \in AskedKind : \A val : Fits(k, val, v8, v9, v10) => Fits(k, val, ns, cs, v10)
       BY <1>13, <1>14, <1>15 DEF Fits
<1> QED
    BY <1>2, <1>3, <1>7, <1>8, <1>9, <1>16, <1>17, TellFits

LEMMA ChangeRulesFits == ASSUME RemoteInv, RA!ChangeRules PROVE RemoteInv'
<1> DEFINE m == [type |-> "rules_changed"]
           ns == Append(v8, m)
           cr == v10 + 1
<1>1. /\ v10 < MaxRules /\ v10' = cr /\ v8' = IF v7 THEN ns ELSE v8
      /\ UNCHANGED <<v1, v2, v3, v4, v5, v6, v7, v9, v11>>
      BY DEF RA!ChangeRules, RA!Tell, RA!client
<1>2. m \in News /\ m.type = "rules_changed"
      BY DEF News
<1> HIDE DEF m
<1>3. /\ v9 \in Values("active") /\ v10 \in 0..MaxRules
      /\ v8 \in Seq(News) /\ InOrder(v8, v9) /\ SnapshotsFit(v8, v9) /\ RulesFits(v8, v10)
      /\ \A p \in ChangeAlarm : v9[p] \notin {"active", "acked"}
      BY DEF RemoteInv, RemoteTypes, StreamFits
<1>4. cr \in 0..MaxRules
      BY <1>1, <1>3, StatusFacts
<1> HIDE DEF cr
<1>5. ns \in Seq(News)
      BY <1>2, <1>3
<1>6. /\ RulesFits(ns, cr)
      /\ \A val : RulesFit(val, v8, 0, v10) => RulesFit(val, ns, 0, cr)
      /\ \A ty : Coming(v8, ty) => Coming(ns, ty)
      BY <1>2, <1>3, RulesGrow
<1>7. /\ InOrder(ns, v9) /\ SnapshotsFit(ns, v9)
      /\ \A val : ActiveFits(val, v8, 0, v9) => ActiveFits(val, ns, 0, v9)
      /\ \A val : ListFits(val, v8, v9) => ListFits(val, ns, v9)
      BY <1>2, <1>3, OtherGrows
<1>8. StreamFits(ns, v9, cr)
      BY <1>3, <1>5, <1>6, <1>7 DEF StreamFits
<1>9. \A k \in AskedKind : \A val : Fits(k, val, v8, v9, v10) => Fits(k, val, ns, v9, cr)
      BY <1>6, <1>7 DEF Fits
<1> QED
    BY <1>1, <1>3, <1>4, <1>8, <1>9, TellFits

LEMMA RemoteStep == ASSUME RemoteInv, RA!Next PROVE RemoteInv'
<1>1. CASE RA!QueryHistory \/ RA!SetRemote \/ RA!SetLocal \/ RA!Lose
      BY <1>1, ClientKeeps
<1>2. CASE RA!Message \/ RA!Open \/ RA!ChangeRules
      BY <1>2, MessageFits, OpenFits, ChangeRulesFits
<1>3. ASSUME NEW k \in AskedKind,
             RA!Handled(k) \/ RA!Failed(k) \/ \E i \in 1..MaxAsked : RA!Answered(k, i)
      PROVE  RemoteInv'
      BY <1>3, HandledFits, FailedFits, AnsweredFits
<1>4. ASSUME NEW o \in RA!Occurrence, RA!Trigger(o) \/ RA!Recover(o) \/ RA!Acknowledge(o)
      PROVE  RemoteInv'
      BY <1>4, StepFits
<1> QED
    BY <1>1, <1>2, <1>3, <1>4 DEF RA!Next

LEMMA RemoteStutters == ASSUME RemoteInv, UNCHANGED <<v1, v2, v3, v4, v5, v6, v7, v8, v9, v10, v11>>
                        PROVE  RemoteInv'
<1>1. \A k \in AskedKind : ShownOf(k)' = ShownOf(k)
      BY DEF ShownOf
<1> QED
    BY <1>1 DEF RemoteInv, RemoteTypes

-----------------------------------------------------------------------------
(* What the client promises.                                                 *)

LEMMA SameCount == ASSUME NEW S PROVE RA!Cardinality(S) = Cardinality(S)
BY DEF RA!Cardinality, Cardinality

\* When nothing comes, what fits is the same.
LEMMA NothingComes ==
    ASSUME NEW bs \in [RA!Occurrence -> Statuses], NEW br
    PROVE  /\ \A val \in [RA!Occurrence -> Statuses] :
                 Fits("active", val, <<>>, bs, br) =>
                    val = [o \in RA!Occurrence |->
                              IF bs[o] \in {"active", "acked"} THEN bs[o] ELSE "none"]
           /\ \A val : Fits("rules", val, <<>>, bs, br) => val = br
           /\ \A h : Fits("history", h, <<>>, bs, br) => \A o \in RA!Occurrence :
                 /\ bs[o] \in {"recovered", "closed"} => h[o] = <<bs[o]>>
                 /\ bs[o] = "none" => h[o] = <<>>
                 /\ bs[o] \in {"active", "acked"} => h[o] \in {<<>>, <<"active">>, <<"acked">>}
<1>1. DOMAIN <<>> = {}
      OBVIOUS
<1>2. /\ \A n, o, ev, sts : ~Comes(<<>>, n, o, ev, sts)
      /\ \A ty : ~Coming(<<>>, ty)
      BY <1>1 DEF Comes, Coming
<1>3. ASSUME NEW val \in [RA!Occurrence -> Statuses], Fits("active", val, <<>>, bs, br)
      PROVE  \A o \in RA!Occurrence :
                val[o] = IF bs[o] \in {"active", "acked"} THEN bs[o] ELSE "none"
  <2>1. SUFFICES ASSUME NEW o \in RA!Occurrence
                 PROVE  val[o] = IF bs[o] \in {"active", "acked"} THEN bs[o] ELSE "none"
        OBVIOUS
  <2>2. ActiveFit(val[o], <<>>, 0, o, bs[o])
        BY <1>2, <1>3 DEF Fits, ActiveFits
  <2> QED
      BY <1>2, <2>2 DEF ActiveFit
<1>4. ASSUME NEW val, Fits("rules", val, <<>>, bs, br) PROVE val = br
      BY <1>1, <1>2, <1>4 DEF Fits, RulesFit
<1>5. ASSUME NEW h, Fits("history", h, <<>>, bs, br), NEW o \in RA!Occurrence
      PROVE  /\ bs[o] \in {"recovered", "closed"} => h[o] = <<bs[o]>>
             /\ bs[o] = "none" => h[o] = <<>>
             /\ bs[o] \in {"active", "acked"} => h[o] \in {<<>>, <<"active">>, <<"acked">>}
  <2>1. ListFit(h[o], <<>>, o, bs[o])
        BY <1>5 DEF Fits, ListFits
  <2> QED
      BY <1>2, <2>1 DEF ListFit
<1> QED
    BY <1>3, <1>4, <1>5

\* The copies of an alarm in the list that are recovered and not acknowledged.
Pending(l) == Cardinality({i \in DOMAIN l : l[i] = "recovered"})

LEMMA PendingIs ==
    /\ Pending(<<>>) = 0 /\ Pending(<<"recovered">>) = 1
    /\ \A x : x # "recovered" => Pending(<<x>>) = 0
<1>1. {i \in DOMAIN <<>> : <<>>[i] = "recovered"} = {}
      OBVIOUS
<1>2. {i \in DOMAIN <<"recovered">> : <<"recovered">>[i] = "recovered"} = {1}
      OBVIOUS
<1>3. \A x : x # "recovered" => {i \in DOMAIN <<x>> : <<x>>[i] = "recovered"} = {}
      OBVIOUS
<1> QED
    BY <1>1, <1>2, <1>3, FS_EmptySet, FS_Singleton DEF Pending

\* The sum over the lists is the number of alarms that recovered.
LEMMA PendingAll ==
    ASSUME NEW bs, \A o \in RA!Occurrence : Pending(v2[o]) = IF bs[o] = "recovered" THEN 1 ELSE 0
    PROVE  RA!Unacknowledged = Cardinality({o \in RA!Occurrence : v1[o] = "active"})
                               + Cardinality({o \in RA!Occurrence : bs[o] = "recovered"})
<1> DEFINE S == RA!Occurrence
           R(s) == {o \in s : bs[o] = "recovered"}
           base == 0
           after == [p \in S \X Nat |-> p[2] + Pending(v2[p[1]])]
           I == [s \in SUBSET S |-> {Cardinality(R(s))}]
           Round(f) == [s \in SUBSET S |->
                           IF s = {} THEN base
                           ELSE f[s \ {Taken(s)}] + Pending(v2[Taken(s)])]
           F == CHOOSE f : f = Round(f)
<1>1. RA!Unacknowledged = Cardinality({o \in RA!Occurrence : v1[o] = "active"}) + F[S]
      BY SameCount DEF RA!Unacknowledged, RA!FoldSet, RA!MapThenFoldSet, Taken, Pending
<1>2. IsFiniteSet(S)
      BY EditorAssumption DEF RA!Occurrence
<1>3. \A s \in SUBSET S : IsFiniteSet(s) /\ IsFiniteSet(R(s)) /\ Cardinality(R(s)) \in Nat
  <2>1. \A s \in SUBSET S : R(s) \subseteq s /\ IsFiniteSet(s)
        BY <1>2, FS_Subset
  <2> QED
      BY <2>1, FS_Subset, FS_CardinalityType
<1>4. ASSUME NEW s \in SUBSET S, NEW x \in s
      PROVE  Cardinality(R(s)) = Cardinality(R(s \ {x})) + Pending(v2[x])
  <2>1. CASE bs[x] = "recovered"
    <3>1. R(s \ {x}) = R(s) \ {x} /\ x \in R(s) /\ IsFiniteSet(R(s)) /\ Cardinality(R(s)) \in Nat
          BY <1>3, <2>1
    <3>2. Cardinality(R(s) \ {x}) = Cardinality(R(s)) - 1
          BY <3>1, FS_RemoveElement
    <3>3. Pending(v2[x]) = 1
          BY <2>1
    <3>4. Cardinality(R(s \ {x})) = Cardinality(R(s)) - 1
          BY <3>1, <3>2
    <3> DEFINE a == Cardinality(R(s))
               b == Cardinality(R(s \ {x}))
    <3>5. a \in Nat /\ b = a - 1
          BY <3>1, <3>4
    <3> HIDE DEF a, b
    <3>6. a = b + 1
          BY <3>5
    <3> QED
        BY <3>3, <3>6 DEF a, b
  <2>2. CASE bs[x] # "recovered"
    <3>1. R(s \ {x}) = R(s) /\ Cardinality(R(s)) \in Nat
          BY <1>3, <2>2
    <3>2. Pending(v2[x]) = 0
          BY <2>2
    <3> HIDE DEF R
    <3> QED
        BY <3>1, <3>2
  <2> QED
      BY <2>1, <2>2
<1>5. \A x \in S : \A e \in Nat : after[<<x, e>>] = e + Pending(v2[x])
      OBVIOUS
<1>6. \A s \in SUBSET S : I[s] = {Cardinality(R(s))}
      OBVIOUS
<1>7. \A s \in SUBSET S : s # {} => Taken(s) \in s
      BY DEF Taken
<1>8. Cardinality(R({})) = 0 /\ base = 0
  <2>1. R({}) = {}
        OBVIOUS
  <2> QED
      BY <2>1, FS_EmptySet
<1>14. SUFFICES RA!Unacknowledged = Cardinality({o \in RA!Occurrence : v1[o] = "active"})
                                    + Cardinality(R(S))
       OBVIOUS
<1> HIDE DEF base, after, I, R, S
<1>9. PICK g : Folds(g, SUBSET S, base, after) /\ \A s \in SUBSET S : g[s] \in I[s]
  <2>1. base \in I[{}]
        BY <1>6, <1>8
  <2>2. ASSUME NEW s \in SUBSET S, NEW x \in S, NEW e, x \in s, e \in I[s \ {x}]
        PROVE  after[<<x, e>>] \in I[s]
    <3>1. s \ {x} \in SUBSET S /\ e = Cardinality(R(s \ {x})) /\ e \in Nat
          BY <1>3, <1>6, <2>2
    <3> QED
        BY <1>4, <1>5, <1>6, <2>2, <3>1
  <2> QED
      BY <1>2, <2>1, <2>2, FoldFits
<1>10. g = Round(g)
  <2>1. ASSUME NEW s \in SUBSET S, s # {}
        PROVE  after[<<Taken(s), g[s \ {Taken(s)}]>>] = g[s \ {Taken(s)}] + Pending(v2[Taken(s)])
    <3>1. Taken(s) \in S /\ s \ {Taken(s)} \in SUBSET S
          BY <1>7, <2>1
    <3>2. g[s \ {Taken(s)}] \in Nat
          BY <1>3, <1>6, <1>9, <3>1
    <3> QED
        BY <1>5, <3>1, <3>2
  <2>2. g = [s \in SUBSET S |-> IF s = {} THEN base ELSE after[<<Taken(s), g[s \ {Taken(s)}]>>]]
        BY <1>9 DEF Folds
  <2> QED
      BY <2>1, <2>2
<1> HIDE DEF Round
<1>11. F = Round(F)
       BY <1>10
<1> HIDE DEF F
<1>12. /\ F[{}] = base
       /\ \A s \in SUBSET S : s # {} => F[s] = F[s \ {Taken(s)}] + Pending(v2[Taken(s)])
       BY <1>11 DEF Round
<1>13. F[S] = Cardinality(R(S))
  <2>1. F[{}] \in I[{}]
        BY <1>6, <1>8, <1>12
  <2>2. ASSUME NEW s \in SUBSET S, s # {}
        PROVE  \E x \in s : F[s \ {x}] \in I[s \ {x}] => F[s] \in I[s]
    <3>1. Taken(s) \in s /\ s \ {Taken(s)} \in SUBSET S
          BY <1>7, <2>2
    <3> QED
      <4> DEFINE x == Taken(s)
      <4>1. /\ F[s] = F[s \ {x}] + Pending(v2[x])
            /\ Cardinality(R(s)) = Cardinality(R(s \ {x})) + Pending(v2[x])
            BY <1>4, <1>12, <2>2, <3>1
      <4>2. I[s] = {Cardinality(R(s))} /\ I[s \ {x}] = {Cardinality(R(s \ {x}))}
            BY <1>6, <3>1
      <4> HIDE DEF x
      <4>3. F[s \ {x}] \in I[s \ {x}] => F[s] \in I[s]
            BY <4>1, <4>2
      <4> QED
          BY <3>1, <4>3 DEF x
  <2>3. \A s \in SUBSET S : F[s] \in I[s]
        BY <1>2, <2>1, <2>2, FoldKeeps
  <2> QED
      BY <1>6, <2>3
<1> QED
    BY <1>1, <1>13

\* What the invariant says of a state.
LEMMA RemotePromises == ASSUME RemoteInv PROVE RA!TypeOK /\ RA!Mirrors
<1> DEFINE val == [o \in RA!Occurrence |-> IF v9[o] \in {"active", "acked"} THEN v9[o] ELSE "none"]
<1>1. /\ v1 \in [RA!Occurrence -> Statuses] /\ v9 \in [RA!Occurrence -> Statuses]
      /\ v2 \in [RA!Occurrence -> Seq(Statuses)]
      BY DEF RemoteInv, RemoteTypes, Values
<1>2. RA!TypeOK
      BY <1>1, StatusFacts DEF RemoteInv, RemoteTypes, RA!TypeOK
<1>3. ASSUME NEW k, RA!Quiet(k) PROVE k \in AskedKind /\ Fits(k, ShownOf(k), <<>>, v9, v10)
  <2>1. k \in AskedKind /\ v4 /\ v7 /\ v8 = <<>> /\ v5[k] = 0 /\ v6[k] = <<>> /\ ~v11[k]
        BY <1>3 DEF RA!Quiet
  <2>2. Settled(k, ShownOf(k), v6[k], v11[k], v8, v9, v10)
        BY <2>1 DEF RemoteInv
  <2> QED
      BY <2>1, <2>2 DEF Settled
<1>4. ASSUME RA!Quiet("active") PROVE v1 = RA!Value("active") /\ v1 = val
  <2>1. Fits("active", v1, <<>>, v9, v10)
        BY <1>3, <1>4 DEF ShownOf
  <2>2. v1 = val
        BY <1>1, <2>1, NothingComes
  <2>3. RA!Value("active") = val
        BY StatusFacts DEF RA!Value
  <2> QED
      BY <2>2, <2>3
<1>5. ASSUME RA!Quiet("rules") PROVE v3 = v10
  <2>1. Fits("rules", v3, <<>>, v9, v10)
        BY <1>3, <1>5 DEF ShownOf
  <2> QED
      BY <1>1, <2>1, NothingComes
<1>6. ASSUME RA!Quiet("active"), RA!Quiet("history")
      PROVE  RA!Unacknowledged
                = RA!Cardinality({o \in RA!Occurrence : v9[o] \in {"active", "recovered"}})
  <2>1. Fits("history", v2, <<>>, v9, v10)
        BY <1>3, <1>6 DEF ShownOf
  <2>2. ASSUME NEW o \in RA!Occurrence
        PROVE  Pending(v2[o]) = IF v9[o] = "recovered" THEN 1 ELSE 0
    <3>1. /\ v9[o] \in {"recovered", "closed"} => v2[o] = <<v9[o]>>
          /\ v9[o] = "none" => v2[o] = <<>>
          /\ v9[o] \in {"active", "acked"} => v2[o] \in {<<>>, <<"active">>, <<"acked">>}
          BY <1>1, <2>1, NothingComes
    <3>2. v9[o] \in {"none", "active", "acked", "recovered", "closed"}
          BY <1>1 DEF Statuses
    <3>3. Pending(<<"active">>) = 0 /\ Pending(<<"acked">>) = 0 /\ Pending(<<"closed">>) = 0
          BY PendingIs
    <3> QED
        BY <3>1, <3>2, <3>3, PendingIs
  <2> DEFINE Raised == {o \in RA!Occurrence : v9[o] = "active"}
             Returned == {o \in RA!Occurrence : v9[o] = "recovered"}
  <2>3. {o \in RA!Occurrence : v1[o] = "active"} = Raised
        BY <1>4, <1>6
  <2>4. RA!Unacknowledged = Cardinality(Raised) + Cardinality(Returned)
        BY <2>2, <2>3, PendingAll
  <2>5. {o \in RA!Occurrence : v9[o] \in {"active", "recovered"}} = Raised \cup Returned /\ Raised \cap Returned = {}
        OBVIOUS
  <2>6. IsFiniteSet(Raised) /\ IsFiniteSet(Returned)
    <3>1. IsFiniteSet(RA!Occurrence)
          BY EditorAssumption DEF RA!Occurrence
    <3> QED
        BY <3>1, FS_Subset
  <2> HIDE DEF Raised, Returned
  <2>7. Cardinality(Raised \cup Returned) = Cardinality(Raised) + Cardinality(Returned)
    <3>1. Cardinality(Raised \cup Returned) = Cardinality(Raised) + Cardinality(Returned) - Cardinality(Raised \cap Returned)
          BY <2>6, FS_Union
    <3>2. Cardinality(Raised \cap Returned) = 0 /\ Cardinality(Raised) \in Nat /\ Cardinality(Returned) \in Nat
          BY <2>5, <2>6, FS_EmptySet, FS_CardinalityType
    <3> QED
        BY <3>1, <3>2
  <2> QED
      BY <2>4, <2>5, <2>7, SameCount
<1>7. RA!Mirrors
      BY <1>4, <1>5, <1>6 DEF RA!Mirrors
<1> QED
    BY <1>2, <1>7

\* While the part that runs is the backend's alarms, their invariant holds.
RemoteHolds == part = "alarms" => RemoteInv

LEMMA RemoteKept == RemoteHolds /\ [Next]_vars => RemoteHolds'
<1>1. SUFFICES ASSUME RemoteHolds, [Next]_vars, part' = "alarms"
               PROVE  RemoteInv'
      BY DEF RemoteHolds
<1>2. CASE UNCHANGED vars
      BY <1>1, <1>2, RemoteStutters DEF RemoteHolds, vars
<1>3. CASE Next
  <2>1. part = "alarms" /\ RA!Next
        BY <1>1, <1>3 DEF Next
  <2> QED
      BY <1>1, <2>1, RemoteStep DEF RemoteHolds
<1> QED
    BY <1>1, <1>2, <1>3

LEMMA RemoteAlways == Spec => []RemoteHolds
<1>1. Init => RemoteHolds
      BY RemoteStart DEF Init, RemoteHolds
<1> QED
    BY <1>1, RemoteKept, PTL DEF Spec

-----------------------------------------------------------------------------
(* The shape library.  Library declares its variables in this order: pm v1,  *)
(* storage v2, mirror v3, panel v4, reading v5, file v6, hydrated v7,        *)
(* adrift v8.                                                                *)

LibraryGroup == [id : Pair, name : {"valve", "pump"} \X (1 .. 9)]

\* A fold of a sequence takes the last place first.
LEMMA TopmostIs ==
    ASSUME NEW n \in Nat, NEW s \in SUBSET (1..n), s # {}
    PROVE  LI!Max(s) \in s /\ \A k \in s : k <= LI!Max(s)
<1> DEFINE T == {n - k : k \in s}
<1>1. T \subseteq Nat /\ T # {}
  <2>1. \A k \in s : k \in 1..n /\ n - k \in Nat
        OBVIOUS
  <2> QED
      BY <2>1
<1>2. PICK m \in T : \A j \in T : m <= j
  <2> HIDE DEF T
  <2> QED
      BY <1>1, Least
<1>3. PICK k \in s : m = n - k
      OBVIOUS
<1>4. \A j \in s : k >= j
  <2>1. \A j \in s : n - j \in T
        OBVIOUS
  <2>2. s \subseteq Nat
        OBVIOUS
  <2> HIDE DEF T
  <2> QED
      BY <1>2, <1>3, <2>1, <2>2
<1> HIDE DEF T
<1>5. LI!Max(s) \in s /\ \A j \in s : LI!Max(s) >= j
      BY <1>3, <1>4 DEF LI!Max
<1>6. s \subseteq Nat
      OBVIOUS
<1> QED
    BY <1>5, <1>6

Named(done, x) == [x EXCEPT !.name = LI!Unused(x.name, LI!Named(done))]

\* What normalizeGrouping makes of the groups is where each group leads to.
LEMMA RenamedFits ==
    ASSUME NEW groups \in Seq(LibraryGroup), NEW I, <<>> \in I[{}],
           \A s \in SUBSET DOMAIN groups : \A done : s # {} /\ done \in I[s \ {LI!Max(s)}] =>
              Append(done, Named(done, groups[LI!Max(s)])) \in I[s]
    PROVE  LI!Renamed(groups) \in I[DOMAIN groups]
<1> DEFINE S == DOMAIN groups
           top == [s \in SUBSET S |-> LI!Max(s)]
           U == UNION {I[s] : s \in SUBSET S}
           op == [p \in S \X U |-> Append(p[2], Named(p[2], groups[p[1]]))]
           Round(f) == [s \in SUBSET S |->
                           IF s = {} THEN <<>>
                           ELSE Append(f[s \ {LI!Max(s)}],
                                       Named(f[s \ {LI!Max(s)}], groups[LI!Max(s)]))]
           F == CHOOSE f : f = Round(f)
<1>1. LI!Renamed(groups) = F[S]
      BY DEF LI!Renamed, LI!FoldLeft, LI!MapThenFoldSet, Named
<1>2. IsFiniteSet(S) /\ \A s \in SUBSET S : s # {} => top[s] = LI!Max(s) /\ LI!Max(s) \in s
  <2>1. Len(groups) \in Nat /\ S = 1..Len(groups)
        OBVIOUS
  <2> HIDE DEF S
  <2>2. IsFiniteSet(S)
        BY <2>1, FS_Interval
  <2>3. \A s \in SUBSET S : s # {} => LI!Max(s) \in s
        BY <2>1, TopmostIs
  <2> QED
      BY <2>2, <2>3
<1>3. \A s \in SUBSET S : \A done : s # {} /\ done \in I[s \ {LI!Max(s)}] =>
         /\ op[<<LI!Max(s), done>>] = Append(done, Named(done, groups[LI!Max(s)]))
         /\ op[<<LI!Max(s), done>>] \in I[s]
  <2>1. \A x \in S, done \in U : op[<<x, done>>] = Append(done, Named(done, groups[x]))
        OBVIOUS
  <2>2. \A s \in SUBSET S : \A done : done \in I[s \ {LI!Max(s)}] => done \in U
        OBVIOUS
  <2>3. \A s \in SUBSET S : \A done : s # {} /\ done \in I[s \ {LI!Max(s)}] =>
           Append(done, Named(done, groups[LI!Max(s)])) \in I[s]
        OBVIOUS
  <2>4. \A s \in SUBSET S : s # {} => LI!Max(s) \in S
        BY <1>2
  <2> HIDE DEF op, U, S
  <2> QED
      BY <2>1, <2>2, <2>3, <2>4
<1> HIDE DEF S, op, top, U
<1>4. PICK g : FoldsBy(top, g, SUBSET S, <<>>, op) /\ \A s \in SUBSET S : g[s] \in I[s]
  <2>1. \A s \in SUBSET S : s # {} => top[s] \in s
        BY <1>2
  <2>2. \A s \in SUBSET S : \A e :
           s # {} /\ e \in I[s \ {top[s]}] => op[<<top[s], e>>] \in I[s]
        BY <1>2, <1>3
  <2> QED
      BY <1>2, <2>1, <2>2, FoldByFits
<1>5. g = Round(g)
  <2>1. \A s \in SUBSET S : s # {} =>
           op[<<top[s], g[s \ {top[s]}]>>]
              = Append(g[s \ {LI!Max(s)}], Named(g[s \ {LI!Max(s)}], groups[LI!Max(s)]))
        BY <1>2, <1>3, <1>4
  <2> QED
      BY <1>4, <2>1 DEF FoldsBy
<1> HIDE DEF Round
<1>6. F = Round(F)
      BY <1>5
<1> HIDE DEF F
<1>7. /\ F[{}] = <<>>
      /\ \A s \in SUBSET S : s # {} =>
            F[s] = Append(F[s \ {LI!Max(s)}], Named(F[s \ {LI!Max(s)}], groups[LI!Max(s)]))
      BY <1>6 DEF Round
<1>8. \A s \in SUBSET S : s # {} =>
         \E x \in s : F[s \ {x}] \in I[s \ {x}] => F[s] \in I[s]
  <2>1. ASSUME NEW s \in SUBSET S, s # {}, F[s \ {LI!Max(s)}] \in I[s \ {LI!Max(s)}]
        PROVE  F[s] \in I[s]
        BY <1>3, <1>7, <2>1
  <2> QED
      BY <1>2, <2>1
<1>9. F[S] \in I[S]
  <2>1. F[{}] \in I[{}]
        BY <1>7
  <2>2. \A s \in SUBSET S : F[s] \in I[s]
        BY <1>2, <1>8, <2>1, FoldKeeps
  <2> QED
      BY <2>2
<1> QED
    BY <1>1, <1>9 DEF S

Kept(rest, x, g) == IF x.id = g THEN rest ELSE Append(rest, x)

\* So is what is left of the groups without one.
LEMMA OthersFits ==
    ASSUME NEW groups \in Seq(LibraryGroup), NEW out, NEW I, <<>> \in I[{}],
           \A s \in SUBSET DOMAIN groups : \A done : s # {} /\ done \in I[s \ {LI!Max(s)}] =>
              Kept(done, groups[LI!Max(s)], out) \in I[s]
    PROVE  LI!Others(groups, out) \in I[DOMAIN groups]
<1> DEFINE S == DOMAIN groups
           top == [s \in SUBSET S |-> LI!Max(s)]
           U == UNION {I[s] : s \in SUBSET S}
           op == [p \in S \X U |-> Kept(p[2], groups[p[1]], out)]
           Round(f) == [s \in SUBSET S |->
                           IF s = {} THEN <<>>
                           ELSE Kept(f[s \ {LI!Max(s)}], groups[LI!Max(s)], out)]
           F == CHOOSE f : f = Round(f)
<1>1. LI!Others(groups, out) = F[S]
      BY DEF LI!Others, LI!FoldLeft, LI!MapThenFoldSet, Kept
<1>2. IsFiniteSet(S) /\ \A s \in SUBSET S : s # {} => top[s] = LI!Max(s) /\ LI!Max(s) \in s
  <2>1. Len(groups) \in Nat /\ S = 1..Len(groups)
        OBVIOUS
  <2> HIDE DEF S
  <2>2. IsFiniteSet(S)
        BY <2>1, FS_Interval
  <2>3. \A s \in SUBSET S : s # {} => LI!Max(s) \in s
        BY <2>1, TopmostIs
  <2> QED
      BY <2>2, <2>3
<1>3. \A s \in SUBSET S : \A done : s # {} /\ done \in I[s \ {LI!Max(s)}] =>
         /\ op[<<LI!Max(s), done>>] = Kept(done, groups[LI!Max(s)], out)
         /\ op[<<LI!Max(s), done>>] \in I[s]
  <2>1. \A x \in S, done \in U : op[<<x, done>>] = Kept(done, groups[x], out)
        OBVIOUS
  <2>2. \A s \in SUBSET S : \A done : done \in I[s \ {LI!Max(s)}] => done \in U
        OBVIOUS
  <2>3. \A s \in SUBSET S : \A done : s # {} /\ done \in I[s \ {LI!Max(s)}] =>
           Kept(done, groups[LI!Max(s)], out) \in I[s]
        OBVIOUS
  <2>4. \A s \in SUBSET S : s # {} => LI!Max(s) \in S
        BY <1>2
  <2> HIDE DEF op, U, S
  <2> QED
      BY <2>1, <2>2, <2>3, <2>4
<1> HIDE DEF S, op, top, U
<1>4. PICK g : FoldsBy(top, g, SUBSET S, <<>>, op) /\ \A s \in SUBSET S : g[s] \in I[s]
  <2>1. \A s \in SUBSET S : s # {} => top[s] \in s
        BY <1>2
  <2>2. \A s \in SUBSET S : \A e :
           s # {} /\ e \in I[s \ {top[s]}] => op[<<top[s], e>>] \in I[s]
        BY <1>2, <1>3
  <2> QED
      BY <1>2, <2>1, <2>2, FoldByFits
<1>5. g = Round(g)
  <2>1. \A s \in SUBSET S : s # {} =>
           op[<<top[s], g[s \ {top[s]}]>>]
              = Kept(g[s \ {LI!Max(s)}], groups[LI!Max(s)], out)
        BY <1>2, <1>3, <1>4
  <2> QED
      BY <1>4, <2>1 DEF FoldsBy
<1> HIDE DEF Round
<1>6. F = Round(F)
      BY <1>5
<1> HIDE DEF F
<1>7. /\ F[{}] = <<>>
      /\ \A s \in SUBSET S : s # {} =>
            F[s] = Kept(F[s \ {LI!Max(s)}], groups[LI!Max(s)], out)
      BY <1>6 DEF Round
<1>8. \A s \in SUBSET S : s # {} =>
         \E x \in s : F[s \ {x}] \in I[s \ {x}] => F[s] \in I[s]
  <2>1. ASSUME NEW s \in SUBSET S, s # {}, F[s \ {LI!Max(s)}] \in I[s \ {LI!Max(s)}]
        PROVE  F[s] \in I[s]
        BY <1>3, <1>7, <2>1
  <2> QED
      BY <1>2, <2>1
<1>9. F[S] \in I[S]
  <2>1. F[{}] \in I[{}]
        BY <1>7
  <2>2. \A s \in SUBSET S : F[s] \in I[s]
        BY <1>2, <1>8, <2>1, FoldKeeps
  <2> QED
      BY <2>2
<1> QED
    BY <1>1, <1>9 DEF S

Distinct(groups) ==
    \A j, k \in DOMAIN groups : groups[j].name = groups[k].name => j = k

LEMMA AppendNames ==
    ASSUME NEW e \in Seq(LibraryGroup), NEW x \in LibraryGroup
    PROVE  /\ Append(e, x) \in Seq(LibraryGroup)
           /\ LI!Named(Append(e, x)) = LI!Named(e) \cup {x.name}
           /\ LI!Ids(Append(e, x)) = LI!Ids(e) \cup {x.id}
           /\ Distinct(e) /\ x.name \notin LI!Named(e) => Distinct(Append(e, x))
<1> DEFINE t == Append(e, x)
<1>1. /\ t \in Seq(LibraryGroup) /\ Len(t) = Len(e) + 1 /\ Len(e) \in Nat
      /\ t[Len(e) + 1] = x /\ \A k \in 1..Len(e) : t[k] = e[k]
      /\ DOMAIN e = 1..Len(e) /\ DOMAIN t = 1..(Len(e) + 1)
      OBVIOUS
<1> HIDE DEF t
<1>2. DOMAIN t = DOMAIN e \cup {Len(e) + 1} /\ \A k \in DOMAIN e : k # Len(e) + 1 /\ t[k] = e[k]
      BY <1>1
<1>3. LI!Named(t) = LI!Named(e) \cup {x.name} /\ LI!Ids(t) = LI!Ids(e) \cup {x.id}
      BY <1>1, <1>2 DEF LI!Named, LI!Ids
<1>4. ASSUME Distinct(e), x.name \notin LI!Named(e) PROVE Distinct(t)
      BY <1>1, <1>2, <1>4 DEF Distinct, LI!Named
<1> QED
    BY <1>1, <1>3, <1>4 DEF t

\* Groups of different names keep them.
LEMMA RenamedSame ==
    ASSUME NEW groups \in Seq(LibraryGroup), Distinct(groups)
    PROVE  LI!Renamed(groups) = groups
<1> DEFINE n == Len(groups)
           Names(s) == {groups[k].name : k \in s}
           Same(s, e) == \A k \in 0..n :
                            s = 1..k => Len(e) = k /\ \A i \in 1..k : e[i] = groups[i]
           I == [s \in SUBSET DOMAIN groups |->
                    {e \in Seq(LibraryGroup) : LI!Named(e) = Names(s) /\ Same(s, e)}]
<1>1. <<>> \in I[{}]
  <2>1. \A k \in 0..n : {} = 1..k => k = 0
        OBVIOUS
  <2>2. Same({}, <<>>)
        BY <2>1
  <2>3. LI!Named(<<>>) = Names({})
        BY DEF LI!Named
  <2> HIDE DEF Same, Names
  <2> QED
      BY <2>2, <2>3
<1>2. ASSUME NEW s \in SUBSET DOMAIN groups, NEW e, s # {}, e \in I[s \ {LI!Max(s)}]
      PROVE  Append(e, Named(e, groups[LI!Max(s)])) \in I[s]
  <2> DEFINE x == LI!Max(s)
             g == groups[x]
  <2>1. n \in Nat /\ x \in s /\ x \in 1..n /\ (\A k \in s : k <= x) /\ s \subseteq 1..n
    <3>1. n \in Nat /\ DOMAIN groups = 1..n
          OBVIOUS
    <3> HIDE DEF n
    <3> QED
        BY <1>2, <3>1, TopmostIs
  <2>2. e \in Seq(LibraryGroup) /\ LI!Named(e) = Names(s \ {x}) /\ Same(s \ {x}, e)
    <3> HIDE DEF Same, Names, x
    <3>1. s \ {LI!Max(s)} \in SUBSET DOMAIN groups
          OBVIOUS
    <3> QED
        BY <1>2, <3>1 DEF x
  <2>3. g \in LibraryGroup
        BY <2>1
  <2> HIDE DEF x
  <2>4. g.name \notin LI!Named(e)
    <3>1. \A k \in s \ {x} : k \in DOMAIN groups /\ x \in DOMAIN groups /\ k # x
          BY <2>1
    <3>2. \A k \in s \ {x} : groups[k].name # g.name
          BY <3>1 DEF Distinct
    <3> QED
        BY <2>2, <3>2
  <2>5. Named(e, g) = g
        BY <2>3, <2>4 DEF Named, LI!Unused, LibraryGroup
  <2>6. /\ Append(e, g) \in Seq(LibraryGroup)
        /\ LI!Named(Append(e, g)) = Names(s)
    <3>1. Names(s) = Names(s \ {x}) \cup {g.name}
          BY <2>1
    <3> HIDE DEF Names, g, Same
    <3> QED
        BY <2>2, <2>3, <3>1, AppendNames
  <2>7. Same(s, Append(e, g))
    <3>1. SUFFICES ASSUME NEW k \in 0..n, s = 1..k
                   PROVE  Len(Append(e, g)) = k /\ \A i \in 1..k : Append(e, g)[i] = groups[i]
          OBVIOUS
    <3>2. k \in Nat /\ k # 0 /\ x = k
          BY <1>2, <2>1, <3>1
    <3>3. s \ {x} = 1..(k - 1) /\ k - 1 \in 0..n
          BY <2>1, <3>1, <3>2
    <3>4. Len(e) = k - 1 /\ \A i \in 1..(k - 1) : e[i] = groups[i]
          BY <2>2, <3>3
    <3>5. /\ Len(Append(e, g)) = k /\ Append(e, g)[k] = groups[k]
          /\ \A i \in 1..(k - 1) : Append(e, g)[i] = e[i]
      <4> HIDE DEF Same, Names
      <4> QED
          BY <2>2, <2>3, <3>2, <3>4
    <3>6. \A i \in 1..k : i = k \/ i \in 1..(k - 1)
          BY <3>2
    <3> QED
        BY <3>4, <3>5, <3>6
  <2> HIDE DEF Same, Names, g
  <2> QED
      BY <2>5, <2>6, <2>7 DEF x, g
<1>3. LI!Renamed(groups) \in I[DOMAIN groups]
  <2> HIDE DEF I
  <2> QED
      BY <1>1, <1>2, RenamedFits
<1>4. LI!Renamed(groups) \in Seq(LibraryGroup) /\ Same(DOMAIN groups, LI!Renamed(groups))
  <2> HIDE DEF Same, Names
  <2> QED
      BY <1>3
<1> DEFINE e == LI!Renamed(groups)
<1> HIDE DEF e
<1>5. Len(e) = n /\ \A i \in 1..n : e[i] = groups[i]
  <2>1. n \in Nat /\ DOMAIN groups = 1..n /\ n \in 0..n
        OBVIOUS
  <2> QED
      BY <1>4, <2>1 DEF e
<1>6. e = groups
      BY <1>4, <1>5 DEF e
<1> QED
    BY <1>6 DEF e

\* The groups but one.
LEMMA OthersAre ==
    ASSUME NEW groups \in Seq(LibraryGroup), Distinct(groups), NEW out
    PROVE  /\ LI!Others(groups, out) \in Seq(LibraryGroup) /\ Distinct(LI!Others(groups, out))
           /\ LI!Ids(LI!Others(groups, out)) = LI!Ids(groups) \ {out}
<1> DEFINE Names(s) == {groups[k].name : k \in s}
           Left(s) == {groups[k].id : k \in s} \ {out}
           I == [s \in SUBSET DOMAIN groups |->
                    {e \in Seq(LibraryGroup) :
                        Distinct(e) /\ LI!Named(e) \subseteq Names(s) /\ LI!Ids(e) = Left(s)}]
<1>1. <<>> \in I[{}]
  <2>1. Distinct(<<>>) /\ LI!Named(<<>>) = {} /\ LI!Ids(<<>>) = {}
        BY DEF Distinct, LI!Named, LI!Ids
  <2>2. Left({}) = {}
        OBVIOUS
  <2> HIDE DEF Left, Names
  <2> QED
      BY <2>1, <2>2
<1>2. ASSUME NEW s \in SUBSET DOMAIN groups, NEW e, s # {}, e \in I[s \ {LI!Max(s)}]
      PROVE  Kept(e, groups[LI!Max(s)], out) \in I[s]
  <2> DEFINE x == LI!Max(s)
             g == groups[x]
  <2>1. x \in s /\ x \in DOMAIN groups
    <3>1. Len(groups) \in Nat /\ DOMAIN groups = 1..Len(groups)
          OBVIOUS
    <3> QED
        BY <1>2, <3>1, TopmostIs
  <2>2. /\ e \in Seq(LibraryGroup) /\ Distinct(e)
        /\ LI!Named(e) \subseteq Names(s \ {x}) /\ LI!Ids(e) = Left(s \ {x})
    <3> HIDE DEF Left, Names, x
    <3>1. s \ {LI!Max(s)} \in SUBSET DOMAIN groups
          OBVIOUS
    <3> QED
        BY <1>2, <3>1 DEF x
  <2>3. g \in LibraryGroup
        BY <2>1
  <2> HIDE DEF x
  <2>4. g.name \notin Names(s \ {x})
        BY <2>1 DEF Distinct
  <2>5. Names(s) = Names(s \ {x}) \cup {g.name} /\ Left(s) = Left(s \ {x}) \cup ({g.id} \ {out})
        BY <2>1
  <2> HIDE DEF Names, Left, g
  <2>6. CASE g.id = out
    <3>1. Left(s) = Left(s \ {x}) /\ Kept(e, g, out) = e
          BY <2>5, <2>6 DEF Kept
    <3> QED
        BY <2>2, <2>5, <3>1 DEF x, g
  <2>7. CASE g.id # out
    <3>1. Kept(e, g, out) = Append(e, g) /\ Left(s) = Left(s \ {x}) \cup {g.id}
          BY <2>5, <2>7 DEF Kept
    <3>2. /\ Append(e, g) \in Seq(LibraryGroup) /\ Distinct(Append(e, g))
          /\ LI!Named(Append(e, g)) \subseteq Names(s)
          /\ LI!Ids(Append(e, g)) = Left(s)
          BY <2>2, <2>3, <2>4, <2>5, <3>1, AppendNames
    <3> QED
        BY <3>1, <3>2 DEF x, g
  <2> QED
      BY <2>6, <2>7
<1>3. LI!Others(groups, out) \in I[DOMAIN groups]
  <2> HIDE DEF I
  <2> QED
      BY <1>1, <1>2, OthersFits
<1>4. Left(DOMAIN groups) = LI!Ids(groups) \ {out}
      BY DEF LI!Ids
<1> HIDE DEF Left, Names
<1> QED
    BY <1>3, <1>4

Valve == <<"valve", 1>>

\* Two groups of one name, and one group, are renamed apart.
LEMMA RenamedApart ==
    ASSUME NEW groups \in Seq(LibraryGroup), Len(groups) <= 2,
           \A k \in DOMAIN groups : groups[k].name = Valve
    PROVE  LI!Renamed(groups) \in Seq(LibraryGroup) /\ Distinct(LI!Renamed(groups))
<1> DEFINE One(s, e) == /\ s = {} => Len(e) = 0
                        /\ s # 1..2 => Len(e) <= 1 /\ \A k \in DOMAIN e : e[k].name = Valve
           I == [s \in SUBSET DOMAIN groups |->
                    {e \in Seq(LibraryGroup) : Distinct(e) /\ One(s, e)}]
<1>1. <<>> \in I[{}]
      BY DEF Distinct
<1>2. ASSUME NEW s \in SUBSET DOMAIN groups, NEW e, s # {}, e \in I[s \ {LI!Max(s)}]
      PROVE  Append(e, Named(e, groups[LI!Max(s)])) \in I[s]
  <2> DEFINE x == LI!Max(s)
             g == groups[x]
             d == Named(e, g)
  <2>1. x \in s /\ x \in DOMAIN groups /\ s \subseteq 1..2
    <3>1. Len(groups) \in Nat /\ DOMAIN groups = 1..Len(groups)
          OBVIOUS
    <3>2. x \in s
          BY <1>2, <3>1, TopmostIs
    <3> HIDE DEF x
    <3> QED
        BY <3>1, <3>2
  <2>2. e \in Seq(LibraryGroup) /\ Distinct(e) /\ One(s \ {x}, e)
    <3> HIDE DEF One, x
    <3>1. s \ {LI!Max(s)} \in SUBSET DOMAIN groups
          OBVIOUS
    <3> QED
        BY <1>2, <3>1 DEF x
  <2>3. g \in LibraryGroup /\ g.name = Valve
        BY <2>1
  <2> HIDE DEF x
  <2>4. s \ {x} # 1..2 /\ (s # 1..2 => s \ {x} = {})
        BY <2>1
  <2>5. Len(e) <= 1 /\ Len(e) \in Nat /\ \A k \in DOMAIN e : e[k].name = Valve
    <3>1. Len(e) <= 1 /\ \A k \in DOMAIN e : e[k].name = Valve
          BY <2>2, <2>4
    <3> QED
        BY <2>2, <3>1
  <2>6. d \in LibraryGroup /\ d.name \notin LI!Named(e)
    <3>1. CASE Valve \notin LI!Named(e)
      <4>1. d = g
            BY <2>3, <3>1 DEF Named, LI!Unused, LibraryGroup
      <4> QED
          BY <2>3, <3>1, <4>1
    <3>2. CASE Valve \in LI!Named(e)
      <4>1. LI!Named(e) = {Valve}
            BY <2>5, <3>2 DEF LI!Named
      <4> DEFINE Fresh(n) == /\ <<Valve[1], n>> \notin LI!Named(e)
                             /\ \A m \in 2 .. n - 1 : <<Valve[1], m>> \in LI!Named(e)
                 n == CHOOSE i \in 2 .. 9 : Fresh(i)
      <4>2. Fresh(2)
            BY <4>1 DEF Valve
      <4>3. n \in 2 .. 9 /\ Fresh(n)
        <5> HIDE DEF Fresh
        <5> QED
            BY <4>2
      <4>4. LI!Unused(Valve, LI!Named(e)) = <<Valve[1], n>>
            BY <3>2 DEF LI!Unused
      <4> HIDE DEF n
      <4>5. <<Valve[1], n>> \in {"valve", "pump"} \X (1 .. 9)
            BY <4>3 DEF Valve
      <4>6. <<Valve[1], n>> \notin LI!Named(e)
            BY <4>3
      <4>7. d = [g EXCEPT !.name = <<Valve[1], n>>]
            BY <2>3, <4>4 DEF Named
      <4> HIDE DEF d, g
      <4> QED
          BY <2>3, <4>5, <4>6, <4>7 DEF LibraryGroup
    <3> QED
        BY <3>1, <3>2
  <2> DEFINE t == Append(e, d)
  <2>7. t \in Seq(LibraryGroup) /\ Distinct(t)
    <3> HIDE DEF d
    <3> QED
        BY <2>2, <2>6, AppendNames
  <2>8. One(s, t)
    <3>1. ASSUME s # 1..2 PROVE Len(t) <= 1 /\ \A k \in DOMAIN t : t[k].name = Valve
      <4>1. Len(e) = 0 /\ e = <<>>
            BY <2>2, <2>4, <3>1
      <4>2. LI!Named(e) = {}
            BY <4>1 DEF LI!Named
      <4>3. d = g
            BY <2>3, <4>2 DEF Named, LI!Unused, LibraryGroup
      <4> HIDE DEF d, g
      <4>4. Len(t) = 1 /\ DOMAIN t = {1} /\ t[1] = g
            BY <2>3, <4>1, <4>3
      <4> QED
          BY <2>3, <4>4
    <3> QED
        BY <1>2, <3>1
  <2> HIDE DEF One, t
  <2> QED
      BY <2>7, <2>8 DEF t, d, g, x
<1>3. LI!Renamed(groups) \in I[DOMAIN groups]
  <2> HIDE DEF I
  <2> QED
      BY <1>1, <1>2, RenamedFits
<1> HIDE DEF One
<1> QED
    BY <1>3

\* A place of the groups when the one in place j has been moved to place k.
MovedFrom(j, k, i) ==
    IF i = k THEN j ELSE IF j <= i /\ i < k THEN i + 1 ELSE IF k < i /\ i <= j THEN i - 1 ELSE i

\* Groups in another order.
LEMMA MovedAre ==
    ASSUME NEW groups \in Seq(LibraryGroup), Distinct(groups),
           NEW j \in DOMAIN groups, NEW k \in DOMAIN groups
    PROVE  LET moved == LI!InsertAt(LI!RemoveAt(groups, j), k, groups[j])
           IN  moved \in Seq(LibraryGroup) /\ Distinct(moved) /\ LI!Ids(moved) = LI!Ids(groups)
<1> DEFINE n == Len(groups)
           rest == LI!RemoveAt(groups, j)
           moved == LI!InsertAt(rest, k, groups[j])
<1>1. n \in Nat /\ DOMAIN groups = 1..n /\ j \in 1..n /\ k \in 1..n /\ n - 1 \in Nat
      OBVIOUS
<1>2. /\ rest \in Seq(LibraryGroup) /\ Len(rest) = n - 1
      /\ \A i \in 1..(j - 1) : rest[i] = groups[i]
      /\ \A i \in 1..(n - j) : rest[(j - 1) + i] = groups[j + i]
  <2> DEFINE b == SubSeq(groups, 1, j - 1)
             c == SubSeq(groups, j + 1, Len(groups))
  <2>1. b \in Seq(LibraryGroup) /\ Len(b) = j - 1 /\ \A i \in 1..(j - 1) : b[i] = groups[i]
    <3>1. j - 1 \in 0..Len(groups)
          BY <1>1
    <3> QED
        BY <3>1, Beginning
  <2>2. /\ c \in Seq(LibraryGroup) /\ Len(c) = n - j
        /\ \A i \in 1..(n - j) : c[i] = groups[j + i]
    <3>1. j \in 0..Len(groups)
          BY <1>1
    <3> QED
        BY <3>1, Rest
  <2>3. rest = b \o c
        BY DEF LI!RemoveAt
  <2> HIDE DEF b, c, rest, n
  <2>4. /\ b \o c \in Seq(LibraryGroup) /\ Len(b \o c) = Len(b) + Len(c)
        /\ \A i \in 1..Len(b) : (b \o c)[i] = b[i]
        /\ \A i \in 1..Len(c) : (b \o c)[Len(b) + i] = c[i]
    <3>1. b \in Seq(LibraryGroup) /\ c \in Seq(LibraryGroup)
          BY <2>1, <2>2
    <3> QED
        BY <3>1, Joined
  <2> HIDE DEF rest
  <2>5. (j - 1) + (n - j) = n - 1
        BY <1>1
  <2> QED
      BY <2>1, <2>2, <2>3, <2>4, <2>5
<1> HIDE DEF rest
<1>3. /\ moved \in Seq(LibraryGroup) /\ Len(moved) = n /\ moved[k] = groups[j]
      /\ \A i \in 1..(k - 1) : moved[i] = rest[i]
      /\ \A i \in 1..(n - k) : moved[k + i] = rest[(k - 1) + i]
  <2> DEFINE b == SubSeq(rest, 1, k - 1)
             c == SubSeq(rest, k, Len(rest))
             m == b \o <<groups[j]>>
  <2>0. /\ rest \in Seq(LibraryGroup) /\ k - 1 \in 0..Len(rest)
        /\ (k - 1) + 1 = k /\ Len(rest) - (k - 1) = n - k
    <3>1. rest \in Seq(LibraryGroup) /\ Len(rest) = n - 1
          BY <1>2
    <3> HIDE DEF n, b, c, m
    <3> QED
        BY <1>1, <3>1
  <2>1. b \in Seq(LibraryGroup) /\ Len(b) = k - 1 /\ \A i \in 1..(k - 1) : b[i] = rest[i]
        BY <2>0, Beginning
  <2>2. /\ c \in Seq(LibraryGroup) /\ Len(c) = n - k
        /\ \A i \in 1..(n - k) : c[i] = rest[(k - 1) + i]
    <3>1. c = SubSeq(rest, (k - 1) + 1, Len(rest))
          BY <2>0
    <3> HIDE DEF c, n
    <3>2. /\ c \in Seq(LibraryGroup) /\ Len(c) = Len(rest) - (k - 1)
          /\ \A i \in 1..(Len(rest) - (k - 1)) : c[i] = rest[(k - 1) + i]
          BY <2>0, <3>1, Rest
    <3> QED
        BY <2>0, <3>2
  <2>3. moved = m \o c
        BY DEF LI!InsertAt
  <2>4. groups[j] \in LibraryGroup /\ <<groups[j]>> \in Seq(LibraryGroup)
        BY <1>1
  <2> HIDE DEF b, c, moved, n
  <2>5. /\ m \in Seq(LibraryGroup) /\ Len(m) = k /\ m[k] = groups[j]
        /\ \A i \in 1..(k - 1) : m[i] = b[i]
    <3> DEFINE e == <<groups[j]>>
    <3>1. Len(e) = 1 /\ e[1] = groups[j] /\ e \in Seq(LibraryGroup)
          BY <2>4
    <3> HIDE DEF e
    <3>2. /\ b \o e \in Seq(LibraryGroup) /\ Len(b \o e) = Len(b) + Len(e)
          /\ \A i \in 1..Len(b) : (b \o e)[i] = b[i]
          /\ \A i \in 1..Len(e) : (b \o e)[Len(b) + i] = e[i]
      <4>1. b \in Seq(LibraryGroup) /\ e \in Seq(LibraryGroup)
            BY <2>1, <3>1
      <4> QED
          BY <4>1, Joined
    <3>3. (k - 1) + 1 = k /\ 1 \in 1..1
          BY <1>1
    <3>4. m = b \o e
          BY DEF e
    <3>5. e[1] = groups[j] /\ (b \o e)[Len(b) + 1] = e[1]
          BY <3>1, <3>2
    <3> HIDE DEF m
    <3> QED
        BY <2>1, <3>1, <3>2, <3>3, <3>4, <3>5
  <2> HIDE DEF m
  <2>6. /\ m \o c \in Seq(LibraryGroup) /\ Len(m \o c) = Len(m) + Len(c)
        /\ \A i \in 1..Len(m) : (m \o c)[i] = m[i]
        /\ \A i \in 1..Len(c) : (m \o c)[Len(m) + i] = c[i]
    <3>1. m \in Seq(LibraryGroup) /\ c \in Seq(LibraryGroup)
          BY <2>2, <2>5
    <3> QED
        BY <3>1, Joined
  <2>7. k + (n - k) = n /\ k \in 1..k /\ \A i \in 1..(k - 1) : i \in 1..k
        BY <1>1
  <2> QED
      BY <2>1, <2>2, <2>3, <2>5, <2>6, <2>7
<1> HIDE DEF moved, n
<1>4. \A i \in 1..n : MovedFrom(j, k, i) \in 1..n /\ moved[i] = groups[MovedFrom(j, k, i)]
  <2>1. \A i \in 1..(n - 1) : rest[i] = IF i < j THEN groups[i] ELSE groups[i + 1]
    <3>1. ASSUME NEW i \in 1..(n - 1), ~ (i < j) PROVE rest[i] = groups[i + 1]
      <4>1. i - (j - 1) \in 1..(n - j) /\ (j - 1) + (i - (j - 1)) = i /\ j + (i - (j - 1)) = i + 1
            BY <1>1, <3>1
      <4> QED
          BY <1>2, <4>1
    <3>2. \A i \in 1..(n - 1) : i < j => i \in 1..(j - 1)
          BY <1>1
    <3> QED
        BY <1>2, <3>1, <3>2
  <2>2. \A i \in 1..n : i > k => moved[i] = rest[i - 1]
    <3>1. ASSUME NEW i \in 1..n, i > k PROVE moved[i] = rest[i - 1]
      <4>1. i - k \in 1..(n - k) /\ k + (i - k) = i /\ (k - 1) + (i - k) = i - 1
            BY <1>1, <3>1
      <4> QED
          BY <1>3, <4>1
    <3> QED
        BY <3>1
  <2>3. ASSUME NEW i \in 1..n
        PROVE  MovedFrom(j, k, i) \in 1..n /\ moved[i] = groups[MovedFrom(j, k, i)]
    <3>1. CASE i = k
          BY <1>1, <1>3, <3>1 DEF MovedFrom
    <3>2. CASE i < k
      <4>1. moved[i] = rest[i] /\ i \in 1..(n - 1)
            BY <1>1, <1>3, <3>2
      <4>2. rest[i] = IF i < j THEN groups[i] ELSE groups[i + 1]
            BY <2>1, <4>1
      <4> QED
          BY <1>1, <3>2, <4>1, <4>2 DEF MovedFrom
    <3>3. CASE i > k
      <4>3. i \in Nat /\ k \in Nat /\ i <= n /\ k >= 1
            BY <1>1
      <4>1. moved[i] = rest[i - 1] /\ i - 1 \in 1..(n - 1)
            BY <1>1, <2>2, <3>3, <4>3
      <4>2. rest[i - 1] = IF i - 1 < j THEN groups[i - 1] ELSE groups[(i - 1) + 1]
            BY <2>1, <4>1
      <4> QED
          BY <1>1, <3>3, <4>1, <4>2 DEF MovedFrom
    <3> QED
        BY <1>1, <3>1, <3>2, <3>3
  <2> QED
      BY <2>3
<1>5. \A i, l \in 1..n : MovedFrom(j, k, i) = MovedFrom(j, k, l) => i = l
      BY <1>1 DEF MovedFrom
<1>6. \A l \in 1..n : \E i \in 1..n : MovedFrom(j, k, i) = l
  <2>1. ASSUME NEW l \in 1..n
        PROVE  MovedFrom(k, j, l) \in 1..n /\ MovedFrom(j, k, MovedFrom(k, j, l)) = l
        BY <1>1 DEF MovedFrom
  <2> QED
      BY <2>1
<1>7. DOMAIN moved = 1..n
      BY <1>1, <1>3
<1>8. Distinct(moved)
      BY <1>1, <1>4, <1>5, <1>7 DEF Distinct
<1>9. LI!Ids(moved) = LI!Ids(groups)
  <2>1. LI!Ids(moved) \subseteq LI!Ids(groups)
        BY <1>1, <1>4, <1>7 DEF LI!Ids
  <2>2. ASSUME NEW l \in 1..n PROVE groups[l].id \in LI!Ids(moved)
    <3>1. PICK i \in 1..n : MovedFrom(j, k, i) = l
          BY <1>6
    <3>2. moved[i] = groups[l] /\ i \in DOMAIN moved
          BY <1>4, <1>7, <3>1
    <3> QED
        BY <3>2 DEF LI!Ids
  <2>3. LI!Ids(groups) \subseteq LI!Ids(moved)
        BY <1>1, <2>2 DEF LI!Ids
  <2> QED
      BY <2>1, <2>3
<1> QED
    BY <1>3, <1>8, <1>9 DEF moved, rest

-----------------------------------------------------------------------------
\* A library is open to be changed: no two groups of one name, only sections
\* folded that there are, no item outside them but those adrift.
LibraryFits(library, left) ==
    /\ library \in LI!LibraryType /\ Distinct(library.groups)
    /\ library.collapsed \subseteq {LI!Ungrouped} \cup LI!Ids(library.groups)
    /\ \A i \in {"i1"} \ left : library.items[i].group \in {None} \cup LI!Ids(library.groups)

\* The store's copy of it.
MirrorFits ==
    /\ v3 \in LI!LibraryType /\ v3.groups = v1.groups /\ v3.items = v1.items
    /\ v2 \subseteq {LI!Ungrouped, LI!Builtin} \cup Pair
    /\ v7 \in BOOLEAN /\ (v7 => v3.collapsed = LI!Merged(v1))

PanelFits ==
    /\ v4 \in [importTo : Pair \cup {None}, saveTo : Pair \cup {None}]
    /\ v5 \in [to : Pair \cup {None}, on : BOOLEAN]

FileFits == \E g, h \in Pair : v6 \in LI!Files(g, h)

LibraryInv ==
    LibraryFits(v1, v8) /\ v8 \subseteq {"i1"} /\ MirrorFits /\ PanelFits /\ FileFits

\* What the panel shows of a library.
LEMMA MergedFits ==
    ASSUME NEW d \in LI!LibraryType, v2 \subseteq {LI!Ungrouped, LI!Builtin} \cup Pair
    PROVE  /\ LI!Mirrored(d) \in LI!LibraryType
           /\ LI!Mirrored(d).groups = d.groups /\ LI!Mirrored(d).items = d.items
           /\ LI!Mirrored(d).collapsed = LI!Merged(d)
           /\ LI!Merged(d) \subseteq {LI!Ungrouped, LI!Builtin} \cup Pair
<1>1. LI!Merged(d) \subseteq {LI!Ungrouped, LI!Builtin} \cup Pair
      BY DEF LI!Merged, LI!MergeCollapsed, LI!LibraryType
<1>2. LI!Mirrored(d) = [d EXCEPT !.collapsed = LI!Merged(d)]
      BY DEF LI!Mirrored
<1> QED
    BY <1>1, <1>2 DEF LI!LibraryType

\* commit without collapsed
LEMMA CommitFits ==
    ASSUME LibraryInv, NEW d, LI!Commit(d), LibraryFits(d, v8') PROVE LibraryFits(v1, v8)' /\ MirrorFits'
<1>1. v1' = d /\ v3' = LI!Mirrored(d) /\ v7' = TRUE /\ v2' = v2
      BY DEF LI!Commit
<1>2. LI!Merged(v1)' = LI!Merged(d)
      BY <1>1 DEF LI!Merged
<1>3. d \in LI!LibraryType /\ v2 \subseteq {LI!Ungrouped, LI!Builtin} \cup Pair
      BY DEF LibraryInv, LibraryFits, MirrorFits
<1>4. MirrorFits'
      BY <1>1, <1>2, <1>3, MergedFits DEF MirrorFits, LI!LibraryType
<1> QED
    BY <1>1, <1>4 DEF LibraryFits, LI!LibraryType

\* commit with collapsed
LEMMA FoldedFits ==
    ASSUME LibraryInv, NEW d, NEW keys, LI!CommitFolded(d, keys),
           d \in LI!LibraryType, Distinct(d.groups),
           keys \subseteq {LI!Builtin, LI!Ungrouped} \cup LI!Ids(d.groups),
           \A i \in {"i1"} \ v8' : d.items[i].group \in {None} \cup LI!Ids(d.groups)
    PROVE  LibraryFits(v1, v8)' /\ MirrorFits'
<1> DEFINE pm == [d EXCEPT !.collapsed = keys \ {LI!Builtin}]
           mi == [d EXCEPT !.collapsed = keys]
<1>1. v1' = pm /\ v3' = mi /\ v7' = TRUE /\ v2' = keys
      BY DEF LI!CommitFolded
<1>2. LI!Ids(d.groups) \subseteq Pair
  <2>1. d.groups \in Seq([id : Pair, name : {"valve", "pump"} \X (1 .. 9)])
        BY DEF LI!LibraryType
  <2>2. \A gs \in Seq(LibraryGroup) : \A k \in DOMAIN gs : gs[k] \in LibraryGroup
        OBVIOUS
  <2>3. \A g \in LibraryGroup : g.id \in Pair
        BY DEF LibraryGroup
  <2>4. d.groups \in Seq(LibraryGroup)
        BY <2>1 DEF LibraryGroup
  <2> QED
      BY <2>2, <2>3, <2>4 DEF LI!Ids
<1>3. /\ pm \in LI!LibraryType /\ pm.groups = d.groups /\ pm.items = d.items
      /\ pm.collapsed = keys \ {LI!Builtin}
      /\ mi \in LI!LibraryType /\ mi.groups = d.groups /\ mi.items = d.items
      /\ mi.collapsed = keys
      BY <1>2 DEF LI!LibraryType
<1> HIDE DEF pm, mi
<1>4. LI!Merged(v1)' = keys
      BY <1>1, <1>3 DEF LI!Merged, LI!MergeCollapsed
<1>5. MirrorFits'
      BY <1>1, <1>2, <1>3, <1>4 DEF MirrorFits, LI!LibraryType
<1>6. pm.collapsed \subseteq {LI!Ungrouped} \cup LI!Ids(d.groups)
      BY <1>3
<1>7. LibraryFits(pm, v8')
      BY <1>3, <1>6 DEF LibraryFits
<1> QED
    BY <1>1, <1>5, <1>7 DEF LibraryFits, LI!LibraryType

\* A project is opened.
LEMMA OpenedFits ==
    ASSUME LibraryInv, NEW d, LI!FullProject(d), LibraryFits(d, {})
    PROVE  LibraryFits(v1, v8)' /\ v8' = {} /\ MirrorFits'
<1>1. v1' = d /\ v3' = LI!Mirrored(d) /\ v7' = TRUE /\ v2' = LI!Merged(d) /\ v8' = {}
      BY DEF LI!FullProject
<1>2. d \in LI!LibraryType /\ v2 \subseteq {LI!Ungrouped, LI!Builtin} \cup Pair
      BY DEF LibraryInv, LibraryFits, MirrorFits
<1>3. LI!Merged(v1)' = LI!Merged(d)
  <2>1. LI!Merged(v1)' = d.collapsed \cup
           (v2' \cap ({LI!Builtin, LI!Ungrouped} \cup LI!Ids(d.groups)))
        BY <1>1 DEF LI!Merged, LI!MergeCollapsed
  <2>2. LI!Merged(d) = d.collapsed \cup
           (v2 \cap ({LI!Builtin, LI!Ungrouped} \cup LI!Ids(d.groups)))
        BY DEF LI!Merged, LI!MergeCollapsed
  <2> QED
      BY <1>1, <2>1, <2>2
<1>4. MirrorFits'
      BY <1>1, <1>2, <1>3, MergedFits DEF MirrorFits, LI!LibraryType
<1> QED
    BY <1>1, <1>4 DEF LibraryFits, LI!LibraryType

LEMMA NormalizedFits ==
    ASSUME NEW d \in LI!LibraryType,
           LI!Renamed(d.groups) \in Seq(LibraryGroup), Distinct(LI!Renamed(d.groups))
    PROVE  LibraryFits(LI!Normalized(d), {})
<1> DEFINE gs == LI!Renamed(d.groups)
           its == [i \in {"i1"} |-> IF d.items[i].group \in LI!Ids(gs) THEN d.items[i]
                                    ELSE [d.items[i] EXCEPT !.group = None]]
           folded == d.collapsed \cap ({LI!Ungrouped} \cup LI!Ids(gs))
<1>1. LI!Normalized(d) = [groups |-> gs, items |-> its, collapsed |-> folded]
      BY DEF LI!Normalized
<1>2. its \in [{"i1"} -> {LI!Absent} \cup [group : Pair \cup {None}, edits : 0 .. 1]]
  <2>1. d.items["i1"] \in {LI!Absent} \cup [group : Pair \cup {None}, edits : 0 .. 1]
        BY DEF LI!LibraryType
  <2>2. [d.items["i1"] EXCEPT !.group = None]
           \in {LI!Absent} \cup [group : Pair \cup {None}, edits : 0 .. 1]
    <3>1. CASE d.items["i1"] = LI!Absent
          BY <3>1 DEF LI!Absent
    <3>2. CASE d.items["i1"] \in [group : Pair \cup {None}, edits : 0 .. 1]
          BY <3>2
    <3> QED
        BY <2>1, <3>1, <3>2
  <2> HIDE DEF gs
  <2> QED
      BY <2>1, <2>2
<1>3. \A i \in {"i1"} : its[i].group \in {None} \cup LI!Ids(gs)
  <2>1. d.items["i1"] \in {LI!Absent} \cup [group : Pair \cup {None}, edits : 0 .. 1]
        BY DEF LI!LibraryType
  <2>2. [d.items["i1"] EXCEPT !.group = None].group = None
        BY <2>1 DEF LI!Absent
  <2> HIDE DEF gs
  <2> QED
      BY <2>2
<1>4. folded \in SUBSET ({LI!Ungrouped, LI!Builtin} \cup Pair)
      BY DEF LI!LibraryType
<1>5. gs \in Seq([id : Pair, name : {"valve", "pump"} \X (1 .. 9)])
      BY DEF LibraryGroup
<1>6. folded \subseteq {LI!Ungrouped} \cup LI!Ids(gs) /\ Distinct(gs)
      OBVIOUS
<1> HIDE DEF gs, its, folded
<1> QED
    BY <1>1, <1>2, <1>3, <1>4, <1>5, <1>6 DEF LibraryFits, LI!LibraryType

LEMMA FilesFit ==
    ASSUME FileFits
    PROVE  /\ v6 \in LI!LibraryType
           /\ LI!Renamed(v6.groups) \in Seq(LibraryGroup) /\ Distinct(LI!Renamed(v6.groups))
<1>1. PICK g, h \in Pair : v6 \in LI!Files(g, h)
      BY DEF FileFits
<1> DEFINE x == [id |-> g, name |-> <<"valve", 1>>]
           y == [id |-> h, name |-> <<"valve", 1>>]
           its(k) == [i \in {"i1"} |-> [group |-> k, edits |-> 0]]
<1>2. x \in LibraryGroup /\ y \in LibraryGroup /\ x.name = Valve /\ y.name = Valve
  <2>1. <<"valve", 1>> \in {"valve", "pump"} \X (1 .. 9)
        OBVIOUS
  <2> QED
      BY <2>1 DEF LibraryGroup, Valve
<1>3. \/ v6 = [groups |-> <<>>, items |-> [i \in {"i1"} |-> LI!Absent], collapsed |-> {}]
      \/ v6 = [groups |-> <<x, y>>, items |-> its(g), collapsed |-> {LI!Ungrouped, h}]
      \/ v6 = [groups |-> <<x>>, items |-> its(h), collapsed |-> {LI!Builtin, h}]
      BY <1>1 DEF LI!Files, LI!NoFile
<1>5. /\ v6.groups \in Seq(LibraryGroup) /\ Len(v6.groups) <= 2
      /\ \A k \in DOMAIN v6.groups : v6.groups[k].name = Valve
  <2>1. v6.groups = <<>> \/ v6.groups = <<x, y>> \/ v6.groups = <<x>>
        BY <1>3
  <2> HIDE DEF x, y
  <2>2. CASE v6.groups = <<>>
        BY <2>2
  <2>3. CASE v6.groups = <<x>>
    <3>1. <<x>> \in Seq(LibraryGroup) /\ Len(<<x>>) = 1
          BY <1>2
    <3>2. \A k \in 1..1 : <<x>>[k] = x
          OBVIOUS
    <3> QED
        BY <1>2, <2>3, <3>1, <3>2
  <2>4. CASE v6.groups = <<x, y>>
    <3>1. <<x, y>> \in Seq(LibraryGroup) /\ Len(<<x, y>>) = 2
          BY <1>2
    <3>2. \A k \in 1..2 : <<x, y>>[k] = x \/ <<x, y>>[k] = y
          OBVIOUS
    <3> QED
        BY <1>2, <2>4, <3>1, <3>2
  <2> QED
      BY <2>1, <2>2, <2>3, <2>4
<1>6. /\ v6.items \in [{"i1"} -> {LI!Absent} \cup [group : Pair \cup {None}, edits : 0 .. 1]]
      /\ v6.collapsed \subseteq {LI!Ungrouped, LI!Builtin} \cup Pair
      /\ v6 = [groups |-> v6.groups, items |-> v6.items, collapsed |-> v6.collapsed]
      BY <1>1, <1>3
<1>7. v6 \in LI!LibraryType
      BY <1>5, <1>6 DEF LI!LibraryType, LibraryGroup
<1> QED
    BY <1>5, <1>7, RenamedApart

-----------------------------------------------------------------------------
(* What the library does.                                                    *)

LEMMA LibraryStart == ASSUME LI!Init PROVE LibraryInv
<1>1. /\ v1 = LI!NoFile /\ v3 = LI!NoFile /\ v2 \in {{}, {LI!Builtin, LI!Ungrouped}} /\ v7 = FALSE
      /\ v4 = [importTo |-> None, saveTo |-> None] /\ v5 = LI!NotReading
      /\ FileFits /\ v8 = {}
      BY DEF LI!Init, FileFits
<1>2. LI!NoFile \in LI!LibraryType
  <2>1. <<>> \in Seq([id : Pair, name : {"valve", "pump"} \X (1 .. 9)])
        OBVIOUS
  <2> QED
      BY <2>1 DEF LI!NoFile, LI!LibraryType, LI!Absent
<1>3. LibraryFits(v1, v8)
      BY <1>1, <1>2 DEF LibraryFits, Distinct, LI!NoFile, LI!Absent
<1>4. MirrorFits
      BY <1>1, <1>2 DEF MirrorFits
<1>5. PanelFits
      BY <1>1 DEF PanelFits, LI!NotReading
<1> QED
    BY <1>1, <1>3, <1>4, <1>5 DEF LibraryInv

\* A card's item is one of a group or of none.
CardOf == [group : Pair \cup {None}, edits : 0 .. 1]

LEMMA LibraryParts ==
    ASSUME LibraryInv
    PROVE  /\ v1 \in LI!LibraryType /\ v1.groups \in Seq(LibraryGroup) /\ Distinct(v1.groups)
           /\ v1.items \in [{"i1"} -> {LI!Absent} \cup CardOf]
           /\ v1.collapsed \subseteq {LI!Ungrouped} \cup LI!Ids(v1.groups)
           /\ LI!Ids(v1.groups) \subseteq Pair
<1>1. v1 \in LI!LibraryType /\ v1.groups \in Seq(LibraryGroup)
      BY DEF LibraryInv, LibraryFits, LI!LibraryType, LibraryGroup
<1>2. v1.items \in [{"i1"} -> {LI!Absent} \cup CardOf]
      BY <1>1 DEF LI!LibraryType, CardOf
<1>3. LI!Ids(v1.groups) \subseteq Pair
  <2>1. \A gs \in Seq(LibraryGroup) : \A k \in DOMAIN gs : gs[k] \in LibraryGroup
        OBVIOUS
  <2>2. \A g \in LibraryGroup : g.id \in Pair
        BY DEF LibraryGroup
  <2> QED
      BY <1>1, <2>1, <2>2 DEF LI!Ids
<1> QED
    BY <1>1, <1>2, <1>3 DEF LibraryInv, LibraryFits

\* The item is another, the groups and what is folded are not.
LEMMA ItemFits ==
    ASSUME LibraryInv, NEW x \in {LI!Absent} \cup CardOf, NEW left,
           "i1" \in left \/ x.group \in {None} \cup LI!Ids(v1.groups)
    PROVE  LibraryFits([v1 EXCEPT !.items["i1"] = x], left)
<1> DEFINE d == [v1 EXCEPT !.items["i1"] = x]
<1>1. /\ v1 \in LI!LibraryType /\ Distinct(v1.groups)
      /\ v1.items \in [{"i1"} -> {LI!Absent} \cup CardOf]
      /\ v1.collapsed \subseteq {LI!Ungrouped} \cup LI!Ids(v1.groups)
      BY LibraryParts
<1>2. /\ d \in LI!LibraryType /\ d.groups = v1.groups /\ d.collapsed = v1.collapsed
      /\ d.items = [v1.items EXCEPT !["i1"] = x]
      BY <1>1 DEF LI!LibraryType, CardOf
<1>3. d.items["i1"] = x
      BY <1>1, <1>2
<1> HIDE DEF d
<1>4. LibraryFits(d, left)
      BY <1>1, <1>2, <1>3 DEF LibraryFits
<1> QED
    BY <1>4 DEF d

\* The groups are others, and every item keeps a section.
LEMMA GroupsFit ==
    ASSUME LibraryInv, NEW gs \in Seq(LibraryGroup), Distinct(gs),
           LI!Ids(v1.groups) \subseteq LI!Ids(gs)
    PROVE  LibraryFits([v1 EXCEPT !.groups = gs], v8)
<1> DEFINE d == [v1 EXCEPT !.groups = gs]
<1>1. /\ v1 \in LI!LibraryType
      /\ v1.collapsed \subseteq {LI!Ungrouped} \cup LI!Ids(v1.groups)
      /\ \A i \in {"i1"} \ v8 : v1.items[i].group \in {None} \cup LI!Ids(v1.groups)
      BY LibraryParts DEF LibraryInv, LibraryFits
<1>2. /\ d \in LI!LibraryType /\ d.groups = gs /\ d.collapsed = v1.collapsed
      /\ d.items = v1.items
      BY <1>1 DEF LI!LibraryType, LibraryGroup
<1> HIDE DEF d
<1>3. LibraryFits(d, v8)
      BY <1>1, <1>2 DEF LibraryFits
<1> QED
    BY <1>3 DEF d

\* An item is added where the panel says: it may drift.
LEMMA AddItemFits ==
    ASSUME LibraryInv, NEW i \in {"i1"}, NEW g \in Pair \cup {None}, LI!AddItem(i, g)
    PROVE  LibraryFits(v1, v8)' /\ MirrorFits' /\ v8' \subseteq {"i1"}
<1> DEFINE x == [group |-> g, edits |-> 0]
<1>1. /\ LI!Commit([v1 EXCEPT !.items[i] = x])
      /\ v8' = IF g \in {None} \cup LI!Ids(v1.groups) THEN v8 ELSE v8 \cup {i}
      BY DEF LI!AddItem
<1>2. x \in CardOf /\ x.group = g
      BY DEF CardOf
<1>3. "i1" \in v8' \/ x.group \in {None} \cup LI!Ids(v1.groups)
      BY <1>1, <1>2
<1> HIDE DEF x
<1>4. LibraryFits([v1 EXCEPT !.items["i1"] = x], v8')
      BY <1>2, <1>3, ItemFits
<1>5. LibraryFits(v1, v8)' /\ MirrorFits'
      BY <1>1, <1>4, CommitFits
<1>6. v8' \subseteq {"i1"}
      BY <1>1 DEF LibraryInv
<1> QED
    BY <1>5, <1>6

LEMMA SaveSelectionFits ==
    ASSUME LibraryInv, NEW i \in {"i1"}, LI!SaveSelectionToLibrary(i) PROVE LibraryInv'
<1>1. /\ LI!AddItem(i, v4.saveTo) /\ v4' = [v4 EXCEPT !.saveTo = None]
      /\ v5' = v5 /\ v6' = v6
      BY DEF LI!SaveSelectionToLibrary
<1>2. v4.saveTo \in Pair \cup {None} /\ PanelFits'
      BY <1>1 DEF LibraryInv, PanelFits
<1>3. LibraryFits(v1, v8)' /\ MirrorFits' /\ v8' \subseteq {"i1"}
      BY <1>1, <1>2, AddItemFits
<1> QED
    BY <1>1, <1>2, <1>3 DEF LibraryInv, FileFits

LEMMA SvgReadFits ==
    ASSUME LibraryInv, NEW i \in {"i1"}, LI!SvgRead(i) PROVE LibraryInv'
<1>1. LI!AddItem(i, v5.to) /\ v5' = LI!NotReading /\ v4' = v4 /\ v6' = v6
      BY DEF LI!SvgRead
<1>2. v5.to \in Pair \cup {None} /\ PanelFits'
      BY <1>1 DEF LibraryInv, PanelFits, LI!NotReading
<1>3. LibraryFits(v1, v8)' /\ MirrorFits' /\ v8' \subseteq {"i1"}
      BY <1>1, <1>2, AddItemFits
<1> QED
    BY <1>1, <1>2, <1>3 DEF LibraryInv, FileFits

\* What only the panel and the reader keep.
LEMMA PanelChanges ==
    ASSUME LibraryInv, PanelFits', UNCHANGED <<v1, v2, v3, v6, v7, v8>> PROVE LibraryInv'
<1>1. LI!Merged(v1)' = LI!Merged(v1)
      BY DEF LI!Merged
<1>2. MirrorFits'
      BY <1>1 DEF LibraryInv, MirrorFits, LI!LibraryType
<1> QED
    BY <1>2 DEF LibraryInv, FileFits, LibraryFits, LI!LibraryType

LEMMA PanelStepFits ==
    ASSUME LibraryInv, LI!ImportSvgToLibrary \/ LI!SvgRefused \/ \E g \in Pair \cup {None} : LI!ChooseGroup(g)
    PROVE  LibraryInv'
<1>1. PanelFits
      BY DEF LibraryInv
<1>2. CASE LI!ImportSvgToLibrary
  <2>1. PanelFits'
        BY <1>1, <1>2 DEF PanelFits, LI!ImportSvgToLibrary
  <2> QED
      BY <1>2, <2>1, PanelChanges DEF LI!ImportSvgToLibrary
<1>3. CASE LI!SvgRefused
  <2>1. PanelFits'
        BY <1>1, <1>3 DEF PanelFits, LI!SvgRefused, LI!NotReading
  <2> QED
      BY <1>3, <2>1, PanelChanges DEF LI!SvgRefused
<1>4. ASSUME NEW g \in Pair \cup {None}, LI!ChooseGroup(g) PROVE LibraryInv'
  <2>1. PanelFits'
        BY <1>1, <1>4 DEF PanelFits, LI!ChooseGroup
  <2> QED
      BY <1>4, <2>1, PanelChanges DEF LI!ChooseGroup
<1> QED
    BY <1>2, <1>3, <1>4

\* A change of the library that leaves the panel alone.
LEMMA OthersStand ==
    ASSUME LibraryInv, LibraryFits(v1, v8)', MirrorFits', v8' \subseteq {"i1"},
           v4' = v4, v5' = v5, v6' = v6
    PROVE  LibraryInv'
BY DEF LibraryInv, PanelFits, FileFits

LEMMA CardFits ==
    ASSUME LibraryInv, NEW i \in {"i1"}, LI!Card(i)
    PROVE  v1.items[i] \in CardOf /\ v1.items[i].group \in {None} \cup LI!Ids(v1.groups)
BY LibraryParts DEF LI!Card, LI!Items

LEMMA ChangeItemFits ==
    ASSUME LibraryInv, NEW i \in {"i1"}, LI!ChangeItem(i) PROVE LibraryInv'
<1>1. /\ LI!Card(i) /\ v1.items[i].edits < 1 /\ v4' = v4 /\ v5' = v5 /\ v6' = v6 /\ v8' = v8
      /\ LI!Commit([v1 EXCEPT !.items[i].edits = @ + 1])
      BY DEF LI!ChangeItem
<1>2. v1.items[i] \in CardOf /\ v1.items[i].group \in {None} \cup LI!Ids(v1.groups)
      BY <1>1, CardFits
<1> DEFINE x == [v1.items[i] EXCEPT !.edits = @ + 1]
<1>3. x \in CardOf /\ x.group = v1.items[i].group
      BY <1>1, <1>2 DEF CardOf
<1>4. [v1 EXCEPT !.items[i].edits = @ + 1] = [v1 EXCEPT !.items["i1"] = x]
      OBVIOUS
<1> HIDE DEF x
<1>5. LibraryFits([v1 EXCEPT !.items["i1"] = x], v8')
      BY <1>2, <1>3, ItemFits
<1>6. LibraryFits(v1, v8)' /\ MirrorFits'
      BY <1>1, <1>4, <1>5, CommitFits
<1> QED
    BY <1>1, <1>6, OthersStand DEF LibraryInv

LEMMA DeleteItemFits ==
    ASSUME LibraryInv, NEW i \in {"i1"}, LI!DeleteItem(i) PROVE LibraryInv'
<1>1. /\ v4' = v4 /\ v5' = v5 /\ v6' = v6 /\ v8' = v8 \ {i}
      /\ LI!Commit([v1 EXCEPT !.items[i] = LI!Absent])
      BY DEF LI!DeleteItem
<1>2. LI!Absent.group \in {None} \cup LI!Ids(v1.groups)
      BY DEF LI!Absent
<1>3. LibraryFits([v1 EXCEPT !.items["i1"] = LI!Absent], v8')
      BY <1>2, ItemFits
<1>4. LibraryFits(v1, v8)' /\ MirrorFits'
      BY <1>1, <1>3, CommitFits
<1> QED
    BY <1>1, <1>4, OthersStand DEF LibraryInv

LEMMA MoveItemFits ==
    ASSUME LibraryInv, NEW i \in {"i1"}, NEW g \in Pair \cup {None}, LI!MoveItemToGroup(i, g)
    PROVE  LibraryInv'
<1>1. /\ LI!Card(i) /\ v4' = v4 /\ v5' = v5 /\ v6' = v6 /\ v8' = v8
      /\ g \in {None} \cup LI!Ids(v1.groups)
      /\ LI!Commit([v1 EXCEPT !.items[i].group = g])
      BY DEF LI!MoveItemToGroup
<1>2. v1.items[i] \in CardOf
      BY <1>1, CardFits
<1> DEFINE x == [v1.items[i] EXCEPT !.group = g]
<1>3. x \in CardOf /\ x.group = g
      BY <1>2 DEF CardOf
<1>4. [v1 EXCEPT !.items[i].group = g] = [v1 EXCEPT !.items["i1"] = x]
      OBVIOUS
<1> HIDE DEF x
<1>5. LibraryFits([v1 EXCEPT !.items["i1"] = x], v8')
      BY <1>1, <1>3, ItemFits
<1>6. LibraryFits(v1, v8)' /\ MirrorFits'
      BY <1>1, <1>4, <1>5, CommitFits
<1> QED
    BY <1>1, <1>6, OthersStand DEF LibraryInv

LEMMA AddGroupFits ==
    ASSUME LibraryInv, NEW g \in Pair, NEW title \in {"valve", "pump"}, LI!AddGroup(g, title)
    PROVE  LibraryInv'
<1> DEFINE x == [id |-> g, name |-> <<title, 1>>]
<1>1. /\ LI!NameFree(<<title, 1>>) /\ v4' = v4 /\ v5' = v5 /\ v6' = v6 /\ v8' = v8
      /\ LI!Commit([v1 EXCEPT !.groups = Append(v1.groups, x)])
      BY DEF LI!AddGroup
<1>2. x \in LibraryGroup /\ x.name = <<title, 1>>
      BY DEF LibraryGroup
<1>3. x.name \notin LI!Named(v1.groups)
      BY <1>1, <1>2 DEF LI!NameFree
<1> HIDE DEF x
<1>4. /\ Append(v1.groups, x) \in Seq(LibraryGroup) /\ Distinct(Append(v1.groups, x))
      /\ LI!Ids(v1.groups) \subseteq LI!Ids(Append(v1.groups, x))
      BY <1>2, <1>3, AppendNames, LibraryParts
<1>5. LibraryFits([v1 EXCEPT !.groups = Append(v1.groups, x)], v8')
      BY <1>1, <1>4, GroupsFit
<1>6. LibraryFits(v1, v8)' /\ MirrorFits'
      BY <1>1, <1>5, CommitFits
<1> QED
    BY <1>1, <1>6, OthersStand DEF LibraryInv

LEMMA RenameGroupFits ==
    ASSUME LibraryInv, NEW k \in DOMAIN v1.groups, NEW title \in {"valve", "pump"},
           LI!RenameGroup(k, title)
    PROVE  LibraryInv'
<1> DEFINE gs == [v1.groups EXCEPT ![k].name = <<title, 1>>]
<1>1. /\ LI!NameFree(<<title, 1>>) /\ v4' = v4 /\ v5' = v5 /\ v6' = v6 /\ v8' = v8
      /\ LI!Commit([v1 EXCEPT !.groups[k].name = <<title, 1>>])
      BY DEF LI!RenameGroup
<1>2. v1.groups \in Seq(LibraryGroup) /\ Distinct(v1.groups)
      BY LibraryParts
<1> DEFINE y == [v1.groups[k] EXCEPT !.name = <<title, 1>>]
<1>3. y \in LibraryGroup /\ y.id = v1.groups[k].id /\ y.name = <<title, 1>>
  <2>1. v1.groups[k] \in LibraryGroup /\ <<title, 1>> \in {"valve", "pump"} \X (1 .. 9)
        BY <1>2
  <2> QED
      BY <2>1 DEF LibraryGroup
<1>4. gs = [v1.groups EXCEPT ![k] = y]
      OBVIOUS
<1> HIDE DEF y
<1>5. /\ gs \in Seq(LibraryGroup) /\ DOMAIN gs = DOMAIN v1.groups /\ gs[k] = y
      /\ \A j \in DOMAIN v1.groups : j # k => gs[j] = v1.groups[j]
      BY <1>2, <1>3, <1>4
<1>6. \A j \in DOMAIN v1.groups : v1.groups[j].name # <<title, 1>>
      BY <1>1 DEF LI!NameFree, LI!Named
<1>10. [v1 EXCEPT !.groups[k].name = <<title, 1>>] = [v1 EXCEPT !.groups = gs]
      OBVIOUS
<1> HIDE DEF gs
<1>7. Distinct(gs)
      BY <1>2, <1>3, <1>5, <1>6 DEF Distinct
<1>8. \A j \in DOMAIN v1.groups : gs[j].id = v1.groups[j].id
      BY <1>3, <1>5
<1>9. LI!Ids(v1.groups) \subseteq LI!Ids(gs)
      BY <1>5, <1>8 DEF LI!Ids
<1>11. LibraryFits([v1 EXCEPT !.groups = gs], v8')
      BY <1>1, <1>5, <1>7, <1>9, GroupsFit
<1>12. LibraryFits(v1, v8)' /\ MirrorFits'
      BY <1>1, <1>10, <1>11, CommitFits
<1> QED
    BY <1>1, <1>12, OthersStand DEF LibraryInv

LEMMA MoveGroupFits ==
    ASSUME LibraryInv, NEW j \in DOMAIN v1.groups, NEW k \in DOMAIN v1.groups, LI!MoveGroup(j, k)
    PROVE  LibraryInv'
<1> DEFINE gs == LI!InsertAt(LI!RemoveAt(v1.groups, j), k, v1.groups[j])
<1>1. /\ v4' = v4 /\ v5' = v5 /\ v6' = v6 /\ v8' = v8
      /\ LI!Commit([v1 EXCEPT !.groups = gs])
      BY DEF LI!MoveGroup
<1>2. gs \in Seq(LibraryGroup) /\ Distinct(gs) /\ LI!Ids(gs) = LI!Ids(v1.groups)
  <2>1. v1.groups \in Seq(LibraryGroup) /\ Distinct(v1.groups)
        BY LibraryParts
  <2> QED
      BY <2>1, MovedAre
<1> HIDE DEF gs
<1>3. LibraryFits([v1 EXCEPT !.groups = gs], v8')
      BY <1>1, <1>2, GroupsFit
<1>4. LibraryFits(v1, v8)' /\ MirrorFits'
      BY <1>1, <1>3, CommitFits
<1> QED
    BY <1>1, <1>4, OthersStand DEF LibraryInv

LEMMA DeleteGroupFits ==
    ASSUME LibraryInv, NEW g \in Pair, LI!DeleteGroup(g) PROVE LibraryInv'
<1> DEFINE d == LI!Without(v1, g)
           gs == LI!Others(v1.groups, g)
           its == [i \in {"i1"} |-> IF v1.items[i].group = g THEN [v1.items[i] EXCEPT !.group = None]
                                    ELSE v1.items[i]]
           keys == LI!Merged(v1) \ {g}
<1>1. /\ v4' = v4 /\ v5' = v5 /\ v6' = v6 /\ v8' = v8 /\ LI!CommitFolded(d, keys)
      BY DEF LI!DeleteGroup
<1>2. d = [v1 EXCEPT !.groups = gs, !.items = its]
      BY DEF LI!Without
<1>3. /\ gs \in Seq(LibraryGroup) /\ Distinct(gs) /\ LI!Ids(gs) = LI!Ids(v1.groups) \ {g}
      BY LibraryParts, OthersAre
<1>4. its \in [{"i1"} -> {LI!Absent} \cup CardOf]
  <2>1. v1.items["i1"] \in {LI!Absent} \cup CardOf
        BY LibraryParts
  <2>2. [v1.items["i1"] EXCEPT !.group = None] \in {LI!Absent} \cup CardOf
    <3>1. CASE v1.items["i1"] = LI!Absent
          BY <3>1 DEF LI!Absent
    <3>2. CASE v1.items["i1"] \in CardOf
          BY <3>2 DEF CardOf
    <3> QED
        BY <2>1, <3>1, <3>2
  <2> QED
      BY <2>1, <2>2
<1>5. \A i \in {"i1"} \ v8 : its[i].group \in {None} \cup LI!Ids(gs)
  <2>1. SUFFICES ASSUME "i1" \notin v8 PROVE its["i1"].group \in {None} \cup LI!Ids(gs)
        OBVIOUS
  <2>2. v1.items["i1"].group \in {None} \cup LI!Ids(v1.groups)
        BY <2>1 DEF LibraryInv, LibraryFits
  <2>3. its["i1"].group = None \/ (its["i1"].group = v1.items["i1"].group /\ its["i1"].group # g)
        BY LibraryParts DEF LI!Absent, CardOf
  <2> HIDE DEF its, gs
  <2> QED
      BY <1>3, <2>2, <2>3
<1>6. keys \subseteq {LI!Builtin, LI!Ungrouped} \cup LI!Ids(gs)
  <2>1. LI!Merged(v1) \subseteq {LI!Builtin, LI!Ungrouped} \cup LI!Ids(v1.groups)
        BY LibraryParts DEF LI!Merged, LI!MergeCollapsed
  <2> HIDE DEF gs
  <2> QED
      BY <1>3, <2>1
<1> HIDE DEF its, gs, keys
<1>7. /\ d \in LI!LibraryType /\ d.groups = gs /\ d.items = its
      BY <1>2, <1>3, <1>4, LibraryParts DEF LI!LibraryType, LibraryGroup, CardOf
<1> HIDE DEF d
<1>8. LibraryFits(v1, v8)' /\ MirrorFits'
      BY <1>1, <1>3, <1>5, <1>6, <1>7, FoldedFits
<1> QED
    BY <1>1, <1>8, OthersStand DEF LibraryInv

LEMMA ToggleFits == ASSUME LibraryInv, NEW key, LI!ToggleCollapsed(key) PROVE LibraryInv'
<1> DEFINE keys == IF key \in LI!Merged(v1) THEN LI!Merged(v1) \ {key} ELSE LI!Merged(v1) \cup {key}
<1>1. /\ key \in {LI!Builtin, LI!Ungrouped} \cup LI!Ids(v1.groups)
      /\ v4' = v4 /\ v5' = v5 /\ v6' = v6 /\ v8' = v8
      /\ IF key = LI!Builtin
         THEN /\ v2' = keys /\ v3' = [v1 EXCEPT !.collapsed = keys]
              /\ v7' = TRUE /\ v1' = v1
         ELSE LI!CommitFolded(v1, keys)
      BY DEF LI!ToggleCollapsed
<1>2. LI!Merged(v1) \subseteq {LI!Builtin, LI!Ungrouped} \cup LI!Ids(v1.groups)
      BY LibraryParts DEF LI!Merged, LI!MergeCollapsed
<1>3. keys \subseteq {LI!Builtin, LI!Ungrouped} \cup LI!Ids(v1.groups)
      BY <1>1, <1>2
<1>4. \A i \in {"i1"} \ v8' : v1.items[i].group \in {None} \cup LI!Ids(v1.groups)
      BY <1>1 DEF LibraryInv, LibraryFits
<1>5. CASE key = LI!Builtin
  <2> DEFINE mi == [v1 EXCEPT !.collapsed = keys]
  <2>1. v1.collapsed \subseteq keys
    <3>1. v1.collapsed \subseteq LI!Merged(v1)
          BY DEF LI!Merged, LI!MergeCollapsed
    <3>2. key \notin v1.collapsed
      <4>1. LI!Builtin # LI!Ungrouped
            BY DEF LI!Builtin, LI!Ungrouped
      <4>2. LI!Builtin \notin Pair
            BY EditorAssumption
      <4> QED
          BY <1>5, <4>1, <4>2, LibraryParts
    <3> QED
        BY <3>1, <3>2
  <2>2. v1' = v1 /\ v2' = keys /\ v3' = mi /\ v7' = TRUE
        BY <1>1, <1>5
  <2>3. keys \in SUBSET ({LI!Ungrouped, LI!Builtin} \cup Pair)
        BY <1>3, LibraryParts
  <2> HIDE DEF keys
  <2>4. LI!Merged(v1)' = keys
        BY <1>3, <2>1, <2>2 DEF LI!Merged, LI!MergeCollapsed
  <2>5. mi \in LI!LibraryType /\ mi.groups = v1.groups /\ mi.items = v1.items /\ mi.collapsed = keys
        BY <2>3, LibraryParts DEF LI!LibraryType
  <2> HIDE DEF mi
  <2>6. MirrorFits'
        BY <2>2, <2>3, <2>4, <2>5 DEF MirrorFits, LI!LibraryType
  <2>7. LibraryFits(v1, v8)'
        BY <1>1, <2>2 DEF LibraryInv, LibraryFits, LI!LibraryType
  <2> QED
      BY <1>1, <2>6, <2>7, OthersStand DEF LibraryInv
<1>6. CASE key # LI!Builtin
  <2>1. LibraryFits(v1, v8)' /\ MirrorFits'
    <3> HIDE DEF keys
    <3> QED
        BY <1>1, <1>3, <1>4, <1>6, LibraryParts, FoldedFits
  <2> QED
      BY <1>1, <2>1, OthersStand DEF LibraryInv
<1> QED
    BY <1>5, <1>6

LEMMA ProjectStepFits ==
    ASSUME LibraryInv, LI!NewProject \/ LI!OpenProject \/ LI!ReloadTab PROVE LibraryInv'
<1>1. CASE LI!NewProject
  <2>1. LI!FullProject(LI!NoFile) /\ v4' = v4 /\ v5' = v5 /\ v6' = v6
        BY <1>1 DEF LI!NewProject
  <2>2. LibraryFits(LI!NoFile, {})
    <3>1. <<>> \in Seq([id : Pair, name : {"valve", "pump"} \X (1 .. 9)])
          OBVIOUS
    <3> QED
        BY <3>1 DEF LibraryFits, Distinct, LI!NoFile, LI!LibraryType, LI!Absent
  <2>3. LibraryFits(v1, v8)' /\ v8' = {} /\ MirrorFits'
        BY <2>1, <2>2, OpenedFits
  <2> QED
      BY <2>1, <2>3, OthersStand
<1>2. CASE LI!OpenProject
  <2>1. LI!FullProject(LI!Normalized(v6)) /\ v4' = v4 /\ v5' = v5 /\ v6' = v6
        BY <1>2 DEF LI!OpenProject
  <2>2. LibraryFits(LI!Normalized(v6), {})
        BY FilesFit, NormalizedFits DEF LibraryInv
  <2>3. LibraryFits(v1, v8)' /\ v8' = {} /\ MirrorFits'
        BY <2>1, <2>2, OpenedFits
  <2> QED
      BY <2>1, <2>3, OthersStand
<1>3. CASE LI!ReloadTab
  <2>1. /\ LI!FullProject(LI!Normalized(v1)) /\ v5' = LI!NotReading /\ v6' = v6
        /\ v4' = [importTo |-> None, saveTo |-> None]
        BY <1>3 DEF LI!ReloadTab
  <2>2. LibraryFits(LI!Normalized(v1), {})
    <3>1. LI!Renamed(v1.groups) = v1.groups
          BY LibraryParts, RenamedSame
    <3> QED
        BY <3>1, LibraryParts, NormalizedFits
  <2>3. LibraryFits(v1, v8)' /\ v8' = {} /\ MirrorFits'
        BY <2>1, <2>2, OpenedFits
  <2>4. PanelFits'
        BY <2>1 DEF PanelFits, LI!NotReading
  <2> QED
      BY <2>1, <2>3, <2>4 DEF LibraryInv, FileFits
<1> QED
    BY <1>1, <1>2, <1>3

\* Every step of the library keeps the invariant.
LEMMA LibraryStep == ASSUME LibraryInv, LI!Next PROVE LibraryInv'
<1>1. CASE LI!ShapeLibrary
  <2>1. ASSUME NEW i \in {"i1"}, LI!SaveSelectionToLibrary(i) \/ LI!SvgRead(i) PROVE LibraryInv'
        BY <2>1, SaveSelectionFits, SvgReadFits
  <2>2. ASSUME NEW g \in Pair, LI!Section(g) PROVE LibraryInv'
        BY <2>2, AddGroupFits, DeleteGroupFits, ToggleFits, PanelStepFits DEF LI!Section
  <2>3. ASSUME NEW k \in DOMAIN v1.groups, NEW title \in {"valve", "pump"}, LI!RenameGroup(k, title)
        PROVE  LibraryInv'
        BY <2>3, RenameGroupFits
  <2>4. ASSUME NEW j \in DOMAIN v1.groups, NEW k \in DOMAIN v1.groups, LI!MoveGroup(j, k)
        PROVE  LibraryInv'
        BY <2>4, MoveGroupFits
  <2> QED
      BY <1>1, <2>1, <2>2, <2>3, <2>4, PanelStepFits, ToggleFits DEF LI!ShapeLibrary
<1>2. ASSUME NEW i \in {"i1"}, LI!CustomCard(i) PROVE LibraryInv'
      BY <1>2, ChangeItemFits, DeleteItemFits, MoveItemFits DEF LI!CustomCard
<1> QED
    BY <1>1, <1>2, ProjectStepFits DEF LI!Next

LEMMA LibraryStutters ==
    ASSUME LibraryInv, UNCHANGED <<v1, v2, v3, v4, v5, v6, v7, v8>> PROVE LibraryInv'
<1>1. PanelFits'
      BY DEF LibraryInv, PanelFits
<1> QED
    BY <1>1, PanelChanges

\* Opened again, a library is the one it was.
LEMMA LibraryReopens == ASSUME LibraryInv PROVE LI!ReopensTheSame /\ LI!TypeOK
<1> DEFINE n == LI!Normalized(v1)
<1>1. LI!Renamed(v1.groups) = v1.groups
      BY LibraryParts, RenamedSame
<1>2. LibraryFits(n, {})
      BY <1>1, LibraryParts, NormalizedFits
<1>3. /\ n.groups = v1.groups
      /\ n.collapsed = v1.collapsed \cap ({LI!Ungrouped} \cup LI!Ids(v1.groups))
      /\ n.items = [i \in {"i1"} |-> IF v1.items[i].group \in LI!Ids(v1.groups) THEN v1.items[i]
                                     ELSE [v1.items[i] EXCEPT !.group = None]]
      BY <1>1 DEF LI!Normalized
<1> HIDE DEF n
<1>4. n.collapsed = v1.collapsed
      BY <1>3, LibraryParts
<1>5. /\ LI!Mirrored(n).groups = v1.groups /\ LI!Mirrored(n).items = n.items
      /\ LI!Mirrored(n).collapsed = LI!Merged(v1)
  <2>1. LI!Merged(n) = LI!Merged(v1)
        BY <1>3, <1>4 DEF LI!Merged
  <2>2. n \in LI!LibraryType /\ v2 \subseteq {LI!Ungrouped, LI!Builtin} \cup Pair
        BY <1>2 DEF LibraryInv, LibraryFits, MirrorFits
  <2> QED
      BY <1>3, <2>1, <2>2, MergedFits
<1>6. ASSUME NEW i \in {"i1"} \ v8 PROVE v3.items[i] = n.items[i]
  <2>1. v1.items[i].group \in {None} \cup LI!Ids(v1.groups) /\ v3.items = v1.items
        BY DEF LibraryInv, LibraryFits, MirrorFits
  <2>2. v1.items[i] \in {LI!Absent} \cup CardOf
        BY LibraryParts
  <2>3. v1.items[i].group = None => [v1.items[i] EXCEPT !.group = None] = v1.items[i]
    <3>1. CASE v1.items[i] = LI!Absent
          BY <3>1 DEF LI!Absent
    <3>2. CASE v1.items[i] \in CardOf
          BY <3>2 DEF CardOf
    <3> QED
        BY <2>2, <3>1, <3>2
  <2> QED
      BY <1>3, <2>1, <2>3
<1>7. LI!ReopensTheSame
  <2>1. v3.groups = v1.groups /\ (v7 => v3.collapsed = LI!Merged(v1))
        BY DEF LibraryInv, MirrorFits
  <2>2. LI!ReopensTheSame <=>
           /\ v3.groups = LI!Mirrored(n).groups
           /\ v7 => v3.collapsed = LI!Mirrored(n).collapsed
           /\ \A i \in {"i1"} \ v8 : v3.items[i] = LI!Mirrored(n).items[i]
        BY DEF LI!ReopensTheSame, n
  <2> QED
      BY <1>5, <1>6, <2>1, <2>2
<1>8. LI!TypeOK
      BY FilesFit DEF LI!TypeOK, LibraryInv, LibraryFits, MirrorFits, PanelFits
<1> QED
    BY <1>7, <1>8

\* While the part that runs is the library, its invariant holds.
LibraryHolds == part = "library" => LibraryInv

LEMMA LibraryKept == LibraryHolds /\ [Next]_vars => LibraryHolds'
<1>1. SUFFICES ASSUME LibraryHolds, [Next]_vars, part' = "library" PROVE LibraryInv'
      BY DEF LibraryHolds
<1>2. CASE UNCHANGED vars
      BY <1>1, <1>2, LibraryStutters DEF LibraryHolds, vars
<1>3. CASE Next
  <2>1. part = "library" /\ LI!Next
        BY <1>1, <1>3 DEF Next
  <2> QED
      BY <1>1, <2>1, LibraryStep DEF LibraryHolds
<1> QED
    BY <1>1, <1>2, <1>3

LEMMA LibraryAlways == Spec => []LibraryHolds
<1>1. Init => LibraryHolds
      BY LibraryStart DEF Init, LibraryHolds
<1> QED
    BY <1>1, LibraryKept, PTL DEF Spec

-----------------------------------------------------------------------------
(* The document.  Document declares its variables in this order: order v1,   *)
(* active v2, stored v3, scene v4, undo v5, redo v6, selected v7, drag v8,   *)
(* ids v9, edits v10, lapses v11.                                            *)

\* A command of one shape, which is selected when it is undone, is of one there
\* may be.
OneShape(c) == Len(c.items) = 1 => c.items[1].id \in 1..5

PagesFit == v1 \in [Pair -> Nat] /\ v2 \in DO!Pages

StacksFit == \E S : /\ \A c \in S : OneShape(c)
                    /\ v5 \in [Pair -> Seq(S)] /\ v6 \in [Pair -> Seq(S)]

DocumentInv ==
    /\ PagesFit /\ StacksFit
    /\ v7 \in Seq(1..5) /\ (v8 # None => v8.id \in 1..5)
    /\ v9 \in 0..5 /\ v10 \in 0..2
    /\ v11 \subseteq {"group", "drag", "zIndex", "reload"}

LEMMA DocumentTyped == ASSUME DocumentInv PROVE DO!TypeOK
BY DEF DocumentInv, PagesFit, DO!TypeOK

LEMMA DocumentStart == ASSUME DO!Init PROVE DocumentInv
<1>1. v2 \in Pair /\ v1 = [p \in Pair |-> IF p = v2 THEN 1 ELSE 0]
      BY DEF DO!Init
<1>2. v9 = 2 /\ v7 = <<>> /\ v8 = None /\ v10 = 0 /\ v11 = {}
      BY DEF DO!Init
<1>3. PagesFit
      BY <1>1 DEF PagesFit, DO!Pages
<1>4. StacksFit
  <2>1. v5 \in [Pair -> Seq({})] /\ v6 \in [Pair -> Seq({})]
        BY DEF DO!Init
  <2> QED
      BY <2>1 DEF StacksFit
<1> QED
    BY <1>2, <1>3, <1>4 DEF DocumentInv

-----------------------------------------------------------------------------
(* The histories.                                                            *)

LEMMA Larger == ASSUME NEW S, NEW T, S \subseteq T, NEW s \in Seq(S) PROVE s \in Seq(T)
OBVIOUS

LEMMA StackFits == ASSUME DocumentInv, NEW c, OneShape(c), DO!Push(c) PROVE StacksFit'
<1>1. PICK S : /\ \A d \in S : OneShape(d)
               /\ v5 \in [Pair -> Seq(S)] /\ v6 \in [Pair -> Seq(S)]
      BY DEF DocumentInv, StacksFit
<1> DEFINE T == S \cup {c}
<1>2. v5 \in [Pair -> Seq(T)] /\ v6 \in [Pair -> Seq(T)]
  <2>1. S \subseteq T
        OBVIOUS
  <2> HIDE DEF T
  <2>2. \A p \in Pair : v5[p] \in Seq(T) /\ v6[p] \in Seq(T)
        BY <1>1, <2>1, Larger
  <2> QED
      BY <1>1, <2>2
<1>3. v5' = [v5 EXCEPT ![v2] = Append(v5[v2], c)] /\ v6' = [v6 EXCEPT ![v2] = <<>>]
      BY DEF DO!Push
<1>4. v2 \in Pair
      BY DEF DocumentInv, PagesFit, DO!Pages
<1>5. Append(v5[v2], c) \in Seq(T) /\ <<>> \in Seq(T) /\ \A d \in T : OneShape(d)
      BY <1>1, <1>2, <1>4
<1>6. v5' \in [Pair -> Seq(T)] /\ v6' \in [Pair -> Seq(T)]
      BY <1>2, <1>3, <1>5
<1> QED
    BY <1>5, <1>6 DEF StacksFit

\* The last command of one history goes over to another.
LEMMA LastFits ==
    ASSUME DocumentInv, NEW from, NEW to, StacksFit,
           <<from, to>> = <<v5, v6>> \/ <<from, to>> = <<v6, v5>>, from[v2] # <<>>
    PROVE  /\ OneShape(DO!Last(from[v2]))
           /\ \E S : /\ \A c \in S : OneShape(c)
                     /\ [from EXCEPT ![v2] = DO!Front(from[v2])] \in [Pair -> Seq(S)]
                     /\ [to EXCEPT ![v2] = Append(to[v2], DO!Last(from[v2]))] \in [Pair -> Seq(S)]
<1>1. PICK S : (\A c \in S : OneShape(c)) /\ from \in [Pair -> Seq(S)] /\ to \in [Pair -> Seq(S)]
      BY DEF StacksFit
<1>2. v2 \in Pair /\ from[v2] \in Seq(S) /\ to[v2] \in Seq(S)
      BY <1>1 DEF DocumentInv, PagesFit, DO!Pages
<1> DEFINE s == from[v2]
           n == Len(s)
<1>3. n \in Nat /\ n >= 1 /\ s[n] \in S /\ n - 1 \in 0..n
      BY <1>2
<1>4. DO!Last(s) \in S
      BY <1>3 DEF DO!Last
<1>5. DO!Front(s) \in Seq(S)
  <2>1. SubSeq(s, 1, n - 1) \in Seq(S)
        BY <1>2, <1>3, Beginning
  <2> QED
      BY <2>1 DEF DO!Front
<1> HIDE DEF s, n
<1>6. Append(to[v2], DO!Last(s)) \in Seq(S)
      BY <1>2, <1>4
<1>7. /\ [from EXCEPT ![v2] = DO!Front(s)] \in [Pair -> Seq(S)]
      /\ [to EXCEPT ![v2] = Append(to[v2], DO!Last(s))] \in [Pair -> Seq(S)]
      BY <1>1, <1>5, <1>6
<1> QED
    BY <1>1, <1>4, <1>7 DEF s

LEMMA EmptiedFits ==
    ASSUME DocumentInv, NEW p, v5' = [v5 EXCEPT ![p] = <<>>], v6' = [v6 EXCEPT ![p] = <<>>]
    PROVE  StacksFit'
<1>1. PICK S : /\ \A d \in S : OneShape(d)
               /\ v5 \in [Pair -> Seq(S)] /\ v6 \in [Pair -> Seq(S)]
      BY DEF DocumentInv, StacksFit
<1>2. <<>> \in Seq(S)
      OBVIOUS
<1>3. v5' \in [Pair -> Seq(S)] /\ v6' \in [Pair -> Seq(S)]
      BY <1>1, <1>2
<1> QED
    BY <1>1, <1>3 DEF StacksFit

LEMMA StacksStay == ASSUME DocumentInv, v5' = v5, v6' = v6 PROVE StacksFit'
BY DEF DocumentInv, StacksFit

LEMMA PagesStay == ASSUME DocumentInv, v1' = v1, v2' = v2 PROVE PagesFit'
BY DEF DocumentInv, PagesFit, DO!Pages

-----------------------------------------------------------------------------
(* The steps of the document.                                                *)

Lapses == {"group", "drag", "zIndex", "reload"}

\* An edit: what is selected and dragged is left to the step it is part of.
LEMMA EditFits ==
    ASSUME DocumentInv, NEW s, NEW items, NEW b, NEW a, NEW lapse \in SUBSET Lapses,
           Len(items) = 1 => items[1].id \in 1..5,
           DO!EditThat(s, [items |-> items, before |-> b, after |-> a], lapse),
           v9' \in 0..5 /\ v7' \in Seq(1..5) /\ (v8' # None => v8'.id \in 1..5)
    PROVE  DocumentInv'
<1> DEFINE c == [items |-> items, before |-> b, after |-> a]
           d == DO!Recorded(c, DO!GetAll(v4), DO!GetAll(s))
<1>1. /\ v1' = v1 /\ v2' = v2 /\ v10 < 2 /\ v10' = v10 + 1
      /\ v11' = v11 \cup lapse \cup DO!GivenUp /\ DO!Push(d)
      BY DEF DO!EditThat
<1>2. d.items = items
      BY DEF DO!Recorded
<1>3. OneShape(d)
      BY <1>2 DEF OneShape
<1> HIDE DEF d
<1>4. StacksFit'
      BY <1>1, <1>3, StackFits
<1>5. v11' \subseteq Lapses
      BY <1>1 DEF DocumentInv, DO!GivenUp, Lapses
<1>6. PagesFit'
      BY <1>1, PagesStay
<1>7. v10' \in 0..2
      BY <1>1 DEF DocumentInv
<1> QED
    BY <1>4, <1>5, <1>6, <1>7 DEF DocumentInv, Lapses

LEMMA AddShapeFits == ASSUME DocumentInv, NEW z, DO!AddShape(z) PROVE DocumentInv'
<1>1. v9 < 5 /\ v9' = v9 + 1 /\ v7' = v7 /\ v8' = v8
      BY DEF DO!AddShape
<1>2. v9' \in 1..5
      BY <1>1 DEF DocumentInv
<1> DEFINE x == DO!Plain(v9', z)
           s == Append(v4, x)
           items == <<DO!Item(v9', None, x, DO!Index(DO!GetAll(s), v9') - 1)>>
<1>3. DO!EditThat(s, [items |-> items, before |-> <<>>, after |-> <<>>], {})
      BY DEF DO!AddShape, DO!Edit, DO!Batch
<1>4. items[1].id \in 1..5
      BY <1>2 DEF DO!Item
<1> HIDE DEF items
<1>5. v9' \in 0..5 /\ v7' \in Seq(1..5) /\ (v8' # None => v8'.id \in 1..5)
      BY <1>1, <1>2 DEF DocumentInv
<1> QED
    BY <1>3, <1>4, <1>5, EditFits

LEMMA DeleteShapeFits ==
    ASSUME DocumentInv, NEW id \in 1..5, DO!DeleteShape(id) PROVE DocumentInv'
<1>1. v7' = <<>> /\ (v8' = v8 \/ v8' = None) /\ v9' = v9
      BY DEF DO!DeleteShape
<1> DEFINE items == <<DO!Item(id, DO!Get(v4, id), None, DO!Index(DO!GetAll(v4), id) - 1)>>
<1>3. DO!EditThat(DO!Without(v4, id), [items |-> items, before |-> <<>>, after |-> <<>>], {})
      BY DEF DO!DeleteShape, DO!Edit, DO!Batch
<1>4. items[1].id \in 1..5
      BY DEF DO!Item
<1> HIDE DEF items
<1>5. v9' \in 0..5 /\ v7' \in Seq(1..5) /\ (v8' # None => v8'.id \in 1..5)
      BY <1>1 DEF DocumentInv
<1> QED
    BY <1>3, <1>4, <1>5, EditFits

LEMMA UpdateShapeFits ==
    ASSUME DocumentInv, NEW id \in 1..5, DO!UpdateShape(id) PROVE DocumentInv'
<1>1. v7' = v7 /\ v8' = v8 /\ v9' = v9
      BY DEF DO!UpdateShape
<1>2. PICK x \in DO!Looks(DO!Get(v4, id)) :
         DO!Edit(DO!Replaced(v4, x), DO!Batch(<<DO!Item(id, DO!Get(v4, id), x, 0)>>))
      BY DEF DO!UpdateShape
<1> DEFINE items == <<DO!Item(id, DO!Get(v4, id), x, 0)>>
<1>3. DO!EditThat(DO!Replaced(v4, x), [items |-> items, before |-> <<>>, after |-> <<>>], {})
      BY <1>2 DEF DO!Edit, DO!Batch
<1>4. items[1].id \in 1..5
      BY DEF DO!Item
<1> HIDE DEF items
<1>5. v9' \in 0..5 /\ v7' \in Seq(1..5) /\ (v8' # None => v8'.id \in 1..5)
      BY <1>1 DEF DocumentInv
<1> QED
    BY <1>3, <1>4, <1>5, EditFits

\* A batch of several shapes.
LEMMA BatchLong ==
    ASSUME NEW n \in Nat \ {0}, NEW f, f = [k \in 1..n |-> f[k]], NEW x
    PROVE  Len(Append(f, x)) # 1 /\ Len(<<x>> \o f) # 1
<1> DEFINE S == {f[k] : k \in 1..n} \cup {x}
<1>1. f \in [1..n -> S]
      OBVIOUS
<1> HIDE DEF S
<1>2. f \in Seq(S) /\ Len(f) = n
      BY <1>1
<1>3. <<x>> \in Seq(S) /\ Len(<<x>>) = 1
      BY DEF S
<1>4. Len(<<x>> \o f) = 1 + n
      BY <1>2, <1>3, Joined
<1>5. Len(Append(f, x)) = n + 1
      BY <1>2
<1> QED
    BY <1>4, <1>5

LEMMA Counted == ASSUME NEW S PROVE DO!Cardinality(S) = Cardinality(S)
BY DEF DO!Cardinality, Cardinality

\* What the marquee selects is a sequence.
LEMMA SelectionCounted == ASSUME NEW want \in SUBSET (1..5) PROVE Cardinality(want) \in Nat
<1> DEFINE all == 1..5
<1>1. 1 \in Int /\ 5 \in Int
      OBVIOUS
<1> HIDE DEF all
<1>2. IsFiniteSet(all)
      BY <1>1, FS_Interval DEF all
<1>3. want \subseteq all
      BY DEF all
<1> QED
    BY <1>2, <1>3, FS_Subset, FS_CardinalityType

LEMMA GroupFits == ASSUME DocumentInv, DO!Group PROVE DocumentInv'
<1> DEFINE all  == DO!GetAll(v4)
           kids == [k \in 1..Len(v7) |-> DO!Get(v4, v7[k])]
           at   == [k \in 1..Len(v7) |-> DO!Index(all, v7[k]) - 1]
           low  == DO!Min({at[k] : k \in DOMAIN at})
           g    == [id |-> v9', z |-> DO!Max({kids[k].z : k \in DOMAIN kids}), look |-> 0,
                    children |-> [k \in DOMAIN kids |-> kids[k].look]]
           gone == [k \in 1..Len(v7) |-> DO!Item(v7[k], kids[k], None, at[k])]
           items == Append(gone, DO!Item(v9', None, g, low))
           lapse == IF DO!PutBack(at) THEN {} ELSE {"group"}
<1>1. Len(v7) >= 2 /\ v9 < 5 /\ v9' = v9 + 1 /\ v7' = <<v9'>> /\ v8' = v8
      BY DEF DO!Group
<1>2. v9' \in 1..5 /\ lapse \in SUBSET Lapses /\ Len(v7) \in Nat \ {0}
      BY <1>1 DEF DocumentInv, Lapses
<1>3. PICK s : DO!EditThat(s, [items |-> items, before |-> <<>>, after |-> <<>>], lapse)
      BY DEF DO!Group, DO!Batch
<1>4. Len(items) # 1
  <2>1. gone = [k \in 1..Len(v7) |-> gone[k]]
        OBVIOUS
  <2> HIDE DEF gone
  <2> QED
      BY <1>2, <2>1, BatchLong
<1> HIDE DEF items, lapse
<1>5. v9' \in 0..5 /\ v7' \in Seq(1..5) /\ (v8' # None => v8'.id \in 1..5)
      BY <1>1, <1>2 DEF DocumentInv
<1> QED
    BY <1>2, <1>3, <1>4, <1>5, EditFits

LEMMA UngroupFits == ASSUME DocumentInv, NEW id, DO!Ungroup(id) PROVE DocumentInv'
<1> DEFINE all == DO!GetAll(v4)
           g   == DO!Get(v4, id)
           n   == Len(g.children)
           new == [k \in 1..n |-> [DO!Plain(v9 + k, g.z + k - 1) EXCEPT !.look = g.children[k]]]
           at  == Len(all) - 1
           first == DO!Item(id, g, None, DO!Index(all, id) - 1)
           others == [k \in 1..n |-> DO!Item(v9 + k, None, new[k], at + k - 1)]
           items == <<first>> \o others
           s   == DO!Without(v4, id) \o new
<1>1. /\ n \in 1..(5 - v9) /\ v9' = v9 + n /\ v7' = <<v9 + 1>> /\ v8' = v8
      /\ DO!EditThat(s, [items |-> items, before |-> <<>>, after |-> <<>>], {})
      BY DEF DO!Ungroup, DO!Edit, DO!Batch
<1>2. others = [k \in 1..n |-> others[k]]
      OBVIOUS
<1> HIDE DEF n, others, first, s
<1>3. v9' \in 0..5 /\ v7' \in Seq(1..5) /\ n \in Nat \ {0}
      BY <1>1 DEF DocumentInv
<1>4. Len(items) # 1
      BY <1>2, <1>3, BatchLong
<1> HIDE DEF items, new
<1>5. v9' \in 0..5 /\ v7' \in Seq(1..5) /\ (v8' # None => v8'.id \in 1..5)
      BY <1>1, <1>3 DEF DocumentInv
<1>6. DO!EditThat(s, [items |-> items, before |-> <<>>, after |-> <<>>], {})
      BY <1>1
<1> QED
    BY <1>4, <1>5, <1>6, EditFits

LEMMA ReorderFits == ASSUME DocumentInv, NEW id, NEW to, DO!Reorder(id, to) PROVE DocumentInv'
<1>1. v7' = v7 /\ v8' = v8 /\ v9' = v9
      BY DEF DO!Reorder
<1>2. PICK s, b, a : DO!EditThat(s, [items |-> <<>>, before |-> b, after |-> a], {})
      BY DEF DO!Reorder, DO!Edit, DO!Reordering
<1>3. Len(<<>>) # 1
      OBVIOUS
<1>4. v9' \in 0..5 /\ v7' \in Seq(1..5) /\ (v8' # None => v8'.id \in 1..5)
      BY <1>1 DEF DocumentInv
<1> QED
    BY <1>2, <1>3, <1>4, EditFits

LEMMA BeginDragFits ==
    ASSUME DocumentInv, NEW id \in 1..5, DO!BeginDrag(id) PROVE DocumentInv'
<1>1. /\ v1' = v1 /\ v2' = v2 /\ v5' = v5 /\ v6' = v6 /\ v9' = v9 /\ v10' = v10 /\ v11' = v11
      /\ v7' = <<id>> \/ v7' = v7
      /\ v8'.id = id
      BY DEF DO!BeginDrag, DO!stacks
<1>2. v7' \in Seq(1..5)
  <2>1. <<id>> \in Seq(1..5)
        OBVIOUS
  <2> QED
      BY <1>1, <2>1 DEF DocumentInv
<1>3. v8'.id \in 1..5
      BY <1>1
<1> QED
    BY <1>1, <1>2, <1>3, StacksStay, PagesStay DEF DocumentInv

LEMMA DragMovesFits == ASSUME DocumentInv, DO!DragMoves PROVE DocumentInv'
<1>1. /\ v1' = v1 /\ v2' = v2 /\ v5' = v5 /\ v6' = v6 /\ v7' = v7 /\ v8' = v8
      /\ v9' = v9 /\ v10' = v10 /\ v11' = v11
      BY DEF DO!DragMoves, DO!stacks
<1> QED
    BY <1>1, StacksStay, PagesStay DEF DocumentInv

LEMMA EndDragFits == ASSUME DocumentInv, DO!EndDrag PROVE DocumentInv'
<1>1. /\ v1' = v1 /\ v2' = v2 /\ v7' = v7 /\ v8' = None /\ v8 # None
      /\ v9' = v9 /\ v11' = v11
      BY DEF DO!EndDrag
<1>2. PagesFit'
      BY <1>1, PagesStay
<1>3. StacksFit' /\ v10' \in 0..2
  <2>1. CASE v5' = v5 /\ v6' = v6 /\ v10' = v10
        BY <2>1, StacksStay DEF DocumentInv
  <2> DEFINE items == <<DO!Item(v8.id, v8.before, DO!Get(v4, v8.id), v8.index)>>
             c == [items |-> items, before |-> <<>>, after |-> <<>>]
             d == DO!Recorded(c, DO!GetAll(DO!Replaced(v4, v8.before)), DO!GetAll(v4))
  <2>2. CASE v10 < 2 /\ v10' = v10 + 1 /\ DO!Push(d)
    <3>1. d.items = items
          BY DEF DO!Recorded
    <3>2. items[1].id \in 1..5
          BY <1>1 DEF DO!Item, DocumentInv
    <3> HIDE DEF items, d
    <3>3. StacksFit'
          BY <2>2, <3>1, <3>2, StackFits DEF OneShape
    <3> QED
        BY <2>2, <3>3 DEF DocumentInv
  <2>3. \/ v5' = v5 /\ v6' = v6 /\ v10' = v10
        \/ v10 < 2 /\ v10' = v10 + 1 /\ DO!Push(d)
        BY DEF DO!EndDrag, DO!stacks, DO!Batch
  <2> HIDE DEF d
  <2> QED
      BY <2>1, <2>2, <2>3
<1> QED
    BY <1>1, <1>2, <1>3 DEF DocumentInv

LEMMA SelectedFits ==
    ASSUME DocumentInv, NEW c, OneShape(c), NEW s PROVE DO!Selected(c, s) \in Seq(1..5)
<1>1. CASE c.items = <<>>
      BY <1>1 DEF DO!Selected, DocumentInv
<1>2. CASE Len(c.items) = 1 /\ c.items # <<>>
  <2>1. c.items[1].id \in 1..5
        BY <1>2 DEF OneShape
  <2>2. DO!Selected(c, s) \in {<<c.items[1].id>>, <<>>}
        BY <1>2 DEF DO!Selected
  <2>3. <<c.items[1].id>> \in Seq(1..5)
        BY <2>1
  <2>4. <<>> \in Seq(1..5)
        OBVIOUS
  <2> QED
      BY <2>2, <2>3, <2>4
<1>3. CASE Len(c.items) # 1 /\ c.items # <<>>
      BY <1>3 DEF DO!Selected
<1> QED
    BY <1>1, <1>2, <1>3

LEMMA UndoFits == ASSUME DocumentInv, DO!Undo PROVE DocumentInv'
<1> DEFINE c == DO!Last(v5[v2])
<1>1. /\ v1' = v1 /\ v2' = v2 /\ v9' = v9 /\ v10' = v10 /\ v8' = None /\ v5[v2] # <<>>
      /\ v5' = [v5 EXCEPT ![v2] = DO!Front(v5[v2])]
      /\ v6' = [v6 EXCEPT ![v2] = Append(v6[v2], c)]
      /\ v7' = DO!Selected(c, v4')
      /\ v11' \subseteq v11 \cup DO!GivenUp \cup {"zIndex"}
      BY DEF DO!Undo, DO!Inexact
<1>2. OneShape(c) /\ StacksFit'
  <2>1. StacksFit
        BY DEF DocumentInv
  <2>2. /\ OneShape(c)
        /\ \E S : /\ \A d \in S : OneShape(d)
                  /\ [v5 EXCEPT ![v2] = DO!Front(v5[v2])] \in [Pair -> Seq(S)]
                  /\ [v6 EXCEPT ![v2] = Append(v6[v2], c)] \in [Pair -> Seq(S)]
        BY <1>1, <2>1, LastFits
  <2> HIDE DEF c
  <2> QED
      BY <1>1, <2>2 DEF StacksFit
<1> HIDE DEF c
<1>3. v7' \in Seq(1..5)
      BY <1>1, <1>2, SelectedFits
<1>4. v11' \subseteq Lapses
      BY <1>1 DEF DocumentInv, Lapses, DO!GivenUp
<1> QED
    BY <1>1, <1>2, <1>3, <1>4, PagesStay DEF DocumentInv, Lapses

LEMMA RedoFits == ASSUME DocumentInv, DO!Redo PROVE DocumentInv'
<1> DEFINE c == DO!Last(v6[v2])
<1>1. /\ v1' = v1 /\ v2' = v2 /\ v9' = v9 /\ v10' = v10 /\ v8' = None /\ v6[v2] # <<>>
      /\ v6' = [v6 EXCEPT ![v2] = DO!Front(v6[v2])]
      /\ v5' = [v5 EXCEPT ![v2] = Append(v5[v2], c)]
      /\ v7' = DO!Selected(c, v4')
      /\ v11' = v11 \cup DO!GivenUp
      BY DEF DO!Redo
<1>2. OneShape(c) /\ StacksFit'
  <2>1. StacksFit
        BY DEF DocumentInv
  <2>2. /\ OneShape(c)
        /\ \E S : /\ \A d \in S : OneShape(d)
                  /\ [v6 EXCEPT ![v2] = DO!Front(v6[v2])] \in [Pair -> Seq(S)]
                  /\ [v5 EXCEPT ![v2] = Append(v5[v2], c)] \in [Pair -> Seq(S)]
        BY <1>1, <2>1, LastFits
  <2> HIDE DEF c
  <2> QED
      BY <1>1, <2>2 DEF StacksFit
<1> HIDE DEF c
<1>3. v7' \in Seq(1..5)
      BY <1>1, <1>2, SelectedFits
<1>4. v11' \subseteq Lapses
      BY <1>1 DEF DocumentInv, Lapses, DO!GivenUp
<1> QED
    BY <1>1, <1>2, <1>3, <1>4, PagesStay DEF DocumentInv, Lapses

LEMMA SelectFits ==
    ASSUME DocumentInv, NEW want \in SUBSET (1..5), DO!Select(want) PROVE DocumentInv'
<1>1. /\ v1' = v1 /\ v2' = v2 /\ v5' = v5 /\ v6' = v6 /\ v9' = v9 /\ v10' = v10
      /\ v7' \in [1..DO!Cardinality(want) -> want] /\ (v8' = v8 \/ v8' = None)
      /\ v11' \subseteq v11 \cup DO!GivenUp
      BY DEF DO!Select, DO!TopFirst, DO!stacks
<1>2. v11' \subseteq Lapses
      BY <1>1 DEF DocumentInv, Lapses, DO!GivenUp
<1>3. v7' \in Seq(1..5)
  <2>1. Cardinality(want) \in Nat /\ v7' \in [1..Cardinality(want) -> 1..5]
        BY <1>1, SelectionCounted, Counted
  <2> QED
      BY <2>1
<1>4. v8' # None => v8'.id \in 1..5
      BY <1>1 DEF DocumentInv
<1>5. StacksFit' /\ PagesFit'
      BY <1>1, StacksStay, PagesStay
<1>6. v9' \in 0..5 /\ v10' \in 0..2
      BY <1>1 DEF DocumentInv
<1> QED
    BY <1>2, <1>3, <1>4, <1>5, <1>6 DEF DocumentInv, Lapses

LEMMA SyncFits == ASSUME DocumentInv, DO!Sync PROVE DocumentInv'
<1>1. /\ v1' = v1 /\ v2' = v2 /\ v5' = v5 /\ v6' = v6 /\ v7' = v7 /\ v8' = v8
      /\ v9' = v9 /\ v10' = v10 /\ v11' = v11
      BY DEF DO!Sync, DO!stacks, DO!shown
<1> QED
    BY <1>1, StacksStay, PagesStay DEF DocumentInv

-----------------------------------------------------------------------------
(* Pages.                                                                    *)

\* Pages change hands.
LEMMA SwappedFits ==
    ASSUME DocumentInv, NEW p, NEW st, DO!SwapTo(p, st), NEW lapse \in SUBSET Lapses,
           v9' = v9, v10' = v10, v11' = v11 \cup lapse, PagesFit', StacksFit'
    PROVE  DocumentInv'
<1>1. v7' = <<>> /\ v8' = None
      BY DEF DO!SwapTo
<1>2. v11' \subseteq Lapses
      BY DEF DocumentInv, Lapses
<1> QED
    BY <1>1, <1>2 DEF DocumentInv, Lapses

LEMMA SwitchPageFits == ASSUME DocumentInv, NEW p, DO!SwitchPage(p) PROVE DocumentInv'
<1> DEFINE lapse == IF DO!Reloads(p) THEN {"reload"} ELSE {}
<1>1. /\ p \in DO!Pages /\ DO!SwapTo(p, DO!Left(p)) /\ v2' = p /\ v1' = v1
      /\ v5' = v5 /\ v6' = v6 /\ v9' = v9 /\ v10' = v10 /\ v11' = v11 \cup lapse
      BY DEF DO!SwitchPage, DO!SwapTo, DO!stacks
<1>2. PagesFit'
      BY <1>1 DEF DocumentInv, PagesFit, DO!Pages
<1>3. lapse \in SUBSET Lapses
      BY DEF Lapses
<1> HIDE DEF lapse
<1> QED
    BY <1>1, <1>2, <1>3, StacksStay, SwappedFits

\* A new page comes last.
LEMMA LastOrder ==
    ASSUME NEW T, T \subseteq 0..2, T # {} PROVE DO!Max(T) \in T
<1>1. \E x \in T : \A y \in T : x >= y
  <2>1. CASE 2 \in T
        BY <2>1
  <2>2. CASE 2 \notin T /\ 1 \in T
        BY <2>2
  <2>3. CASE T = {0}
        BY <2>3
  <2>4. 2 \in T \/ (2 \notin T /\ 1 \in T) \/ T = {0}
    <3>1. \A y \in T : y = 0 \/ y = 1 \/ y = 2
          OBVIOUS
    <3> QED
        BY <3>1
  <2> QED
      BY <2>1, <2>2, <2>3, <2>4
<1> QED
    BY <1>1 DEF DO!Max

LEMMA AddPageFits == ASSUME DocumentInv, NEW p \in Pair, DO!AddPage(p) PROVE DocumentInv'
<1> DEFINE T == {v1[q] : q \in Pair}
           st == [DO!Synced(v3) EXCEPT ![p] = <<>>]
<1>1. /\ \A q \in Pair : v1[q] < 3
      /\ v1' = [v1 EXCEPT ![p] = 1 + DO!Max(T)]
      /\ DO!SwapTo(p, st) /\ v2' = p
      /\ v5' = [v5 EXCEPT ![p] = <<>>] /\ v6' = [v6 EXCEPT ![p] = <<>>]
      /\ v9' = v9 /\ v10' = v10 /\ v11' = v11
      BY DEF DO!AddPage, DO!SwapTo
<1>2. T \subseteq 0..2 /\ T # {}
      BY <1>1 DEF DocumentInv, PagesFit
<1> HIDE DEF T, st
<1>3. DO!Max(T) \in 0..2
      BY <1>2, LastOrder
<1>4. v1' \in [Pair -> Nat] /\ v1'[p] > 0
      BY <1>1, <1>3 DEF DocumentInv, PagesFit
<1>5. PagesFit'
      BY <1>1, <1>4 DEF PagesFit, DO!Pages
<1>6. StacksFit'
      BY <1>1, EmptiedFits
<1>7. v11' = v11 \cup {} /\ {} \in SUBSET Lapses
      BY <1>1
<1> QED
    BY <1>1, <1>5, <1>6, <1>7, SwappedFits

LEMMA DeletePageFits == ASSUME DocumentInv, NEW p, DO!DeletePage(p) PROVE DocumentInv'
<1> DEFINE left == DO!Pages \ {p}
           to   == CHOOSE q \in left : \A r \in left : v1[q] <= v1[r]
           st   == IF p = v2 THEN v3 ELSE DO!Left(to)
           lapse == IF DO!Reloads(to) THEN {"reload"} ELSE {}
<1>1. /\ p \in DO!Pages /\ Cardinality(DO!Pages) > 1
      /\ v1' = [v1 EXCEPT ![p] = 0]
      /\ DO!SwapTo(to, st) /\ v2' = to
      /\ v5' = [v5 EXCEPT ![p] = <<>>] /\ v6' = [v6 EXCEPT ![p] = <<>>]
      /\ v9' = v9 /\ v10' = v10 /\ v11' = v11 \cup lapse
      BY Counted DEF DO!DeletePage, DO!SwapTo
<1>2. left # {}
  <2>1. left = {} => DO!Pages = {p}
        BY <1>1
  <2>2. Cardinality({p}) = 1
        BY FS_Singleton
  <2>3. Cardinality(DO!Pages) # 1
        BY <1>1
  <2> HIDE DEF left
  <2> QED
      BY <2>1, <2>2, <2>3
<1>3. to \in left
  <2> DEFINE T == {v1[q] : q \in left}
  <2>1. T \subseteq Nat /\ T # {}
        BY <1>2 DEF DocumentInv, PagesFit, DO!Pages
  <2> HIDE DEF left
  <2>2. \E q \in left : \A r \in left : v1[q] <= v1[r]
    <3>1. PICK n \in T : \A m \in T : n <= m
      <4> HIDE DEF T
      <4> QED
          BY <2>1, Least
    <3>2. PICK q \in left : n = v1[q]
          OBVIOUS
    <3>3. \A r \in left : v1[r] \in T
          OBVIOUS
    <3> HIDE DEF T
    <3> QED
        BY <3>1, <3>2, <3>3
  <2> QED
      BY <2>2
<1>4. lapse \in SUBSET Lapses
      BY DEF Lapses
<1> HIDE DEF to, st, lapse
<1>5. PagesFit'
      BY <1>1, <1>3 DEF DocumentInv, PagesFit, DO!Pages
<1> HIDE DEF left
<1>6. StacksFit'
      BY <1>1, EmptiedFits
<1> QED
    BY <1>1, <1>4, <1>5, <1>6, SwappedFits

LEMMA MovePageFits == ASSUME DocumentInv, NEW p, NEW q, DO!MovePage(p, q) PROVE DocumentInv'
<1>1. /\ p \in DO!Pages /\ q \in DO!Pages
      /\ v1' = [r \in Pair |-> IF r = p THEN v1[q] ELSE DO!Shifted(r, v1[p], v1[q])]
      /\ v2' = v2 /\ v5' = v5 /\ v6' = v6 /\ v7' = v7 /\ v8' = v8
      /\ v9' = v9 /\ v10' = v10 /\ v11' = v11
      BY DEF DO!MovePage, DO!stacks, DO!shown
<1>2. /\ v1 \in [Pair -> Nat] /\ v2 \in Pair /\ v1[v2] > 0
      /\ p \in Pair /\ q \in Pair /\ v1[p] > 0 /\ v1[q] > 0
      BY <1>1 DEF DocumentInv, PagesFit, DO!Pages
<1>3. \A r \in Pair : DO!Shifted(r, v1[p], v1[q]) \in Nat /\
                      (v1[r] > 0 => DO!Shifted(r, v1[p], v1[q]) > 0)
      BY <1>2 DEF DO!Shifted
<1>4. v1' \in [Pair -> Nat] /\ v1'[v2] > 0
      BY <1>1, <1>2, <1>3
<1>5. PagesFit'
      BY <1>1, <1>2, <1>4 DEF PagesFit, DO!Pages
<1> QED
    BY <1>1, <1>5, StacksStay DEF DocumentInv

LEMMA DocumentStep == ASSUME DocumentInv, DO!Next PROVE DocumentInv'
<1>1. CASE DO!Press
      BY <1>1, BeginDragFits DEF DO!Press
<1>2. CASE DO!DragMoves
      BY <1>2, DragMovesFits
<1>3. CASE DO!Release
  <2>1. CASE DO!EndDrag
        BY <2>1, EndDragFits
  <2>2. ASSUME NEW want \in SUBSET (1..5), DO!Select(want) PROVE DocumentInv'
        BY <2>2, SelectFits
  <2> QED
      BY <1>3, <2>1, <2>2 DEF DO!Release
<1>4. CASE DO!KeyDown
  <2>1. CASE DO!Undo
        BY <2>1, UndoFits
  <2>2. CASE DO!Redo
        BY <2>2, RedoFits
  <2>3. CASE DO!Select({})
        BY <2>3, SelectFits
  <2> QED
      BY <1>4, <2>1, <2>2, <2>3 DEF DO!KeyDown
<1>5. CASE DO!Toolbar
  <2>1. CASE DO!Group
        BY <2>1, GroupFits
  <2>2. ASSUME NEW id \in 1..5, DO!Ungroup(id) PROVE DocumentInv'
        BY <2>2, UngroupFits
  <2>3. ASSUME NEW id \in 1..5, DO!DeleteShape(id) PROVE DocumentInv'
        BY <2>3, DeleteShapeFits
  <2>4. ASSUME NEW z, DO!AddShape(z) PROVE DocumentInv'
        BY <2>4, AddShapeFits
  <2> QED
      BY <1>5, <2>1, <2>2, <2>3, <2>4 DEF DO!Toolbar
<1>6. CASE DO!ShapeTree
  <2>1. ASSUME NEW id \in 1..5, DO!UpdateShape(id) PROVE DocumentInv'
        BY <2>1, UpdateShapeFits
  <2>2. ASSUME NEW id, NEW to, DO!Reorder(id, to) PROVE DocumentInv'
        BY <2>2, ReorderFits
  <2> QED
      BY <1>6, <2>1, <2>2 DEF DO!ShapeTree
<1>7. CASE DO!PagePanel
  <2>1. PICK p \in Pair : \/ DO!SwitchPage(p) \/ DO!AddPage(p) \/ DO!DeletePage(p)
                          \/ \E q \in Pair : DO!MovePage(p, q)
        BY <1>7 DEF DO!PagePanel
  <2>2. CASE DO!SwitchPage(p)
        BY <2>2, SwitchPageFits
  <2>3. CASE DO!AddPage(p)
        BY <2>3, AddPageFits
  <2>4. CASE DO!DeletePage(p)
        BY <2>4, DeletePageFits
  <2>5. ASSUME NEW q \in Pair, DO!MovePage(p, q) PROVE DocumentInv'
        BY <2>5, MovePageFits
  <2> QED
      BY <2>1, <2>2, <2>3, <2>4, <2>5
<1>8. CASE DO!Sync
      BY <1>8, SyncFits
<1> QED
    BY <1>1, <1>2, <1>3, <1>4, <1>5, <1>6, <1>7, <1>8 DEF DO!Next

LEMMA DocumentStutters ==
    ASSUME DocumentInv, UNCHANGED <<v1, v2, v3, v4, v5, v6, v7, v8, v9, v10, v11>>
    PROVE  DocumentInv'
BY StacksStay, PagesStay DEF DocumentInv

\* While the part that runs is the document, its invariant holds.
DocumentHolds == part = "document" => DocumentInv

LEMMA DocumentKept == DocumentHolds /\ [Next]_vars => DocumentHolds'
<1>1. SUFFICES ASSUME DocumentHolds, [Next]_vars, part' = "document" PROVE DocumentInv'
      BY DEF DocumentHolds
<1>2. CASE UNCHANGED vars
      BY <1>1, <1>2, DocumentStutters DEF DocumentHolds, vars
<1>3. CASE Next
  <2>1. part = "document" /\ DO!Next
        BY <1>1, <1>3 DEF Next
  <2> QED
      BY <1>1, <2>1, DocumentStep DEF DocumentHolds
<1> QED
    BY <1>1, <1>2, <1>3

LEMMA DocumentAlways == Spec => []DocumentHolds
<1>1. Init => DocumentHolds
      BY DocumentStart DEF Init, DocumentHolds
<1> QED
    BY <1>1, DocumentKept, PTL DEF Spec

-----------------------------------------------------------------------------
(* The session.                                                              *)

A == INSTANCE AuthSessionProofs WITH
    session <- v1, stored <- v2, timer <- v3, calls <- v4, account <- v5,
    epoch <- v6, loggedIn <- v7, stale <- v8, unheard <- v9,
    MaxVersion <- MaxTokenVersion

LEMMA SameInit == ASSUME AU!Init PROVE A!Init
BY DEF AU!Init, A!Init, AU!Idle, A!Idle

LEMMA SameNext == ASSUME AU!Next PROVE A!Next
BY DEF AU!Next, A!Next, AU!Idle, A!Idle,
       AU!client, A!client, AU!history, A!history, AU!vars, A!vars, AU!Session,
       A!Session, AU!Reply, A!Reply, AU!Sent, A!Sent, AU!Ask, A!Ask, AU!Login,
       A!Login, AU!ChangePassword, A!ChangePassword, AU!Request, A!Request,
       AU!RefreshTimer, A!RefreshTimer, AU!Accepted, A!Accepted, AU!Replied,
       A!Replied, AU!Handle, A!Handle, AU!Lose, A!Lose, AU!Expire, A!Expire,
       AU!Overtaken, A!Overtaken, AU!Done, A!Done, AU!SetSession, A!SetSession,
       AU!ClearSession, A!ClearSession, AU!LoggedIn, A!LoggedIn, AU!WithAccess,
       A!WithAccess, AU!WithTokens, A!WithTokens, AU!Refreshed, A!Refreshed,
       AU!RetryLater, A!RetryLater, AU!Refused, A!Refused, AU!Answer, A!Answer,
       AU!Logout, A!Logout, AU!Reload, A!Reload

LEMMA SameConstants == A!Constants
BY EditorAssumption DEF A!Constants, AU!Session, A!Session

LEMMA SameVars ==
    ASSUME UNCHANGED <<v1, v2, v3, v4, v5, v6, v7, v8, v9>>
    PROVE  UNCHANGED A!vars
BY DEF A!vars, A!client, A!history

\* While the part that runs is the session, its invariant holds.
SessionHolds == part = "session" => A!SessionInv

LEMMA SessionStart == Init => SessionHolds
<1>1. ASSUME Init, part = "session"
      PROVE  A!SessionInv
  <2>1. AU!Init
        BY <1>1 DEF Init
  <2> QED
      BY <2>1, SameInit, SameConstants, A!SessionInit
<1> QED
    BY <1>1 DEF SessionHolds

LEMMA SessionKept == SessionHolds /\ [Next]_vars => SessionHolds'
<1>1. SUFFICES ASSUME SessionHolds, [Next]_vars, part' = "session"
               PROVE  A!SessionInv'
      BY DEF SessionHolds
<1>2. CASE UNCHANGED vars
  <2>1. part = "session" /\ UNCHANGED <<v1, v2, v3, v4, v5, v6, v7, v8, v9>>
        BY <1>1, <1>2 DEF vars
  <2>2. A!SessionInv /\ UNCHANGED A!vars
        BY <1>1, <2>1, SameVars DEF SessionHolds
  <2> QED
      BY <2>2, A!SessionStutters
<1>3. CASE Next
  <2>1. part = "session" /\ AU!Next
        BY <1>1, <1>3 DEF Next
  <2>2. A!SessionInv /\ A!Next
        BY <1>1, <2>1, SameNext DEF SessionHolds
  <2> QED
      BY <2>2, SameConstants, A!SessionStep
<1> QED
    BY <1>1, <1>2, <1>3

LEMMA SessionAlways == Spec => []SessionHolds
BY SessionStart, SessionKept, PTL DEF Spec

-----------------------------------------------------------------------------
(* The synchronised project.                                                 *)

P == INSTANCE ProjectSyncProofs WITH
    doc <- v1, edits <- v2, link <- v3, saved <- v4, autosave <- v5,
    backups <- v6, list <- v7, conflict <- v8, tasks <- v9, pushing <- v10,
    rows <- v11, deleted <- v12, reborn <- v13, lost <- v14, blind <- v15, mixed <- v16,
    Request <- Pair,
    MaxVersion <- MaxProjectVersion, MaxEdits <- MaxProjectEdits

LEMMA SameSyncInit == ASSUME PS!Init PROVE P!Init
BY DEF PS!Init, P!Init, PS!Fresh, P!Fresh

LEMMA SameSyncNext == ASSUME PS!Next PROVE P!Next
<1>1. (PS!Edit \/ PS!AutosaveTimer \/ PS!Reload) =>
          (P!Edit \/ P!AutosaveTimer \/ P!Reload)
      BY DEF PS!local, P!local, PS!disk, P!disk, PS!server, P!server, PS!history,
             P!history, PS!vars, P!vars, PS!Edit, P!Edit, PS!AutosaveTimer,
             P!AutosaveTimer, PS!Reload, P!Reload, PS!Flush, P!Flush, PS!Fresh, P!Fresh,
             PS!Agree, P!Agree
<1>2. PS!ProjectToolbar => P!ProjectToolbar
      BY DEF PS!local, P!local, PS!disk, P!disk, PS!server, P!server, PS!history,
             P!history, PS!vars, P!vars, PS!ProjectToolbar, P!ProjectToolbar,
             PS!NewProject, P!NewProject, PS!Sync, P!Sync, PS!Push, P!Push, PS!Fresh,
             P!Fresh, PS!Flush, P!Flush, PS!SetLink, P!SetLink
<1>3. PS!PushDialog => P!PushDialog
      BY DEF PS!local, P!local, PS!disk, P!disk, PS!server, P!server, PS!history,
             P!history, PS!vars, P!vars, PS!PushDialog, P!PushDialog, PS!Overwrite,
             P!Overwrite, PS!CancelConflict, P!CancelConflict, PS!PushNew, P!PushNew,
             PS!PushExisting, P!PushExisting, PS!Push, P!Push, PS!Flush, P!Flush
<1>4. PS!RemoteProjectsDialog => P!RemoteProjectsDialog
      BY DEF PS!local, P!local, PS!disk, P!disk, PS!server, P!server, PS!history,
             P!history, PS!vars, P!vars, PS!RemoteProjectsDialog,
             P!RemoteProjectsDialog, PS!RefreshList, P!RefreshList, PS!OpenStarts,
             P!OpenStarts, PS!DeleteRemote, P!DeleteRemote, PS!RestoreStarts,
             P!RestoreStarts, PS!RemoveBackup, P!RemoveBackup, PS!Start, P!Start,
             PS!Flush, P!Flush, PS!Forget, P!Forget, PS!At, P!At, PS!RemoveAt,
             P!RemoveAt
<1>5. ASSUME NEW r \in Pair
      PROVE  /\ PS!BackupRead(r) => P!BackupRead(r)
             /\ PS!OpenAnswered(r) => P!OpenAnswered(r)
             /\ PS!DeleteListed(r) => P!DeleteListed(r)
      BY DEF PS!local, P!local, PS!disk, P!disk, PS!server, P!server, PS!history,
             P!history, PS!vars, P!vars, PS!BackupRead, P!BackupRead, PS!OpenAnswered,
             P!OpenAnswered, PS!DeleteListed, P!DeleteListed, PS!At, P!At, PS!Ends,
             P!Ends, PS!Based, P!Based, PS!SetLink, P!SetLink, PS!Range, P!Range
<1>6. ASSUME NEW r \in Pair
      PROVE  /\ PS!BackupSaved(r) => P!BackupSaved(r)
             /\ PS!Load(r) => P!Load(r)
      BY DEF PS!local, P!local, PS!disk, P!disk, PS!server, P!server, PS!history,
             P!history, PS!vars, P!vars, PS!BackupSaved, P!BackupSaved, PS!Load, P!Load,
             PS!Backup, P!Backup, PS!Forget, P!Forget, PS!At, P!At, PS!Ends, P!Ends,
             PS!SetLink, P!SetLink, PS!Flush, P!Flush, PS!Unkept, P!Unkept, PS!Range,
             P!Range, PS!Min, P!Min, PS!Last, P!Last
<1>7. (PS!PushHandled \/ PS!PushAnswered \/ PS!PushFails) =>
          (P!PushHandled \/ P!PushAnswered \/ P!PushFails)
      BY DEF PS!local, P!local, PS!disk, P!disk, PS!server, P!server, PS!history,
             P!history, PS!vars, P!vars, PS!PushHandled, P!PushHandled, PS!PushAnswered,
             P!PushAnswered, PS!PushFails, P!PushFails, PS!Accepts, P!Accepts,
             PS!Pushed, P!Pushed, PS!Seen, P!Seen, PS!Rebased, P!Rebased, PS!SetLink,
             P!SetLink, PS!Agree, P!Agree
<1>8. ASSUME NEW p \in Project
      PROVE  PS!OtherPushes(p) \/ PS!OtherDeletes(p) => P!OtherPushes(p) \/ P!OtherDeletes(p)
      BY DEF PS!local, P!local, PS!disk, P!disk, PS!server, P!server, PS!history,
             P!history, PS!vars, P!vars, PS!OtherPushes, P!OtherPushes, PS!OtherDeletes,
             P!OtherDeletes, PS!Pushed, P!Pushed
<1> QED
    BY <1>1, <1>2, <1>3, <1>4, <1>5, <1>6, <1>7, <1>8 DEF PS!Next, P!Next

LEMMA SameSyncConstants == P!Constants
BY EditorAssumption DEF P!Constants, P!Document, PS!Document

\* While the part that runs is the synchronised project, its invariant holds.
SyncHolds == part = "sync" => P!SyncInv

LEMMA SyncStart == Init => SyncHolds
<1>1. ASSUME Init, part = "sync"
      PROVE  P!SyncInv
  <2>1. PS!Init
        BY <1>1 DEF Init
  <2> QED
      BY <2>1, SameSyncInit, SameSyncConstants, P!SyncInit
<1> QED
    BY <1>1 DEF SyncHolds

LEMMA SyncKept == SyncHolds /\ [Next]_vars => SyncHolds'
<1>1. SUFFICES ASSUME SyncHolds, [Next]_vars, part' = "sync"
               PROVE  P!SyncInv'
      BY DEF SyncHolds
<1>2. CASE UNCHANGED vars
  <2>1. P!SyncInv /\ UNCHANGED P!vars
        BY <1>1, <1>2 DEF SyncHolds, vars, P!vars, P!local, P!disk, P!server, P!history
  <2> QED
      BY <2>1, P!SyncStutters
<1>3. CASE Next
  <2>1. part = "sync" /\ PS!Next
        BY <1>1, <1>3 DEF Next
  <2>2. P!SyncInv /\ P!Next
        BY <1>1, <2>1, SameSyncNext DEF SyncHolds
  <2> QED
      BY <2>2, SameSyncConstants, P!SyncStep
<1> QED
    BY <1>1, <1>2, <1>3

LEMMA SyncAlways == Spec => []SyncHolds
BY SyncStart, SyncKept, PTL DEF Spec

-----------------------------------------------------------------------------
(* The management console.                                                   *)

C == INSTANCE ConsoleProofs WITH
    page <- v1, selected <- v2, shown <- v3, loading <- v4, modal <- v5,
    calls <- v6, server <- v7, fresh <- v8, doubt <- v9, overwritten <- v10,
    MaxVersion <- MaxRowVersion

LEMMA SameConsoleInit == ASSUME CO!Init PROVE C!Init
BY DEF CO!Init, C!Init, CO!Idle, C!Idle, CO!Sent, C!Sent, CO!Whole, C!Whole,
       CO!Dashboard, C!Dashboard, CO!Page, C!Page

LEMMA SameConsoleNext == ASSUME CO!Next PROVE C!Next
BY DEF CO!Next, C!Next,
       CO!screen, C!screen, CO!history, C!history, CO!vars, C!vars, CO!Page,
       C!Page, CO!Dashboard, C!Dashboard, CO!RedundancyMonitor,
       C!RedundancyMonitor, CO!Monitor, C!Monitor, CO!AlarmMonitor,
       C!AlarmMonitor, CO!Plugins, C!Plugins, CO!AlarmRules, C!AlarmRules,
       CO!Points, C!Points, CO!RedundancyConfig, C!RedundancyConfig, CO!Routes,
       C!Routes, CO!Whole, C!Whole, CO!First, C!First, CO!Idle, C!Idle,
       CO!Sent, C!Sent, CO!Write, C!Write, CO!UnderWay, C!UnderWay,
       CO!Doubtful, C!Doubtful, CO!Ask, C!Ask, CO!Left, C!Left, CO!Navigate,
       C!Navigate, CO!Stopped, C!Stopped,
       CO!Select, C!Select, CO!Tick, C!Tick, CO!Rendered, C!Rendered,
       CO!Loaded, C!Loaded, CO!Clickable, C!Clickable, CO!Saving, C!Saving,
       CO!OpenEdit, C!OpenEdit, CO!Save, C!Save, CO!Close, C!Close, CO!Toggle,
       C!Toggle, CO!Remove, C!Remove,
       CO!Reloads, C!Reloads, CO!Written, C!Written, CO!Handle, C!Handle,
       CO!Lose, C!Lose, CO!Change, C!Change, CO!Blank, C!Blank,
       CO!FormLoaded, C!FormLoaded, CO!FormSaved, C!FormSaved, CO!Blind, C!Blind

LEMMA SameConsoleConstants == C!Constants
BY EditorAssumption DEF C!Constants

\* While the part that runs is the console, its invariant holds.
ConsoleHolds == part = "console" => C!ConsoleInv

LEMMA ConsoleStart == Init => ConsoleHolds
<1>1. ASSUME Init, part = "console"
      PROVE  C!ConsoleInv
  <2>1. CO!Init
        BY <1>1 DEF Init
  <2> QED
      BY <2>1, SameConsoleInit, SameConsoleConstants, C!ConsoleInit
<1> QED
    BY <1>1 DEF ConsoleHolds

LEMMA ConsoleKept == ConsoleHolds /\ [Next]_vars => ConsoleHolds'
<1>1. SUFFICES ASSUME ConsoleHolds, [Next]_vars, part' = "console"
               PROVE  C!ConsoleInv'
      BY DEF ConsoleHolds
<1>2. CASE UNCHANGED vars
  <2>1. C!ConsoleInv /\ UNCHANGED C!vars
        BY <1>1, <1>2 DEF ConsoleHolds, vars, C!vars, C!screen, C!history
  <2> QED
      BY <2>1, C!ConsoleStutters
<1>3. CASE Next
  <2>1. part = "console" /\ CO!Next
        BY <1>1, <1>3 DEF Next
  <2>2. C!ConsoleInv /\ C!Next
        BY <1>1, <2>1, SameConsoleNext DEF ConsoleHolds
  <2> QED
      BY <2>2, SameConsoleConstants, C!ConsoleStep
<1> QED
    BY <1>1, <1>2, <1>3

LEMMA ConsoleAlways == Spec => []ConsoleHolds
BY ConsoleStart, ConsoleKept, PTL DEF Spec

-----------------------------------------------------------------------------
\* Whatever part of the editor or the console runs, its variables keep to their
\* types: the bounds of queues, histories and versions hold, a page is active that
\* is there, only shapes that may be there are selected, and the maps of every
\* part stay maps of its own keys; after any sequence of steps of any part.
THEOREM EditorTyped == Spec => []TypeOK
<1>1. PointsHold => (part = "points" => PT!TypeOK)
      BY DEF PointsHold, PointsInv
<1>2. SessionHolds => (part = "session" => AU!TypeOK)
  <2>1. AU!Session = A!Session /\ AU!Kind = A!Kind /\ AU!Reply = A!Reply /\ AU!Idle = A!Idle
        BY DEF AU!Session, A!Session, AU!Kind, A!Kind, AU!Reply, A!Reply, AU!Idle, A!Idle
  <2> QED
      BY <2>1 DEF SessionHolds, A!SessionInv, A!TypeOK, AU!TypeOK
<1>3. SyncHolds => (part = "sync" => PS!TypeOK)
  <2>1. PS!Document = P!Document /\ PS!Link = P!Link
        BY DEF PS!Document, P!Document, PS!Link, P!Link
  <2> QED
      BY <2>1 DEF SyncHolds, P!SyncInv, P!DocOK, P!BackupsOK, P!ListOK, P!LinkOK, P!RebornOK,
                PS!TypeOK
<1>4. DocumentHolds => (part = "document" => DO!TypeOK)
      BY DocumentTyped DEF DocumentHolds
<1>5. RemoteHolds => (part = "alarms" => RA!TypeOK)
      BY RemotePromises DEF RemoteHolds
<1>6. ConsoleHolds => (part = "console" => CO!TypeOK)
  <2>1. CO!Routes = C!Routes /\ CO!Versions = C!Versions
        BY DEF CO!Routes, C!Routes, CO!Page, C!Page, CO!Versions, C!Versions,
               CO!Dashboard, C!Dashboard, CO!RedundancyMonitor, C!RedundancyMonitor,
               CO!Monitor, C!Monitor, CO!AlarmMonitor, C!AlarmMonitor, CO!Plugins, C!Plugins,
               CO!AlarmRules, C!AlarmRules, CO!Points, C!Points,
               CO!RedundancyConfig, C!RedundancyConfig
  <2> QED
      BY <2>1 DEF ConsoleHolds, C!ConsoleInv, C!TypeOK, CO!TypeOK
<1>7. LibraryHolds => (part = "library" => LI!TypeOK)
      BY LibraryReopens DEF LibraryHolds
<1>8. BindingsHold => (part = "bindings" => BI!TypeOK)
      BY DEF BindingsHold, BindingsInv
<1>9. LocalHolds => (part = "localAlarms" => LA!TypeOK)
      BY LocalPromises DEF LocalHolds
<1>10. (/\ PointsHold /\ SessionHolds /\ SyncHolds
        /\ DocumentHolds /\ RemoteHolds /\ ConsoleHolds
        /\ LibraryHolds /\ BindingsHold /\ LocalHolds) => TypeOK
       BY <1>1, <1>2, <1>3, <1>4, <1>5, <1>6, <1>7, <1>8, <1>9 DEF TypeOK
<1> QED
    BY <1>10, PointsAlways, SessionAlways, SyncAlways, DocumentAlways, RemoteAlways,
       ConsoleAlways, LibraryAlways, BindingsAlways, LocalAlways, PTL

\* Whoever the session of the editor is for is the user who logged in last
\* and has not logged out, also after a reload, or an answer came to a session
\* that had changed since it was asked for: RemoteAuthClient.
THEOREM SessionIsOfTheUser == Spec => []WhoLoggedIn
<1>1. SessionHolds => WhoLoggedIn
      BY DEF SessionHolds, WhoLoggedIn, A!SessionInv, A!WhoLoggedIn, AU!WhoLoggedIn
<1> QED
    BY <1>1, SessionAlways, PTL

\* As long as there is a session, a refresh of it is scheduled or under way:
\* scheduleRefresh, however logins, refreshes, password changes, reloads and
\* failures of the network follow each other.
THEOREM SessionIsKeptAlive == Spec => []KeptAlive
<1>1. SessionHolds => KeptAlive
      BY DEF SessionHolds, KeptAlive, A!SessionInv, A!KeptAlive, AU!KeptAlive
<1> QED
    BY <1>1, SessionAlways, PTL

\* The refresh token of the session is one the backend accepts; except after a
\* password change whose answer is on its way or was lost, and after an answer
\* that came to another session.
THEOREM SessionTokensAreValid == Spec => []TokensValid
<1>1. SessionHolds => TokensValid
      BY DEF SessionHolds, TokensValid, A!SessionInv, A!TokensValid, AU!TokensValid,
             AU!Idle, A!Idle
<1> QED
    BY <1>1, SessionAlways, PTL

\* Opening a project of the backend and restoring a backup, however many of them
\* wait for the backend or for IndexedDB at the same time, never lose the document
\* that each of them backed up: openRemoteProject and restoreDraftBackup.  Nothing
\* is said of what is edited between that and the load.
THEOREM NoEditIsLost == Spec => []NothingLost
<1>1. SyncHolds => NothingLost
      BY DEF SyncHolds, NothingLost, P!SyncInv, P!NothingLost, PS!NothingLost
<1> QED
    BY <1>1, SyncAlways, PTL

\* The sync button never replaces, unseen, what another engineer has pushed,
\* unless the project was deleted and created again, whose versions begin anew, or
\* the link and the document have come to be about different projects:
\* syncToBackend and its optimistic lock.
THEOREM SyncOverwritesNothingUnseen == Spec => []SyncSafe
<1>1. SyncHolds => SyncSafe
      BY DEF SyncHolds, SyncSafe, P!SyncInv, P!SyncSafe, PS!SyncSafe
<1> QED
    BY <1>1, SyncAlways, PTL

\* A variable that is defined and was imported shows the last value received for
\* it, also when that came before the definition, or what the operator has set
\* since: the replay of fetchVariablesFromBackend.
THEOREM TableShowsReceived == Spec => []ShowsReceived
<1>1. PointsHold => ShowsReceived
      BY DEF PointsHold, ShowsReceived, PointsInv
<1> QED
    BY <1>1, PointsAlways, PTL

\* While connected, a table that differs from the backend's has a reason: a
\* change announced or about to be fetched, a request on its way, one that failed
\* or was overtaken, or an edit by hand.
THEOREM TableIsOldForAReason == Spec => []OldForAReason
<1>1. PointsHold => OldForAReason
      BY DEF PointsHold, OldForAReason, PointsInv
<1> QED
    BY <1>1, PointsAlways, PTL

\* A bound shape on the active page whose transition is over shows the value of
\* its variable, in whatever order values, edits, undo, pages and transitions
\* come; but for the shapes in `excused` and smooth ones in groups: BindingEngine.
THEOREM ShapesShowVariable == Spec => []ShowsVariable
<1>1. BindingsHold => ShowsVariable
      BY DEF BindingsHold, ShowsVariable, BindingsInv, BI!ShowsVariable, BI!Bound, Following
<1> QED
    BY <1>1, BindingsAlways, PTL

\* Every active alarm of the editor's own engine is of a rule that is there and
\* enabled, and the only one of it; but for rules changed while a candidate of
\* theirs waited, of which tickConfirm keeps a copy: LocalAlarmEngine.
THEOREM LocalAlarmsStand == Spec => []AlarmStands
<1>1. LocalHolds => AlarmStands
      BY LocalPromises DEF LocalHolds, AlarmStands
<1> QED
    BY <1>1, LocalAlways, PTL

\* An alarm of that engine is raised once, acknowledged once at most and recovered
\* once at most, its status and times say so, and until a query narrows the list
\* it is active or among the recovered, whatever comes in which order: points,
\* the timer, changes of rules, acknowledgements, restarts: LocalAlarmEngine.
THEOREM LocalEventsTell == Spec => []EventsTell
<1>1. LocalHolds => EventsTell
      BY LocalPromises DEF LocalHolds, EventsTell
<1> QED
    BY <1>1, LocalAlways, PTL

\* Once nothing is on its way, the active alarms and the rules shown are the
\* backend's and the count of unacknowledged alarms is that of its tables,
\* whatever connections were lost, modes switched and requests answered in
\* whatever order on the way: RemoteAlarmClient behind AlarmManager.
THEOREM AlarmsMirror == Spec => []Mirrors
<1>1. RemoteHolds => Mirrors
      BY RemotePromises DEF RemoteHolds, Mirrors
<1> QED
    BY <1>1, RemoteAlways, PTL

\* A library opened again is the one that was shown: no group is renamed, no item
\* taken out of its group and no section unfolded, but for items that were put
\* into a group deleted meanwhile: normalizeGrouping of a project opened against
\* every commit of LibraryController and the copy the store keeps.
THEOREM LibraryReopensTheSame == Spec => []ReopensTheSame
<1>1. LibraryHolds => ReopensTheSame
      BY LibraryReopens DEF LibraryHolds, ReopensTheSame
<1> QED
    BY <1>1, LibraryAlways, PTL

\* On a page of the console that polls, the rows shown are those of what is
\* selected as soon as the first answer has come: usePolling drops the answers to
\* what it asked for before.
THEOREM ConsoleShowsSelected == Spec => []ShowsSelected
<1>1. ConsoleHolds => ShowsSelected
      BY DEF ConsoleHolds, ShowsSelected, C!ConsoleInv, C!ShowsSelected, CO!ShowsSelected
<1> QED
    BY <1>1, ConsoleAlways, PTL

\* An operator who waits for every answer and is told of no failure never writes
\* a row he was shown over a newer version of it: useCrudTable, useModalForm and the
\* form of RedundancyConfig.  That he may write one he was not shown is not excluded.
THEOREM ConsoleWritesNothingBlindly == Spec => []NoBlindWrite
<1>1. ConsoleHolds => NoBlindWrite
      BY DEF ConsoleHolds, NoBlindWrite, C!ConsoleInv, C!NoBlindWrite, CO!NoBlindWrite
<1> QED
    BY <1>1, ConsoleAlways, PTL
=============================================================================
