------------------------- MODULE AlarmEngineProofs -------------------------
(* What AlarmEngine promises for every number of rules, of threads that      *)
(* serve requests and of occurrences, and for all bounds: the types, that no *)
(* alarm gets lost between the maps, and that a rule has one alarm.          *)
EXTENDS AlarmEngine, TLAPS, FiniteSetTheorems

-----------------------------------------------------------------------------
(* Where the threads are.                                                    *)

\* The accesses that come next in on_point, in tick and in the other calls.
OfBridge == {"idle", "read", "loop", "trigger", "instant", "candidate", "clear",
             "remove", "keep", "send"}
OfTimer  == {"idle", "scan", "read", "loop", "trigger", "clear", "send"}
OfCalls  == {"idle", "late", "read", "loop", "list", "next", "remove", "keep",
             "send", "write", "forget", "rebuild"}
Labels   == OfBridge \cup OfTimer \cup OfCalls
Calls    == {"none", "refresh", "change", "ack", "save", "delete", "replace",
             "rebuild"}
Recovers == {"save", "delete", "replace", "rebuild"}

\* A frame works on an occurrence in these accesses.
Handles == {"late", "remove", "keep", "send"}

Frame == [at : Labels, op : Calls, work : SUBSET Rules, hand : SUBSET Id,
          rule : Rules, item : 0..MaxOccurrences, new : [Rules -> Setting],
          msg : Occurrence]

\* The call that a frame of t serves fits the access.
Fits(t, f) ==
    CASE t = "bridge" -> f.at \in OfBridge /\ f.op \in {"none", "refresh", "change"}
      [] t = "timer"  -> f.at \in OfTimer /\ f.op = "none"
      [] OTHER -> /\ f.at \in OfCalls
                  /\ f.at = "late" => f.op = "ack"
                  /\ f.at = "rebuild" => f.op = "rebuild"
                  /\ f.at = "read" => f.op \in {"replace", "rebuild"}
                  /\ f.at \in {"list", "next", "remove", "keep"} => f.op \in Recovers
                  /\ f.at = "send" => f.op \in Recovers \cup {"ack"}

GoodFrame(t, f) == /\ f \in Frame /\ Fits(t, f)
                   /\ f.at \in Handles => f.item \in Id

Frames == /\ DOMAIN frame = Thread
          /\ frame = [t \in Thread |-> frame[t]]
          /\ \A t \in Thread : GoodFrame(t, frame[t])

Maps == /\ active \subseteq Id /\ unacked \subseteq Id /\ restored \subseteq Id
        /\ queue \in Seq(Id \X Occurrence)

TypeInv == TypeOK /\ Maps /\ Frames

-----------------------------------------------------------------------------
(* Every alarm nobody has acknowledged is in one place.                      *)

\* An occurrence on its way from active to recovered_unacked is in neither, and
\* in the hands of one thread.
OnTheWay ==
    \A t \in Thread : At(t, "keep") =>
        LET i == frame[t].item IN
        /\ occ[i].status = "recovered" /\ i \notin active \cup unacked
        /\ \A u \in Thread : At(u, "keep") /\ frame[u].item = i => u = t

Placed ==
    /\ \A i \in Issued : ~occ[i].acked =>
          \/ i \in active \cup unacked
          \/ \E t \in Thread : At(t, "keep") /\ frame[t].item = i
    /\ \A i \in unacked : ~occ[i].acked

AccountInv == OnTheWay /\ Placed

-----------------------------------------------------------------------------
(* A rule has one alarm.                                                     *)

\* on_point and tick hold the read guard while they work on rules, and those
\* that on_point works on stay enabled.
Guarded ==
    /\ frame["bridge"].at \notin {"idle", "read"} =>
           /\ "bridge" \in readers
           /\ \A r \in frame["bridge"].work : rules[r] \in Enabled
    /\ frame["timer"].at \notin {"idle", "scan", "read"} => "timer" \in readers

AboutTo(t, access, r) == At(t, access) /\ frame[t].rule = r

\* on_point triggers only what needs no confirmation.
NeedsNone(r) == AboutTo("bridge", "trigger", r) => rules[r] = "now"

Fresh(r) == ActiveFor(r) \ hasty

\* Whoever is about to trigger has found no alarm of the rule; what tick
\* triggers of a rule that needs no confirmation is not counted.
NoneYet(r) ==
    \A t \in Thread : AboutTo(t, "trigger", r) /\ (t = "timer" => rules[r] # "now")
                         => Fresh(r) = {}

AtMostOne(r) == \A i, j \in Fresh(r) \ restored : i = j

OneInv(r) == NeedsNone(r) /\ NoneYet(r) /\ AtMostOne(r)

-----------------------------------------------------------------------------
(* Types.                                                                    *)

LEMMA Constants ==
    /\ Unused \in Occurrence /\ Idle \in Frame
    /\ \A t \in Thread : GoodFrame(t, Idle)
    /\ {"bridge", "timer", "role"} \subseteq Thread /\ Web \subseteq Thread
<1>1. Unused \in Occurrence
      BY RuleSettings DEF Unused, Occurrence
<1>2. Unused.rule \in Rules
      BY <1>1 DEF Occurrence
<1>3. Idle \in Frame
      BY <1>1, <1>2, Bounds
      DEF Idle, Frame, Labels, OfCalls, Calls, Setting
<1>4. \A t \in Thread : GoodFrame(t, Idle)
      BY <1>3 DEF GoodFrame, Fits, Idle, Handles, OfBridge, OfTimer, OfCalls
<1> QED
    BY <1>1, <1>3, <1>4 DEF Thread

LEMMA TypeInit == ASSUME Init PROVE TypeInv
<1>1. TypeOK
      BY Constants, RuleSettings, Bounds DEF Init, TypeOK
<1>2. Maps
      BY DEF Init, Maps
<1>3. Frames
      BY Constants DEF Init, Frames
<1> QED
    BY <1>1, <1>2, <1>3 DEF TypeInv

\* A thread's frame is replaced by one that fits.
LEMMA PutFits ==
    ASSUME Frames, NEW t \in Thread, NEW f, GoodFrame(t, f), Put(t, f)
    PROVE  Frames'
BY DEF Frames, Put

\* An access that leaves the occurrences and the database alone.
LEMMA OnlyFrame ==
    ASSUME TypeInv, NEW t \in Thread, \E f : GoodFrame(t, f) /\ Put(t, f),
           UNCHANGED <<points, alarms, serving, disk, events>>,
           rules' \in [Rules -> Setting], confirm' \subseteq Rules, due' \subseteq confirm',
           readers' \subseteq Thread, writers' \subseteq Thread
    PROVE  TypeInv'
<1>1. Frames'
      BY PutFits DEF TypeInv
<1> QED
    BY <1>1 DEF TypeInv, TypeOK, Maps, points, alarms, disk

LEMMA ReadTypes ==
    ASSUME TypeInv, NEW t \in Thread, Read(t)
    PROVE  TypeInv'
<1> DEFINE f == frame[t]
<1>1. GoodFrame(t, f) /\ f.at = "read"
      BY DEF Read, At, TypeInv, Frames
<1>2. \E g : GoodFrame(t, g) /\ Put(t, g)
  <2>1. CASE t = "bridge"
    <3> DEFINE g == [f EXCEPT !.at = "loop", !.work = {r \in Rules : rules[r] \in Enabled}]
    <3>1. GoodFrame(t, g)
          BY <1>1, <2>1 DEF GoodFrame, Frame, Fits, OfBridge, Labels, Handles
    <3>2. Put(t, g)
          BY <1>1, <2>1 DEF Read, Put, GoodFrame, Fits
    <3> QED
        BY <3>1, <3>2
  <2>2. CASE t = "timer"
    <3> DEFINE g == [f EXCEPT !.at = "loop"]
    <3>1. GoodFrame(t, g)
          BY <1>1, <2>2 DEF GoodFrame, Frame, Fits, OfTimer, Labels, Handles
    <3>2. Put(t, g)
          BY <1>1, <2>2 DEF Read, Put, GoodFrame, Fits
    <3> QED
        BY <3>1, <3>2
  <2>3. CASE t \notin {"bridge", "timer"} /\ f.op = "replace"
    <3> DEFINE g == [f EXCEPT !.at = "loop", !.work = Dropped(f.new)]
    <3>1. GoodFrame(t, g)
          BY <1>1, <2>3 DEF GoodFrame, Frame, Fits, OfCalls, Labels, Handles, Dropped
    <3>2. Put(t, g)
          BY <2>3 DEF Read, Put
    <3> QED
        BY <3>1, <3>2
  <2>4. CASE t \notin {"bridge", "timer"} /\ f.op = "rebuild"
    <3> DEFINE g == [f EXCEPT !.at = "next"]
    <3>1. GoodFrame(t, g)
          BY <1>1, <2>4
          DEF GoodFrame, Frame, Fits, OfCalls, Labels, Handles, Recovers
    <3>2. Put(t, g)
          BY <2>4 DEF Read, Put
    <3> QED
        BY <3>1, <3>2
  <2> QED
      BY <1>1, <2>1, <2>2, <2>3, <2>4 DEF GoodFrame, Fits
<1> QED
    BY <1>2, OnlyFrame
    DEF Read, TypeInv, TypeOK, points, alarms, disk, pending

LEMMA LoopEndsTypes ==
    ASSUME TypeInv, NEW t \in Thread, LoopEnds(t)
    PROVE  TypeInv'
<1> DEFINE f == frame[t]
<1>1. GoodFrame(t, f) /\ f.at = "loop"
      BY DEF LoopEnds, At, TypeInv, Frames
<1>2. \E g : GoodFrame(t, g) /\ Put(t, g)
  <2>1. CASE f.op = "replace"
    <3>1. GoodFrame(t, [f EXCEPT !.at = "write"])
          BY <1>1, <2>1 DEF GoodFrame, Frame, Fits, OfCalls, Labels, Handles
    <3> QED
        BY <2>1, <3>1 DEF LoopEnds
  <2>2. CASE f.op # "replace"
        BY <2>2, Constants DEF LoopEnds
  <2> QED
      BY <2>1, <2>2
<1> QED
    BY <1>2, OnlyFrame
    DEF LoopEnds, TypeInv, TypeOK, points, alarms, disk, pending

LEMMA WriteTypes ==
    ASSUME TypeInv, NEW t \in Thread, Write(t)
    PROVE  TypeInv'
<1> DEFINE f == frame[t]
<1>1. GoodFrame(t, f) /\ f.at = "write"
      BY DEF Write, At, TypeInv, Frames
<1>2. \E g : GoodFrame(t, g) /\ Put(t, g)
  <2> DEFINE l == IF f.op # "save" THEN "forget" ELSE "list"
             g == [f EXCEPT !.at = l]
  <2>1. Put(t, g) \/ Put(t, Idle)
        BY DEF Write, Put
  <2>2. GoodFrame(t, g)
        BY <1>1
        DEF GoodFrame, Frame, Fits, OfBridge, OfTimer, OfCalls, Labels, Handles, Recovers
  <2> QED
      BY <2>1, <2>2, Constants
<1>3. f.new \in [Rules -> Setting] /\ f.rule \in Rules
      BY <1>1 DEF GoodFrame, Frame
<1>4. rules' \in [Rules -> Setting]
      BY <1>3 DEF Write, TypeInv, TypeOK
<1> QED
    BY <1>2, <1>4, OnlyFrame
    DEF Write, TypeInv, TypeOK, points, alarms, disk, pending

LEMMA ForgetTypes ==
    ASSUME TypeInv, NEW t \in Thread, ForgetCandidates(t)
    PROVE  TypeInv'
<1> DEFINE f == frame[t]
           g == [Idle EXCEPT !.at = "rebuild", !.op = "rebuild"]
<1>1. GoodFrame(t, f)
      BY DEF TypeInv, Frames
<1>2. t \notin {"bridge", "timer"} => GoodFrame(t, g)
      BY Constants DEF GoodFrame, Frame, Fits, OfCalls, Labels, Handles, Calls
<1>3. Put(t, g) \/ Put(t, Idle)
      BY DEF ForgetCandidates, Put
<1>4. t \notin {"bridge", "timer"}
      BY <1>1 DEF ForgetCandidates, At, GoodFrame, Fits, OfBridge, OfTimer
<1>5. Frames'
      BY <1>2, <1>3, <1>4, Constants, PutFits DEF TypeInv
<1>6. stored' \in [Rules -> Setting]
      BY DEF ForgetCandidates, TypeInv, TypeOK, Setting
<1> QED
    BY <1>5, <1>6
    DEF ForgetCandidates, Forget, TypeInv, TypeOK, Maps, points, alarms, disk, pending

LEMMA ListTypes ==
    ASSUME TypeInv, NEW t \in Thread,
           ListAlarms(t) \/ NextOccurrence(t) \/ NoOccurrence(t)
    PROVE  TypeInv'
<1> DEFINE f == frame[t]
<1>1. GoodFrame(t, f) /\ active \subseteq Id
      BY DEF TypeInv, Frames, Maps
<1>2. CASE ListAlarms(t)
  <2>1. PICK r \in Rules :
          /\ \/ At(t, "list")
             \/ At(t, "loop") /\ f.op = "replace"
          /\ Put(t, [f EXCEPT !.at = "next", !.hand = ActiveFor(r), !.work = @ \ {r}])
        BY <1>2 DEF ListAlarms
  <2> DEFINE g == [f EXCEPT !.at = "next", !.hand = ActiveFor(r), !.work = @ \ {r}]
  <2>2. GoodFrame(t, g)
        BY <1>1, <2>1
        DEF At, ActiveFor, GoodFrame, Frame, Fits, OfBridge, OfTimer, OfCalls,
            Labels, Handles, Recovers
  <2> QED
      BY <1>2, <2>1, <2>2, OnlyFrame
      DEF ListAlarms, TypeInv, TypeOK, points, alarms, disk, pending, locks
<1>3. CASE NextOccurrence(t)
  <2>1. PICK i \in f.hand :
          /\ f.at = "next"
          /\ \/ Put(t, [f EXCEPT !.hand = @ \ {i}])
             \/ Put(t, [f EXCEPT !.hand = @ \ {i}, !.item = i, !.at = "remove"])
        BY <1>3 DEF NextOccurrence, Put, At
  <2>2. GoodFrame(t, [f EXCEPT !.hand = @ \ {i}])
        BY <1>1, <2>1 DEF GoodFrame, Frame, Fits
  <2>3. i \in Id /\ i \in 0..MaxOccurrences
        BY <1>1, <2>1, Bounds DEF GoodFrame, Frame, Id
  <2>4. GoodFrame(t, [f EXCEPT !.hand = @ \ {i}, !.item = i, !.at = "remove"])
        BY <1>1, <2>1, <2>3
        DEF GoodFrame, Frame, Fits, OfBridge, OfTimer, OfCalls, Labels, Handles, Recovers
  <2> QED
      BY <1>3, <2>1, <2>2, <2>4, OnlyFrame
      DEF NextOccurrence, TypeInv, TypeOK, points, alarms, disk, pending, locks
<1>4. CASE NoOccurrence(t)
  <2>1. f.at = "next" /\ f.op \in Recovers
        BY <1>1, <1>4
        DEF NoOccurrence, At, GoodFrame, Fits, OfBridge, OfTimer, Recovers
  <2>2. \/ Put(t, Idle)
        \/ \E l \in {"write", "loop", "forget"} : Put(t, [f EXCEPT !.at = l])
        BY <1>4, <2>1 DEF NoOccurrence, Put, Recovers
  <2>3. \A l \in {"write", "loop", "forget"} : GoodFrame(t, [f EXCEPT !.at = l])
        BY <1>1, <2>1
        DEF GoodFrame, Frame, Fits, OfBridge, OfTimer, OfCalls, Labels, Handles, Recovers
  <2> QED
      BY <1>4, <2>2, <2>3, Constants, OnlyFrame
      DEF NoOccurrence, TypeInv, TypeOK, points, alarms, disk, pending, locks
<1> QED
    BY <1>2, <1>3, <1>4

-----------------------------------------------------------------------------
(* The accesses to the maps of alarms keep the types.                        *)

LEMMA DoneFits ==
    ASSUME NEW t \in Thread, GoodFrame(t, frame[t]),
           t \notin {"bridge", "timer"} => frame[t].op \in Recovers \cup {"ack"}
    PROVE  GoodFrame(t, Done(t))
<1> DEFINE f == [frame[t] EXCEPT !.item = 0, !.msg = Unused]
<1>1. 0 \in 0..MaxOccurrences
      BY Bounds
<1>2. f \in Frame /\ f.op = frame[t].op /\ f.at = frame[t].at
      BY <1>1, Constants DEF GoodFrame, Frame
<1> HIDE DEF f
<1>3. CASE t = "bridge"
  <2>1. Done(t) = [f EXCEPT !.at = "loop", !.work = @ \ {f.rule}]
        BY <1>2, <1>3 DEF Done, f, GoodFrame, Fits
  <2> QED
      BY <1>2, <1>3, <2>1 DEF GoodFrame, Frame, Fits, OfBridge, Labels, Handles
<1>4. CASE t = "timer"
  <2>1. Done(t) = [f EXCEPT !.at = "clear"]
        BY <1>4 DEF Done, f, GoodFrame, Fits
  <2> QED
      BY <1>2, <1>4, <2>1 DEF GoodFrame, Frame, Fits, OfTimer, Labels, Handles
<1>5. CASE t \notin {"bridge", "timer"} /\ f.op = "ack"
  <2>1. Done(t) = Idle
        BY <1>5 DEF Done, f
  <2> QED
      BY <2>1, Constants
<1>6. CASE t \notin {"bridge", "timer"} /\ f.op \in Recovers
  <2>1. Done(t) = [f EXCEPT !.at = "next"]
        BY <1>6 DEF Done, f, Recovers
  <2> QED
      BY <1>2, <1>6, <2>1
      DEF GoodFrame, Frame, Fits, OfCalls, Labels, Handles, Recovers
<1> QED
    BY <1>2, <1>3, <1>4, <1>5, <1>6

LEMMA SendTypes ==
    ASSUME TypeInv, NEW t \in Thread, Send(t)
    PROVE  TypeInv'
<1> DEFINE f == frame[t]
<1>1. GoodFrame(t, f) /\ f.at = "send" /\ Put(t, Done(t))
      BY DEF Send, At, TypeInv, Frames
<1>2. Frames'
      BY <1>1, DoneFits, PutFits
      DEF TypeInv, GoodFrame, Fits, OfBridge, OfTimer
<1>3. queue \in Seq(Id \X Occurrence) /\ Len(queue) < MaxQueue
      BY DEF Send, TypeInv, Maps
<1>4. <<f.item, f.msg>> \in Id \X Occurrence
      BY <1>1 DEF GoodFrame, Frame, Handles
<1>5. queue' \in Seq(Id \X Occurrence) /\ Len(queue') <= MaxQueue
  <2>1. queue' = Append(queue, <<f.item, f.msg>>)
        BY DEF Send
  <2>2. Len(queue') = Len(queue) + 1 /\ queue' \in Seq(Id \X Occurrence)
        BY <1>3, <1>4, <2>1
  <2> QED
      BY <1>3, <2>2, Bounds
<1> QED
    BY <1>2, <1>5 DEF Send, TypeInv, TypeOK, Maps, points, alarms, locks, pending

LEMMA TriggerTypes ==
    ASSUME TypeInv, NEW t \in Thread, Trigger(t)
    PROVE  TypeInv'
<1> DEFINE f == frame[t]
           instant == At(t, "instant")
           o == [rule |-> f.rule, acked |-> FALSE, over |-> instant,
                 status |-> IF instant THEN "recovered" ELSE "active"]
<1>1. PICK i \in Id \ Issued :
        /\ occ' = [occ EXCEPT ![i] = o]
        /\ active' = IF instant THEN active ELSE active \cup {i}
        /\ unacked' = IF instant THEN unacked \cup {i} ELSE unacked
        /\ Put(t, [f EXCEPT !.at = "send", !.item = i, !.msg = o])
      BY DEF Trigger
<1>2. GoodFrame(t, f) /\ f.at \in {"trigger", "instant"}
      BY DEF Trigger, At, TypeInv, Frames
<1>3. o \in Occurrence
      BY <1>2 DEF Occurrence, At, GoodFrame, Frame
<1>4. i \in Id /\ i \in 0..MaxOccurrences
      BY <1>1, Bounds DEF Id
<1> HIDE DEF o
<1>5. Frames'
  <2>1. GoodFrame(t, [f EXCEPT !.at = "send", !.item = i, !.msg = o])
        BY <1>2, <1>3, <1>4
        DEF GoodFrame, Frame, Fits, OfBridge, OfTimer, OfCalls, Labels, Handles
  <2> QED
      BY <1>1, <2>1, PutFits DEF TypeInv
<1>6. /\ occ' \in [Id -> Occurrence] /\ active' \subseteq Id /\ unacked' \subseteq Id
      /\ \A j \in Id : j # i => occ'[j] = occ[j]
      /\ occ'[i] = o
      BY <1>1, <1>3, <1>4 DEF TypeInv, TypeOK, Maps
<1>7. i \notin active \cup unacked
      BY <1>1 DEF TypeInv, TypeOK, Issued
<1>8. /\ \A j \in active' : occ'[j].status \in {"active", "acknowledged"}
      /\ \A j \in unacked' : occ'[j].status = "recovered"
      BY <1>1, <1>6, <1>7 DEF TypeInv, TypeOK, Maps, o
<1> QED
    BY <1>5, <1>6, <1>8 DEF Trigger, TypeInv, TypeOK, Maps, points, locks, disk, pending

LEMMA RecoverTypes ==
    ASSUME TypeInv, OnTheWay, NEW t \in Thread,
           Remove(t) \/ Keep(t) \/ AckRecovered(t)
    PROVE  TypeInv'
<1> DEFINE f == frame[t]
           i == f.item
<1>1. GoodFrame(t, f) /\ f.at \in {"remove", "keep", "late"}
      BY DEF Remove, Keep, AckRecovered, At, TypeInv, Frames
<1>2. i \in Id /\ occ[i] \in Occurrence /\ occ \in [Id -> Occurrence]
      BY <1>1 DEF GoodFrame, Handles, TypeInv, TypeOK
<1>3. CASE Remove(t)
  <2>1. f.at = "remove"
        BY <1>3 DEF Remove, At
  <2>2. CASE i \in active
    <3> DEFINE o == [occ[i] EXCEPT !.status = "recovered", !.over = TRUE]
    <3>1. /\ active' = active \ {i} /\ Put(t, [f EXCEPT !.at = "keep"])
          /\ occ' = [occ EXCEPT ![i].status = "recovered", ![i].over = TRUE]
          BY <1>3, <2>2 DEF Remove
    <3>2. occ' = [occ EXCEPT ![i] = o] 
          BY <1>2, <3>1
    <3>3. o \in Occurrence /\ o.status = "recovered"
          BY <1>2 DEF Occurrence
    <3>4. GoodFrame(t, [f EXCEPT !.at = "keep"])
          BY <1>1, <2>1
          DEF GoodFrame, Frame, Fits, OfBridge, OfTimer, OfCalls, Labels, Handles, Recovers
    <3>5. Frames'
          BY <3>1, <3>4, PutFits DEF TypeInv
    <3> HIDE DEF o
    <3>6. /\ occ' \in [Id -> Occurrence]
          /\ \A j \in active' : occ'[j].status \in {"active", "acknowledged"}
          /\ \A j \in unacked : occ'[j].status = "recovered"
          BY <1>2, <3>1, <3>2, <3>3 DEF TypeInv, TypeOK, Maps
    <3> QED
        BY <1>3, <3>1, <3>5, <3>6
        DEF Remove, TypeInv, TypeOK, Maps, points, locks, disk, pending
  <2>3. CASE i \notin active
    <3>1. Put(t, Done(t)) /\ UNCHANGED <<active, occ>>
          BY <1>3, <2>3 DEF Remove
    <3>2. Frames'
          BY <1>1, <2>1, <3>1, DoneFits, PutFits
          DEF TypeInv, GoodFrame, Fits, OfTimer
    <3> QED
        BY <1>3, <3>1, <3>2
        DEF Remove, TypeInv, TypeOK, Maps, points, locks, disk, pending
  <2> QED
      BY <2>2, <2>3
<1>4. CASE Keep(t)
  <2> DEFINE g == [f EXCEPT !.at = "send", !.msg = occ[i]]
  <2>1. f.at = "keep" /\ Put(t, g) /\ occ[i] = occ'[i] /\ UNCHANGED <<occ, active>>
        BY <1>4 DEF Keep, At
  <2>2. GoodFrame(t, g)
        BY <1>1, <1>2, <2>1
        DEF GoodFrame, Frame, Fits, OfBridge, OfTimer, OfCalls, Labels, Handles, Recovers
  <2>3. Frames'
        BY <2>1, <2>2, PutFits DEF TypeInv
  <2>4. \A j \in unacked' : occ[j].status = "recovered"
        BY <1>4, <2>1 DEF Keep, OnTheWay, At, TypeInv, TypeOK
  <2> QED
      BY <1>2, <1>4, <2>1, <2>3, <2>4
      DEF Keep, TypeInv, TypeOK, Maps, points, locks, disk, pending
<1>5. CASE AckRecovered(t)
  <2>1. f.at = "late" /\ t \notin {"bridge", "timer"}
        BY <1>1, <1>5
        DEF AckRecovered, At, GoodFrame, Fits, OfBridge, OfTimer
  <2>2. CASE i \in unacked
    <3> DEFINE o == Acked(occ[i])
               g == [f EXCEPT !.at = "send", !.msg = o]
    <3>1. /\ unacked' = unacked \ {i} /\ occ' = [occ EXCEPT ![i] = o]
          /\ Put(t, [f EXCEPT !.at = "send", !.msg = occ'[i]])
          BY <1>5, <2>2 DEF AckRecovered
    <3>2. o \in Occurrence /\ o.status = "acknowledged"
          BY <1>2 DEF Occurrence, Acked
    <3> HIDE DEF o
    <3>3. Put(t, g)
          BY <1>2, <3>1
    <3>4. GoodFrame(t, g)
          BY <1>1, <2>1, <3>2
          DEF GoodFrame, Frame, Fits, OfCalls, Labels, Handles, Recovers
    <3>5. Frames'
          BY <3>3, <3>4, PutFits DEF TypeInv
    <3>6. /\ occ' \in [Id -> Occurrence]
          /\ \A j \in active : occ'[j].status \in {"active", "acknowledged"}
          /\ \A j \in unacked' : occ'[j].status = "recovered"
          BY <1>2, <3>1, <3>2 DEF TypeInv, TypeOK, Maps
    <3> QED
        BY <1>5, <3>1, <3>5, <3>6
        DEF AckRecovered, TypeInv, TypeOK, Maps, points, locks, disk, pending
  <2>3. CASE i \notin unacked
    <3>1. Put(t, Idle) /\ UNCHANGED <<unacked, occ>>
          BY <1>5, <2>3 DEF AckRecovered
    <3>2. Frames'
          BY <3>1, Constants, PutFits DEF TypeInv
    <3> QED
        BY <1>5, <3>1, <3>2
        DEF AckRecovered, TypeInv, TypeOK, Maps, points, locks, disk, pending
  <2> QED
      BY <2>2, <2>3
<1> QED
    BY <1>3, <1>4, <1>5

LEMMA BridgeTypes ==
    ASSUME TypeInv, BridgeStep \/ \E v \in Values : OnPoint(v)
    PROVE  TypeInv'
<1> DEFINE f == frame["bridge"]
<1>1. "bridge" \in Thread /\ GoodFrame("bridge", f) /\ f.rule \in Rules
      BY Constants DEF TypeInv, Frames, GoodFrame, Frame
<1>2. ASSUME NEW v \in Values, OnPoint(v)
      PROVE  TypeInv'
  <2>1. \E g : GoodFrame("bridge", g) /\ Put("bridge", g)
    <3> DEFINE k == IF v.level = last.level THEN "refresh" ELSE "change"
               g == [Idle EXCEPT !.at = "read", !.op = k]
    <3>1. Put("bridge", g) \/ Put("bridge", Idle)
          BY <1>2 DEF OnPoint, Put
    <3>2. GoodFrame("bridge", g)
          BY Constants
          DEF GoodFrame, Frame, Fits, OfBridge, Labels, Handles, Calls
    <3> QED
        BY <1>1, <3>1, <3>2, Constants
  <2>2. Frames'
        BY <1>1, <2>1, PutFits DEF TypeInv
  <2> QED
      BY <1>2, <2>2
      DEF OnPoint, TypeInv, TypeOK, Maps, alarms, locks, disk, pending
<1>3. ASSUME NEW r \in Rules, EvaluateRule(r)
      PROVE  TypeInv'
  <2>1. Verdict(r) \in {"nothing", "instant", "candidate", "trigger", "clear"}
        BY DEF Verdict, ByValue
  <2>2. f.at = "loop"
        BY <1>3 DEF EvaluateRule, At
  <2>3. /\ GoodFrame("bridge", [f EXCEPT !.work = @ \ {r}])
        /\ \A l \in {"instant", "candidate", "trigger", "clear"} :
              GoodFrame("bridge", [f EXCEPT !.rule = r, !.at = l])
        BY <1>1, <1>3, <2>2
        DEF GoodFrame, Frame, Fits, OfBridge, Labels, Handles
  <2>4. \/ Put("bridge", [f EXCEPT !.work = @ \ {r}])
        \/ \E l \in {"instant", "candidate", "trigger", "clear"} :
              Put("bridge", [f EXCEPT !.rule = r, !.at = l])
        BY <1>3, <2>1 DEF EvaluateRule, Put
  <2> QED
      BY <1>1, <1>3, <2>3, <2>4, OnlyFrame
      DEF EvaluateRule, TypeInv, TypeOK, points, alarms, disk, pending, locks
<1>4. CASE UpdateCandidate
  <2>1. GoodFrame("bridge", Done("bridge")) /\ Put("bridge", Done("bridge"))
        BY <1>1, <1>4, DoneFits DEF UpdateCandidate
  <2> QED
      BY <1>1, <1>4, <2>1, OnlyFrame
      DEF UpdateCandidate, TypeInv, TypeOK, points, alarms, disk, pending, locks
<1>5. CASE ClearAndFind
  <2>1. f.at = "clear"
        BY <1>5 DEF ClearAndFind, At
  <2>2. \/ Put("bridge", Done("bridge"))
        \/ \E i \in ActiveFor(f.rule) :
              Put("bridge", [f EXCEPT !.at = "remove", !.item = i])
        BY <1>5 DEF ClearAndFind
  <2>3. GoodFrame("bridge", Done("bridge"))
        BY <1>1, DoneFits
  <2>4. \A i \in ActiveFor(f.rule) : i \in Id /\ i \in 0..MaxOccurrences
        BY Bounds DEF ActiveFor, TypeInv, Maps, Id
  <2>5. \A i \in ActiveFor(f.rule) :
           GoodFrame("bridge", [f EXCEPT !.at = "remove", !.item = i])
        BY <1>1, <2>1, <2>4
        DEF GoodFrame, Frame, Fits, OfBridge, Labels, Handles
  <2> QED
      BY <1>1, <1>5, <2>2, <2>3, <2>5, OnlyFrame
      DEF ClearAndFind, Forget, TypeInv, TypeOK, points, alarms, disk, pending, locks
<1> QED
    BY <1>2, <1>3, <1>4, <1>5 DEF BridgeStep

LEMMA TimerTypes ==
    ASSUME TypeInv, TimerStep \/ \E r \in Rules : Elapse(r)
    PROVE  TypeInv'
<1> DEFINE f == frame["timer"]
<1>1. "timer" \in Thread /\ GoodFrame("timer", f)
      BY Constants DEF TypeInv, Frames
<1>2. ASSUME NEW r \in Rules, Elapse(r)
      PROVE  TypeInv'
      BY <1>2
      DEF Elapse, TypeInv, TypeOK, Frames, Maps, points, alarms, locks, disk
<1>3. CASE TickLocksConfirm
  <2>1. GoodFrame("timer", [Idle EXCEPT !.at = "scan"])
        BY Constants DEF GoodFrame, Frame, Fits, OfTimer, Labels, Handles, Idle
  <2> QED
      BY <1>1, <1>3, <2>1, OnlyFrame
      DEF TickLocksConfirm, TypeInv, TypeOK, points, alarms, disk, pending, locks
<1>4. CASE TickScans
  <2> DEFINE expired == {r \in confirm : r \in due \/ rules[r] \in {"now", "gone"}}
             g == [Idle EXCEPT !.at = "read", !.work = expired]
  <2>1. expired \subseteq Rules
        BY DEF TypeInv, TypeOK
  <2>2. Put("timer", g) \/ Put("timer", Idle)
        BY <1>4 DEF TickScans, Put
  <2> HIDE DEF expired
  <2>3. GoodFrame("timer", g)
        BY <2>1, Constants
        DEF GoodFrame, Frame, Fits, OfTimer, Labels, Handles, Idle
  <2> QED
      BY <1>1, <1>4, <2>2, <2>3, Constants, OnlyFrame
      DEF TickScans, TypeInv, TypeOK, points, alarms, disk, pending, locks
<1>5. ASSUME NEW r \in Rules, TickJudges(r)
      PROVE  TypeInv'
  <2> DEFINE g(l) == [f EXCEPT !.rule = r, !.at = l]
  <2>1. f.at = "loop" /\ \E l \in {"trigger", "clear"} : Put("timer", g(l))
        BY <1>5 DEF TickJudges, At, Put
  <2>2. \A l \in {"trigger", "clear"} : GoodFrame("timer", g(l))
        BY <1>1, <2>1 DEF GoodFrame, Frame, Fits, OfTimer, Labels, Handles
  <2> QED
      BY <1>1, <1>5, <2>1, <2>2, OnlyFrame
      DEF TickJudges, TypeInv, TypeOK, points, alarms, disk, pending, locks
<1>6. CASE TickClears
  <2> DEFINE g == [f EXCEPT !.at = "loop", !.work = @ \ {f.rule}]
  <2>1. GoodFrame("timer", g) /\ Put("timer", g)
        BY <1>1, <1>6
        DEF TickClears, GoodFrame, Frame, Fits, OfTimer, Labels, Handles
  <2> QED
      BY <1>1, <1>6, <2>1, OnlyFrame
      DEF TickClears, Forget, TypeInv, TypeOK, points, alarms, disk, pending, locks
<1> QED
    BY <1>2, <1>3, <1>4, <1>5, <1>6 DEF TimerStep

LEMMA WebTypes ==
    ASSUME TypeInv, NEW t \in Web, Request(t)
    PROVE  TypeInv'
<1> DEFINE f == [Idle EXCEPT !.op = "ack"]
<1>1. t \in Thread /\ t \notin {"bridge", "timer", "role"}
      BY Threads DEF Thread
<1>2. /\ rules \in [Rules -> Setting] /\ stored \in [Rules -> Setting]
      /\ "gone" \in Setting
      BY DEF TypeInv, TypeOK, Setting
<1>3. ASSUME Happens("edit")
      PROVE  events' \in 0..MaxEvents
      BY <1>3, Bounds DEF Happens, TypeInv, TypeOK
<1>4. ASSUME NEW i \in Id, Ack(t, i)
      PROVE  TypeInv'
  <2> DEFINE ff == [Idle EXCEPT !.op = "ack", !.item = i]
             o == Acked(occ[i])
  <2>1. occ \in [Id -> Occurrence] /\ o \in Occurrence /\ o.status = "acknowledged"
        BY DEF Acked, Occurrence, TypeInv, TypeOK
  <2>2. i \in 0..MaxOccurrences
        BY Bounds DEF Id
  <2>3. ff \in Frame /\ ff.op = "ack" /\ ff.item = i
        BY <2>2, Constants DEF Frame, Calls
  <2> HIDE DEF ff, o
  <2>4. CASE i \in active /\ occ[i].status = "active"
    <3>1. occ' = [occ EXCEPT ![i] = o] /\ Put(t, [ff EXCEPT !.at = "send", !.msg = occ'[i]])
          BY <1>4, <2>4 DEF Ack, ff, o
    <3>2. occ'[i] = o
          BY <2>1, <3>1
    <3>3. GoodFrame(t, [ff EXCEPT !.at = "send", !.msg = o])
          BY <1>1, <2>1, <2>3
          DEF GoodFrame, Frame, Fits, OfCalls, Labels, Handles, Recovers
    <3>4. Frames'
          BY <1>1, <3>1, <3>2, <3>3, PutFits DEF TypeInv
    <3>5. /\ occ' \in [Id -> Occurrence]
          /\ \A j \in active : occ'[j].status \in {"active", "acknowledged"}
          /\ \A j \in unacked : occ'[j].status = "recovered"
          BY <2>1, <2>4, <3>1 DEF TypeInv, TypeOK, Maps
    <3> QED
        BY <1>4, <3>4, <3>5
        DEF Ack, TypeInv, TypeOK, Maps, points, locks, disk, pending
  <2>5. CASE ~(i \in active /\ occ[i].status = "active")
    <3>1. Put(t, [ff EXCEPT !.at = "late"]) /\ UNCHANGED occ
          BY <1>4, <2>5 DEF Ack, ff
    <3>2. GoodFrame(t, [ff EXCEPT !.at = "late"])
          BY <1>1, <2>3 DEF GoodFrame, Frame, Fits, OfCalls, Labels, Handles
    <3>3. Frames'
          BY <1>1, <3>1, <3>2, PutFits DEF TypeInv
    <3> QED
        BY <1>4, <3>1, <3>3
        DEF Ack, TypeInv, TypeOK, Maps, points, locks, disk, pending
  <2> QED
      BY <2>4, <2>5
<1>5. ASSUME NEW r \in Rules, NEW s \in Settings, SaveRule(t, r, s)
      PROVE  TypeInv'
  <2> DEFINE new == [rules EXCEPT ![r] = s]
             g == [Idle EXCEPT !.at = "write", !.op = "save", !.rule = r, !.new = new]
  <2>1. s \in Setting /\ new \in [Rules -> Setting]
        BY <1>2, RuleSettings DEF TypeInv, TypeOK
  <2> HIDE DEF new
  <2>2. GoodFrame(t, g)
        BY <1>1, <2>1, Constants
        DEF GoodFrame, Frame, Fits, OfCalls, Labels, Handles, Calls
  <2>3. Put(t, g)
        BY <1>5 DEF SaveRule, new
  <2>4. Frames'
        BY <1>1, <2>2, <2>3, PutFits DEF TypeInv
  <2>5. stored' \in [Rules -> Setting] /\ writers' \subseteq Thread
        BY <1>1, <1>2, <1>5, <2>1 DEF SaveRule, TypeInv, TypeOK
  <2> QED
      BY <1>3, <1>5, <2>4, <2>5
      DEF SaveRule, TypeInv, TypeOK, Maps, points, pending, alarms
<1>6. ASSUME NEW r \in Rules, DeleteRule(t, r)
      PROVE  TypeInv'
  <2> DEFINE new == [rules EXCEPT ![r] = "gone"]
             g == [Idle EXCEPT !.at = "list", !.op = "delete", !.rule = r, !.new = new]
  <2>1. new \in [Rules -> Setting]
        BY <1>2
  <2> HIDE DEF new
  <2>2. GoodFrame(t, g)
        BY <1>1, <2>1, Constants
        DEF GoodFrame, Frame, Fits, OfCalls, Labels, Handles, Calls, Recovers
  <2>3. Put(t, g)
        BY <1>6 DEF DeleteRule, new
  <2>4. Frames'
        BY <1>1, <2>2, <2>3, PutFits DEF TypeInv
  <2> QED
      BY <1>3, <1>6, <2>4
      DEF DeleteRule, TypeInv, TypeOK, Maps, points, pending, alarms, locks, disk
<1>7. ASSUME NEW new \in [Rules -> Settings \cup {"gone"}], PushRules(t, new)
      PROVE  TypeInv'
  <2> DEFINE g == [Idle EXCEPT !.at = "read", !.op = "replace", !.new = new]
  <2>1. new \in [Rules -> Setting]
        BY <1>2, RuleSettings
  <2>2. GoodFrame(t, g)
        BY <1>1, <2>1, Constants
        DEF GoodFrame, Frame, Fits, OfCalls, Labels, Handles, Calls
  <2>3. Frames'
        BY <1>1, <1>7, <2>2, PutFits DEF TypeInv, PushRules
  <2> QED
      BY <1>3, <1>7, <2>1, <2>3
      DEF PushRules, TypeInv, TypeOK, Maps, points, pending, alarms, locks
<1> QED
    BY <1>4, <1>5, <1>6, <1>7 DEF Request

LEMMA RestartTypes == ASSUME TypeInv, Restart PROVE TypeInv'
<1> DEFINE f == [Idle EXCEPT !.at = "rebuild", !.op = "rebuild"]
<1>1. GoodFrame("role", f)
      BY Constants
      DEF GoodFrame, Frame, Fits, OfCalls, Labels, Handles, Calls
<1>2. /\ frame' = [t \in Thread |-> IF t = "role" /\ serving' THEN f ELSE Idle]
      /\ occ' = db /\ active' = ListedActive /\ restored' = ListedActive
      /\ unacked' = ListedUnacked /\ rules' = stored /\ queue' = <<>>
      BY DEF Restart
<1>3. Frames'
      BY <1>1, <1>2, Constants DEF Frames
<1>4. events' \in 0..MaxEvents
      BY Bounds DEF Restart, Happens, TypeInv, TypeOK
<1>5. Len(queue') <= MaxQueue /\ queue' \in Seq(Id \X Occurrence)
      BY <1>2, Bounds
<1> QED
    BY <1>2, <1>3, <1>4, <1>5
    DEF Restart, TypeInv, TypeOK, Maps, ListedActive, ListedUnacked

LEMMA RoleTypes ==
    ASSUME TypeInv,
           Demote \/ Promote \/ Rebuild \/ Persist \/ \E v \in Values : ApplySync(v)
    PROVE  TypeInv'
<1> DEFINE f == frame["role"]
<1>1. "role" \in Thread /\ GoodFrame("role", f)
      BY Constants DEF TypeInv, Frames
<1>2. CASE Demote
      BY <1>2
      DEF Demote, TypeInv, TypeOK, Frames, Maps, points, pending, alarms, locks, disk
<1>3. ASSUME NEW v \in Values, ApplySync(v)
      PROVE  TypeInv'
      BY <1>3
      DEF ApplySync, TypeInv, TypeOK, Frames, Maps, pending, alarms, locks, disk
<1>4. CASE Promote
  <2> DEFINE g == [Idle EXCEPT !.at = "read", !.op = "replace", !.new = stored]
  <2>1. GoodFrame("role", g)
        BY Constants
        DEF TypeInv, TypeOK, GoodFrame, Frame, Fits, OfCalls, Labels, Handles, Calls
  <2>2. Frames'
        BY <1>1, <1>4, <2>1, PutFits DEF Promote, TypeInv
  <2>3. events' \in 0..MaxEvents
        BY <1>4, Bounds DEF Promote, Happens, TypeInv, TypeOK
  <2> QED
      BY <1>4, <2>2, <2>3
      DEF Promote, TypeInv, TypeOK, Maps, points, pending, alarms, locks, disk
<1>5. CASE Rebuild
  <2> DEFINE g == [f EXCEPT !.at = "read", !.hand = active]
  <2>1. GoodFrame("role", g)
        BY <1>1, <1>5
        DEF Rebuild, At, TypeInv, Maps, GoodFrame, Frame, Fits, OfCalls, Labels, Handles
  <2>2. Frames'
        BY <1>1, <1>5, <2>1, PutFits DEF Rebuild, TypeInv
  <2> QED
      BY <1>5, <2>2
      DEF Rebuild, TypeInv, TypeOK, Maps, pending, alarms, locks, disk
<1>6. CASE Persist
  <2>1. queue \in Seq(Id \X Occurrence) /\ queue # <<>>
        BY <1>6 DEF Persist, TypeInv, Maps
  <2>2. /\ Tail(queue) \in Seq(Id \X Occurrence)
        /\ Len(Tail(queue)) = Len(queue) - 1 /\ Len(queue) \in Nat
        /\ Head(queue) \in Id \X Occurrence
        BY <2>1
  <2>3. db' \in [Id -> Occurrence]
        BY <1>6, <2>2 DEF Persist, TypeInv, TypeOK
  <2>4. Len(queue') <= MaxQueue /\ queue' \in Seq(Id \X Occurrence)
        BY <1>6, <2>2, Bounds DEF Persist, TypeInv, TypeOK
  <2> QED
      BY <1>6, <2>3, <2>4
      DEF Persist, TypeInv, TypeOK, Frames, Maps, points, pending, alarms, locks
<1> QED
    BY <1>2, <1>3, <1>4, <1>5, <1>6

-----------------------------------------------------------------------------
(* Which threads recover an occurrence.                                      *)

\* One thread moves, neither to the second half of recover nor from it.
Moves(t) ==
    /\ frame[t].at # "keep" /\ frame'[t].at # "keep"
    /\ \A u \in Thread : u # t => frame'[u] = frame[u]

LEMMA PutMoves ==
    ASSUME TypeInv, NEW t \in Thread, frame[t].at # "keep",
           NEW f, f.at # "keep", Put(t, f)
    PROVE  Moves(t)
BY DEF Moves, Put, TypeInv, Frames

LEMMA DoneMoves ==
    ASSUME TypeInv, NEW t \in Thread
    PROVE  Done(t).at # "keep"
<1>1. frame[t] \in Frame
      BY DEF TypeInv, Frames, GoodFrame
<1> DEFINE f == [frame[t] EXCEPT !.item = 0, !.msg = Unused]
<1>2. 0 \in 0..MaxOccurrences /\ Unused \in Occurrence
      BY Constants, Bounds
<1>3. f \in Frame
      BY <1>1, <1>2 DEF Frame
<1> HIDE DEF f
<1>4. CASE Done(t) = [f EXCEPT !.at = "loop", !.work = @ \ {f.rule}]
      BY <1>3, <1>4 DEF Frame
<1>5. CASE Done(t) = [f EXCEPT !.at = "clear"]
      BY <1>3, <1>5 DEF Frame
<1>6. CASE Done(t) = Idle
      BY <1>6 DEF Idle
<1>7. CASE Done(t) = [f EXCEPT !.at = "next"]
      BY <1>3, <1>7 DEF Frame
<1> QED
    BY <1>4, <1>5, <1>6, <1>7 DEF Done, f

LEMMA RunMoves ==
    ASSUME TypeInv, NEW t \in Thread,
           Run(t), ~Remove(t), ~Keep(t)
    PROVE  Moves(t)
<1> DEFINE f == frame[t]
<1>1. f \in Frame /\ Fits(t, f)
      BY DEF TypeInv, Frames, GoodFrame
<1>2. CASE Read(t)
  <2>1. f.at = "read"
        BY <1>2 DEF Read, At
  <2>2. \E l \in {"loop", "next"} : \/ Put(t, [f EXCEPT !.at = l])
                                    \/ \E w : Put(t, [f EXCEPT !.at = l, !.work = w])
        BY <1>1, <1>2, <2>1 DEF Read, Put, Fits
  <2> QED
      BY <1>1, <2>1, <2>2, PutMoves DEF Frame
<1>3. CASE LoopEnds(t)
      BY <1>1, <1>3, PutMoves DEF LoopEnds, At, Frame, Idle
<1>4. CASE Trigger(t)
      BY <1>1, <1>4, PutMoves DEF Trigger, At, Frame
<1>5. CASE Send(t)
      BY <1>1, <1>5, PutMoves, DoneMoves DEF Send, At
<1>6. CASE AckRecovered(t)
      BY <1>1, <1>6, PutMoves DEF AckRecovered, At, Frame, Idle
<1>7. CASE ListAlarms(t)
      BY <1>1, <1>7, PutMoves DEF ListAlarms, At, Frame
<1>8. CASE NextOccurrence(t)
      BY <1>1, <1>8, PutMoves DEF NextOccurrence, At, Frame
<1>9. CASE NoOccurrence(t)
  <2>1. f.at = "next" /\ f.op \in Recovers
        BY <1>1, <1>9 DEF NoOccurrence, At, Fits, OfBridge, OfTimer
  <2>2. Put(t, Idle) \/ \E l \in {"write", "loop", "forget"} : Put(t, [f EXCEPT !.at = l])
        BY <1>9, <2>1 DEF NoOccurrence, Put, Recovers
  <2> QED
      BY <1>1, <2>1, <2>2, PutMoves DEF Frame, Idle
<1>10. CASE Write(t)
      BY <1>1, <1>10, PutMoves DEF Write, At, Frame, Idle
<1>11. CASE ForgetCandidates(t)
      BY <1>1, <1>11, PutMoves DEF ForgetCandidates, At, Frame, Idle
<1> QED
    BY <1>2, <1>3, <1>4, <1>5, <1>6, <1>7, <1>8, <1>9, <1>10, <1>11 DEF Run

LEMMA BridgeMoves ==
    ASSUME TypeInv, BridgeStep \/ \E v \in Values : OnPoint(v)
    PROVE  Moves("bridge")
<1> DEFINE f == frame["bridge"]
<1>1. "bridge" \in Thread /\ f \in Frame
      BY Constants DEF TypeInv, Frames, GoodFrame
<1>2. ASSUME NEW v \in Values, OnPoint(v)
      PROVE  Moves("bridge")
      BY <1>1, <1>2, PutMoves DEF OnPoint, ManagerFree, At, Frame, Idle
<1>3. ASSUME NEW r \in Rules, EvaluateRule(r)
      PROVE  Moves("bridge")
  <2>1. Verdict(r) # "keep"
        BY DEF Verdict, ByValue
  <2> QED
      BY <1>1, <1>3, <2>1, PutMoves DEF EvaluateRule, At, Frame
<1>4. CASE UpdateCandidate
      BY <1>1, <1>4, PutMoves, DoneMoves DEF UpdateCandidate, At
<1>5. CASE ClearAndFind
      BY <1>1, <1>5, PutMoves, DoneMoves DEF ClearAndFind, At, Frame
<1> QED
    BY <1>2, <1>3, <1>4, <1>5 DEF BridgeStep

LEMMA OtherMoves ==
    ASSUME TypeInv
    PROVE  /\ TimerStep => Moves("timer")
           /\ Rebuild \/ Promote => Moves("role")
           /\ \A t \in Web : Request(t) => Moves(t)
<1> DEFINE f(t) == frame[t]
<1>1. \A t \in Thread : f(t) \in Frame
      BY DEF TypeInv, Frames, GoodFrame
<1>2. {"timer", "role"} \subseteq Thread /\ Web \subseteq Thread
      BY Constants
<1>3. ASSUME TimerStep
      PROVE  Moves("timer")
  <2>1. CASE TickLocksConfirm
        BY <1>2, <2>1, PutMoves DEF TickLocksConfirm, At, Idle
  <2>2. CASE TickScans
        BY <1>2, <2>2, PutMoves DEF TickScans, At, Idle
  <2>3. CASE TickClears
        BY <1>1, <1>2, <2>3, PutMoves DEF TickClears, At, Frame
  <2>4. ASSUME NEW r \in Rules, TickJudges(r)
        PROVE  Moves("timer")
        BY <1>1, <1>2, <2>4, PutMoves DEF TickJudges, At, Frame
  <2> QED
      BY <1>3, <2>1, <2>2, <2>3, <2>4 DEF TimerStep
<1>4. ASSUME Rebuild \/ Promote
      PROVE  Moves("role")
      BY <1>1, <1>2, <1>4, PutMoves DEF Rebuild, Promote, At, Frame, Idle
<1>5. ASSUME NEW t \in Web, Request(t)
      PROVE  Moves(t)
  <2>1. frame[t].at = "idle"
        BY <1>5 DEF Request, Ack, SaveRule, DeleteRule, PushRules, At
  <2>2. \E f2 : f2.at # "keep" /\ Put(t, f2)
        BY <1>5 DEF Request, Ack, SaveRule, DeleteRule, PushRules, Idle
  <2> QED
      BY <1>2, <2>1, <2>2, PutMoves
<1> QED
    BY <1>3, <1>4, <1>5

-----------------------------------------------------------------------------
(* No alarm gets lost between the maps.                                      *)

\* A step that leaves the alarms and whoever recovers them alone.
LEMMA AccountsKept ==
    ASSUME AccountInv, UNCHANGED <<occ, active, unacked>>,
           (\E t \in Thread : Moves(t)) \/ UNCHANGED frame
    PROVE  AccountInv'
<1>1. \A t \in Thread : At(t, "keep")' <=> At(t, "keep")
      BY DEF Moves, At
<1>2. \A t \in Thread : At(t, "keep") => frame'[t] = frame[t]
      BY DEF Moves, At
<1>3. OnTheWay'
      BY <1>1, <1>2 DEF AccountInv, OnTheWay
<1>4. Placed'
      BY <1>1, <1>2 DEF AccountInv, Placed, Issued
<1> QED
    BY <1>3, <1>4 DEF AccountInv

LEMMA TriggerAccounts ==
    ASSUME TypeInv, AccountInv, NEW t \in Thread, Trigger(t)
    PROVE  AccountInv'
<1>1. Moves(t)
      BY RunMoves DEF Trigger, Remove, Keep, Run, At
<1>2. PICK i \in Id \ Issued :
        /\ occ' = [occ EXCEPT ![i] =
              [rule |-> frame[t].rule, acked |-> FALSE, over |-> At(t, "instant"),
               status |-> IF At(t, "instant") THEN "recovered" ELSE "active"]]
        /\ active' = IF At(t, "instant") THEN active ELSE active \cup {i}
        /\ unacked' = IF At(t, "instant") THEN unacked \cup {i} ELSE unacked
      BY DEF Trigger
<1>3. /\ occ'[i].acked = FALSE /\ \A j \in Id : j # i => occ'[j] = occ[j]
      /\ active' \cup unacked' = active \cup unacked \cup {i}
      BY <1>2 DEF TypeInv, TypeOK
<1>4. \A u \in Thread : At(u, "keep")' <=> At(u, "keep")
      BY <1>1 DEF Moves, At
<1>5. \A u \in Thread : At(u, "keep") =>
         frame'[u] = frame[u] /\ frame[u].item \in Id \ {i}
      BY <1>1, <1>2
      DEF Moves, At, AccountInv, OnTheWay, Issued, TypeInv, Frames, GoodFrame, Handles
<1>6. OnTheWay'
      BY <1>3, <1>4, <1>5 DEF AccountInv, OnTheWay
<1>7. Placed'
  <2>1. \A j \in Issued' : ~occ'[j].acked =>
           \/ j \in active' \cup unacked'
           \/ \E u \in Thread : At(u, "keep")' /\ frame'[u].item = j
        BY <1>3, <1>4, <1>5 DEF AccountInv, Placed, Issued
  <2>2. \A j \in unacked' : ~occ'[j].acked
        BY <1>2, <1>3 DEF AccountInv, Placed, TypeInv, Maps
  <2> QED
      BY <2>1, <2>2 DEF Placed
<1> QED
    BY <1>6, <1>7 DEF AccountInv

LEMMA RemoveAccounts ==
    ASSUME TypeInv, AccountInv, active \cap unacked = {},
           NEW t \in Thread, Remove(t)
    PROVE  AccountInv'
<1> DEFINE i == frame[t].item
<1>1. frame[t].at = "remove" /\ frame[t] \in Frame /\ i \in Id
      BY DEF Remove, At, TypeInv, Frames, GoodFrame, Handles
<1>2. CASE i \in active
  <2>1. /\ active' = active \ {i} /\ UNCHANGED unacked
        /\ occ' = [occ EXCEPT ![i].status = "recovered", ![i].over = TRUE]
        /\ Put(t, [frame[t] EXCEPT !.at = "keep"])
        BY <1>2 DEF Remove
  <2>2. /\ frame'[t].at = "keep" /\ frame'[t].item = i
        /\ \A u \in Thread : u # t => frame'[u] = frame[u]
        BY <1>1, <2>1 DEF Put, TypeInv, Frames, Frame
  <2>3. /\ occ'[i].status = "recovered" /\ occ'[i].acked = occ[i].acked
        /\ \A j \in Id : j # i => occ'[j] = occ[j]
    <3>1. occ \in [Id -> Occurrence] /\ occ[i] \in Occurrence
          BY <1>1 DEF TypeInv, TypeOK
    <3>2. occ' = [occ EXCEPT ![i] = [occ[i] EXCEPT !.status = "recovered", !.over = TRUE]]
          BY <1>1, <2>1, <3>1
    <3> QED
        BY <1>1, <3>1, <3>2 DEF Occurrence
  <2>4. \A u \in Thread : u # t /\ At(u, "keep") => frame[u].item \in Id \ {i}
    <3> SUFFICES ASSUME NEW u \in Thread, At(u, "keep")
                 PROVE  frame[u].item \in Id \ {i}
        OBVIOUS
    <3>1. frame[u].item \in Id
          BY DEF At, TypeInv, Frames, GoodFrame, Handles
    <3>2. frame[u].item \notin active
          BY DEF AccountInv, OnTheWay
    <3> QED
        BY <1>2, <3>1, <3>2
  <2>5. OnTheWay'
    <3>1. /\ i \notin active' \cup unacked'
          /\ \A u \in Thread : At(u, "keep")' /\ frame'[u].item = i => u = t
          BY <1>2, <2>1, <2>2, <2>4 DEF At
    <3>2. ASSUME NEW u \in Thread, u # t, At(u, "keep")'
          PROVE  LET j == frame'[u].item IN
                 /\ occ'[j].status = "recovered" /\ j \notin active' \cup unacked'
                 /\ \A w \in Thread : At(w, "keep")' /\ frame'[w].item = j => w = u
      <4> DEFINE j == frame[u].item
      <4>1. At(u, "keep") /\ frame'[u] = frame[u] /\ j \in Id \ {i}
            BY <2>2, <2>4, <3>2 DEF At
      <4>2. /\ occ[j].status = "recovered" /\ j \notin active \cup unacked
            /\ \A w \in Thread : At(w, "keep") /\ frame[w].item = j => w = u
            BY <4>1 DEF AccountInv, OnTheWay
      <4>3. ASSUME NEW w \in Thread, At(w, "keep")', frame'[w].item = j
            PROVE  w = u
        <5>1. w # t
              BY <2>2, <4>1, <4>3
        <5> QED
            BY <2>2, <4>2, <4>3, <5>1 DEF At
      <4> QED
          BY <2>1, <2>3, <4>1, <4>2, <4>3
    <3> QED
        BY <2>2, <2>3, <3>1, <3>2 DEF OnTheWay
  <2>6. Placed'
    <3>1. \A j \in Issued' : ~occ'[j].acked =>
             \/ j \in active' \cup unacked'
             \/ \E u \in Thread : At(u, "keep")' /\ frame'[u].item = j
          BY <1>1, <2>1, <2>2, <2>3 DEF AccountInv, Placed, Issued, At
    <3>2. \A j \in unacked' : ~occ'[j].acked
          BY <1>2, <2>1, <2>3 DEF AccountInv, Placed, TypeInv, Maps
    <3> QED
        BY <3>1, <3>2 DEF Placed
  <2> QED
      BY <2>5, <2>6 DEF AccountInv
<1>3. CASE i \notin active
  <2>1. Put(t, Done(t)) /\ UNCHANGED <<occ, active, unacked>>
        BY <1>3 DEF Remove
  <2>2. Moves(t)
        BY <1>1, <2>1, PutMoves, DoneMoves
  <2> QED
      BY <2>1, <2>2, AccountsKept
<1> QED
    BY <1>2, <1>3

LEMMA KeepAccounts ==
    ASSUME TypeInv, AccountInv, NEW t \in Thread, Keep(t)
    PROVE  AccountInv'
<1> DEFINE i == frame[t].item
<1>1. At(t, "keep") /\ i \in Id
      BY DEF Keep, At, TypeInv, Frames, GoodFrame, Handles
<1>2. /\ UNCHANGED <<occ, active>>
      /\ unacked' = IF occ[i].acked THEN unacked ELSE unacked \cup {i}
      BY DEF Keep
<1>3. /\ frame'[t].at = "send" /\ \A u \in Thread : u # t => frame'[u] = frame[u]
      BY DEF Keep, Put, TypeInv, Frames, GoodFrame, Frame
<1>4. \A u \in Thread : u # t /\ At(u, "keep") => frame[u].item # i
      BY <1>1 DEF AccountInv, OnTheWay
<1>5. OnTheWay'
      BY <1>2, <1>3, <1>4 DEF AccountInv, OnTheWay, At
<1>6. Placed'
      BY <1>1, <1>2, <1>3 DEF AccountInv, Placed, Issued, At
<1> QED
    BY <1>5, <1>6 DEF AccountInv

\* An operator acknowledges i, in active or in recovered_unacked.
LEMMA AckAccounts ==
    ASSUME TypeInv, AccountInv, NEW t \in Thread, Moves(t), NEW i \in active \cup unacked,
           occ' = [occ EXCEPT ![i] = Acked(@)],
           UNCHANGED active, unacked' = unacked \ {i}
    PROVE  AccountInv'
<1>1. i \in Id /\ occ \in [Id -> Occurrence] /\ occ[i] \in Occurrence
      BY DEF TypeInv, TypeOK, Maps
<1>2. /\ occ'[i].acked = TRUE /\ \A j \in Id : j # i => occ'[j] = occ[j]
      BY <1>1 DEF Acked, Occurrence
<1>3. \A u \in Thread : At(u, "keep")' <=> At(u, "keep")
      BY DEF Moves, At
<1>4. \A u \in Thread : At(u, "keep") =>
         frame'[u] = frame[u] /\ frame[u].item \in Id \ {i}
      BY DEF Moves, At, AccountInv, OnTheWay, TypeInv, Frames, GoodFrame, Handles
<1>5. OnTheWay'
      BY <1>2, <1>3, <1>4 DEF AccountInv, OnTheWay
<1>6. Placed'
  <2>1. \A j \in Issued' : ~occ'[j].acked =>
           \/ j \in active' \cup unacked'
           \/ \E u \in Thread : At(u, "keep")' /\ frame'[u].item = j
        BY <1>2, <1>3, <1>4 DEF AccountInv, Placed, Issued
  <2>2. \A j \in unacked' : ~occ'[j].acked
        BY <1>2 DEF AccountInv, Placed, TypeInv, Maps
  <2> QED
      BY <2>1, <2>2 DEF Placed
<1> QED
    BY <1>5, <1>6 DEF AccountInv

LEMMA RestartAccounts ==
    ASSUME TypeInv, Restart
    PROVE  AccountInv'
<1>1. \A t \in Thread : ~At(t, "keep")'
      BY DEF Restart, At, Idle
<1>2. \A i \in Id : db[i].status \in {"unused", "active", "acknowledged", "recovered"}
      BY DEF TypeInv, TypeOK, Occurrence
<1>3. Placed'
      BY <1>2 DEF Restart, Placed, Issued, ListedActive, ListedUnacked
<1> QED
    BY <1>1, <1>3 DEF AccountInv, OnTheWay

-----------------------------------------------------------------------------
(* The two together.                                                         *)

LEMMA TypeStep == ASSUME TypeInv, OnTheWay, [Next]_vars PROVE TypeInv'
<1>1. ASSUME NEW t \in Thread, Run(t)
      PROVE  TypeInv'
      BY <1>1, ReadTypes, LoopEndsTypes, TriggerTypes, RecoverTypes, SendTypes,
         ListTypes, WriteTypes, ForgetTypes DEF Run
<1>2. CASE UNCHANGED vars
      BY <1>2
      DEF vars, points, pending, alarms, locks, disk, TypeInv, TypeOK, Maps, Frames
<1> QED
    BY <1>1, <1>2, BridgeTypes, TimerTypes, RoleTypes, WebTypes, RestartTypes
    DEF Next

LEMMA AccountStep == ASSUME TypeInv, AccountInv, [Next]_vars PROVE AccountInv'
<1>1. ASSUME NEW t \in Thread, Run(t)
      PROVE  AccountInv'
  <2>1. CASE Trigger(t)
        BY <2>1, TriggerAccounts
  <2>2. CASE Remove(t)
    <3>1. active \cap unacked = {}
          BY DEF TypeInv, TypeOK
    <3> QED
        BY <2>2, <3>1, RemoveAccounts
  <2>3. CASE Keep(t)
        BY <2>3, KeepAccounts
  <2>4. CASE AckRecovered(t)
    <3>1. Moves(t)
          BY <2>4, RunMoves DEF AckRecovered, Remove, Keep, Run, At
    <3>2. CASE frame[t].item \in unacked
          BY <2>4, <3>1, <3>2, AckAccounts DEF AckRecovered
    <3>3. CASE frame[t].item \notin unacked
          BY <2>4, <3>1, <3>3, AccountsKept DEF AckRecovered
    <3> QED
        BY <3>2, <3>3
  <2>5. CASE /\ ~Trigger(t) /\ ~Remove(t) /\ ~Keep(t) /\ ~AckRecovered(t)
    <3>1. UNCHANGED alarms
          BY <1>1, <2>5
          DEF Run, Read, LoopEnds, Send, ListAlarms, NextOccurrence, NoOccurrence,
              Write, ForgetCandidates
    <3> QED
        BY <1>1, <2>5, <3>1, RunMoves, AccountsKept DEF alarms
  <2> QED
      BY <2>1, <2>2, <2>3, <2>4, <2>5
<1>2. ASSUME NEW t \in Web, Request(t)
      PROVE  AccountInv'
  <2>1. Moves(t) /\ t \in Thread
        BY <1>2, OtherMoves, Constants
  <2>2. ASSUME NEW i \in Id, Ack(t, i)
        PROVE  AccountInv'
    <3>1. CASE i \in active /\ occ[i].status = "active"
      <4>1. i \notin unacked
            BY <3>1 DEF TypeInv, TypeOK
      <4> QED
          BY <2>1, <2>2, <3>1, <4>1, AckAccounts DEF Ack
    <3>2. CASE ~(i \in active /\ occ[i].status = "active")
          BY <2>1, <2>2, <3>2, AccountsKept DEF Ack
    <3> QED
        BY <3>1, <3>2
  <2>3. CASE UNCHANGED alarms
        BY <2>1, <2>3, AccountsKept DEF alarms
  <2> QED
      BY <1>2, <2>2, <2>3 DEF Request, SaveRule, DeleteRule, PushRules
<1>3. CASE BridgeStep \/ \E v \in Values : OnPoint(v)
  <2>1. UNCHANGED alarms
        BY <1>3
        DEF BridgeStep, EvaluateRule, UpdateCandidate, ClearAndFind, OnPoint
  <2> QED
      BY <1>3, <2>1, BridgeMoves, Constants, AccountsKept DEF alarms
<1>4. CASE TimerStep \/ Rebuild \/ Promote
  <2>1. UNCHANGED alarms
        BY <1>4
        DEF TimerStep, TickLocksConfirm, TickScans, TickClears, TickJudges, Rebuild,
            Promote
  <2> QED
      BY <1>4, <2>1, OtherMoves, Constants, AccountsKept DEF alarms
<1>5. CASE \/ Persist \/ Demote \/ UNCHANGED vars
           \/ \E r \in Rules : Elapse(r)
           \/ \E v \in Values : ApplySync(v)
      BY <1>5, AccountsKept
      DEF Persist, Demote, Elapse, ApplySync, vars, alarms
<1> QED
    BY <1>1, <1>2, <1>3, <1>4, <1>5, RestartAccounts DEF Next

Inv == TypeInv /\ AccountInv

LEMMA Invariance == Spec => []Inv
<1>1. Init => Inv
      BY TypeInit DEF Inv, AccountInv, OnTheWay, Placed, Init, Issued, At, Idle, Unused
<1>2. Inv /\ [Next]_vars => Inv'
      BY TypeStep, AccountStep DEF Inv, AccountInv
<1> QED
    BY <1>1, <1>2, PTL DEF Spec

\* Types and ranges of all variables, and the status each map holds.
THEOREM TypeCorrect == Spec => []TypeOK
<1>1. Inv => TypeOK
      BY DEF Inv, TypeInv
<1> QED
    BY <1>1, Invariance, PTL

\* Whoever acknowledges, recovers, edits rules, restarts or takes over, and in
\* whatever order their accesses fall: an alarm nobody has acknowledged is in
\* active, in recovered_unacked, or in the hands of the one thread that moves it.
THEOREM NoAlarmIsLost == Spec => []Accounted
<1>1. ASSUME Inv
      PROVE  Accounted
  <2>1. active \cap unacked = {}
        BY <1>1 DEF Inv, TypeInv, TypeOK
  <2>2. \A i \in unacked : ~occ[i].acked
        BY <1>1 DEF Inv, AccountInv, Placed
  <2>3. ASSUME NEW i \in Issued, ~occ[i].acked
        PROVE  LET keepers == {t \in Thread : At(t, "keep") /\ frame[t].item = i} IN
               \/ i \in active \cup unacked /\ keepers = {}
               \/ i \notin active \cup unacked /\ Cardinality(keepers) = 1
    <3> DEFINE keepers == {t \in Thread : At(t, "keep") /\ frame[t].item = i}
    <3>1. CASE i \in active \cup unacked
          BY <1>1, <3>1 DEF Inv, AccountInv, OnTheWay
    <3>2. CASE i \notin active \cup unacked
      <4>1. PICK t \in Thread : At(t, "keep") /\ frame[t].item = i
            BY <1>1, <2>3, <3>2 DEF Inv, AccountInv, Placed
      <4>2. keepers = {t}
            BY <1>1, <4>1 DEF Inv, AccountInv, OnTheWay
      <4>3. Cardinality(keepers) = 1
            BY <4>2, FS_Singleton
      <4> QED
          BY <3>2, <4>3
    <3> QED
        BY <3>1, <3>2
  <2> QED
      BY <2>1, <2>2, <2>3 DEF Accounted
<1> QED
    BY <1>1, Invariance, PTL

-----------------------------------------------------------------------------
(* What on_point and tick do about a rule.                                   *)

Others(t) == \A u \in Thread : u # t => frame'[u] = frame[u]

LEMMA RunOthers ==
    ASSUME TypeInv, NEW t \in Thread, Run(t)
    PROVE  Others(t)
<1>1. CASE Remove(t) \/ Keep(t)
      BY <1>1 DEF Remove, Keep, Put, Others, TypeInv, Frames
<1>2. CASE ~Remove(t) /\ ~Keep(t)
      BY <1>2, RunMoves DEF Moves, Others
<1> QED
    BY <1>1, <1>2

\* A step of on_point on its own frame.
BridgeRuns == Run("bridge") \/ BridgeStep \/ \E v \in Values : OnPoint(v)

\* A step that is not the choice of what to do about a rule triggers nothing
\* new, and works on no more rules.
Settled ==
    /\ frame'["bridge"].at \notin {"trigger", "candidate"}
    /\ \/ frame'["bridge"].at \in {"idle", "read"}
       \/ /\ frame["bridge"].at \notin {"idle", "read"}
          /\ frame'["bridge"].work \subseteq frame["bridge"].work

LEMMA PutSettled ==
    ASSUME TypeInv, NEW f, Put("bridge", f), f.at \notin {"trigger", "candidate"},
           \/ f.at \in {"idle", "read"}
           \/ /\ frame["bridge"].at \notin {"idle", "read"}
              /\ f.work \subseteq frame["bridge"].work
    PROVE  Settled
BY Constants DEF Settled, Put, TypeInv, Frames

LEMMA BridgeSettles ==
    ASSUME TypeInv, BridgeRuns
    PROVE  Settled \/ Read("bridge") \/ \E r \in Rules : EvaluateRule(r)
<1> DEFINE f == frame["bridge"]
<1>1. "bridge" \in Thread /\ f \in Frame /\ Fits("bridge", f) /\ GoodFrame("bridge", f)
      BY Constants DEF TypeInv, Frames, GoodFrame
<1>2. f.at \in OfBridge /\ f.op \in {"none", "refresh", "change"}
      BY <1>1 DEF Fits
<1>3. /\ Done("bridge").at = "loop" /\ Done("bridge").work \subseteq f.work
  <2> DEFINE g == [f EXCEPT !.item = 0, !.msg = Unused]
  <2>1. 0 \in 0..MaxOccurrences /\ Unused \in Occurrence
        BY Constants, Bounds
  <2>2. g \in Frame /\ g.work = f.work
        BY <1>1, <2>1 DEF Frame
  <2> HIDE DEF g
  <2>3. Done("bridge") = [g EXCEPT !.at = "loop", !.work = @ \ {g.rule}]
        BY <1>2 DEF Done, g
  <2> QED
      BY <2>2, <2>3 DEF Frame
<1>4. CASE LoopEnds("bridge")
      BY <1>2, <1>4, PutSettled DEF LoopEnds, Idle
<1>5. CASE Trigger("bridge")
      BY <1>1, <1>5, PutSettled DEF Trigger, At, Frame
<1>6. CASE Remove("bridge")
      BY <1>1, <1>3, <1>6, PutSettled DEF Remove, At, Frame
<1>7. CASE Keep("bridge")
      BY <1>1, <1>7, PutSettled DEF Keep, At, Frame
<1>8. CASE Send("bridge")
      BY <1>3, <1>8, PutSettled DEF Send, At
<1>9. CASE UpdateCandidate
      BY <1>3, <1>9, PutSettled DEF UpdateCandidate, At
<1>10. CASE ClearAndFind
      BY <1>1, <1>3, <1>10, PutSettled DEF ClearAndFind, At, Frame
<1>11. ASSUME NEW v \in Values, OnPoint(v)
       PROVE  Settled
      BY <1>11, PutSettled DEF OnPoint, Idle
<1>12. ~(\/ AckRecovered("bridge") \/ ListAlarms("bridge") \/ NextOccurrence("bridge")
         \/ NoOccurrence("bridge") \/ Write("bridge") \/ ForgetCandidates("bridge"))
      BY <1>2
      DEF AckRecovered, ListAlarms, NextOccurrence, NoOccurrence, Write,
          ForgetCandidates, At, OfBridge
<1> QED
    BY <1>4, <1>5, <1>6, <1>7, <1>8, <1>9, <1>10, <1>11, <1>12
    DEF BridgeRuns, Run, BridgeStep

-----------------------------------------------------------------------------
(* What the other calls do about a rule.                                     *)

CallThread == Thread \ {"bridge", "timer"}

\* A step of a thread that is neither on_point nor tick.
CallRuns(t) == \/ Run(t)
               \/ t \in Web /\ Request(t)
               \/ t = "role" /\ (Promote \/ Rebuild)

\* A call takes no guard from the others, and changes the rules only while
\* nobody reads them.
CallEffect(t) ==
    /\ Others(t)
    /\ rules' # rules => readers = {}
    /\ readers \subseteq readers' \cup {t}

LEMMA RunEffect ==
    ASSUME TypeInv, NEW t \in CallThread, Run(t)
    PROVE  CallEffect(t)
<1>1. Others(t)
      BY RunOthers DEF CallThread
<1>2. CASE Write(t) \/ ForgetCandidates(t)
      BY <1>1, <1>2 DEF Write, ForgetCandidates, CallEffect
<1>3. CASE ~Write(t) /\ ~ForgetCandidates(t)
      BY <1>1, <1>3
      DEF Run, Read, LoopEnds, Trigger, Remove, Keep, Send, AckRecovered, ListAlarms,
          NextOccurrence, NoOccurrence, CallEffect, locks
<1> QED
    BY <1>2, <1>3

LEMMA RequestEffect ==
    ASSUME TypeInv, NEW t \in Web, Request(t)
    PROVE  t \in CallThread /\ CallEffect(t)
<1>1. t \in CallThread /\ t \in Thread
      BY Threads DEF CallThread, Thread
<1>2. Others(t)
      BY <1>1, OtherMoves DEF Moves, Others
<1> QED
    BY <1>1, <1>2
    DEF Request, Ack, SaveRule, DeleteRule, PushRules, CallEffect, locks

LEMMA CallSettles ==
    ASSUME TypeInv, NEW t \in CallThread, CallRuns(t)
    PROVE  CallEffect(t)
<1>1. CASE t = "role" /\ (Promote \/ Rebuild)
  <2>1. Others(t) /\ t \in Thread
        BY <1>1, OtherMoves DEF Moves, Others, CallThread
  <2> QED
      BY <1>1, <2>1 DEF Promote, Rebuild, CallEffect, locks
<1> QED
    BY <1>1, RunEffect, RequestEffect DEF CallRuns

-----------------------------------------------------------------------------
(* What tick and on_point do about a rule.                                   *)

TimerRuns == Run("timer") \/ TimerStep

\* tick keeps the read guard while it works on rules, and triggers after it has
\* found no alarm.
TimerEffect ==
    /\ Others("timer") /\ rules' = rules
    /\ readers \subseteq readers' \cup {"timer"}
    /\ \/ frame'["timer"].at \in {"idle", "scan", "read"}
       \/ "timer" \in readers'
       \/ frame["timer"].at \notin {"idle", "scan", "read"} /\ readers' = readers
    /\ frame'["timer"].at = "trigger" => \E q \in Rules : TickJudges(q)

LEMMA TimerSettles ==
    ASSUME TypeInv, TimerRuns
    PROVE  TimerEffect
<1> DEFINE f == frame["timer"]
<1>1. "timer" \in Thread /\ f \in Frame /\ Fits("timer", f)
      BY Constants DEF TypeInv, Frames, GoodFrame
<1>2. f.at \in OfTimer /\ f.op = "none"
      BY <1>1 DEF Fits
<1>3. Others("timer")
      BY <1>1, RunOthers, OtherMoves DEF TimerRuns, Moves, Others
<1>4. ASSUME NEW g, Put("timer", g)
      PROVE  frame'["timer"] = g
      BY <1>1, <1>4 DEF Put, TypeInv, Frames
<1>5. CASE Read("timer")
  <2>1. Put("timer", [f EXCEPT !.at = "loop"])
        BY <1>2, <1>5 DEF Read, Put
  <2>2. frame'["timer"].at = "loop"
        BY <1>1, <1>4, <2>1 DEF Frame
  <2> QED
      BY <1>3, <1>5, <2>2 DEF Read, TimerEffect
<1>6. CASE LoopEnds("timer")
  <2>1. Put("timer", Idle)
        BY <1>2, <1>6 DEF LoopEnds
  <2>2. frame'["timer"].at = "idle"
        BY <1>4, <2>1 DEF Idle
  <2> QED
      BY <1>3, <1>6, <2>2 DEF LoopEnds, TimerEffect
<1>7. CASE Trigger("timer")
  <2>1. \E i, o : Put("timer", [f EXCEPT !.at = "send", !.item = i, !.msg = o])
        BY <1>7 DEF Trigger
  <2>2. frame'["timer"].at = "send"
        BY <1>1, <1>4, <2>1 DEF Frame
  <2> QED
      BY <1>3, <1>7, <2>2 DEF Trigger, At, TimerEffect, locks
<1>8. CASE Send("timer")
  <2> DEFINE g == [f EXCEPT !.item = 0, !.msg = Unused]
  <2>1. 0 \in 0..MaxOccurrences /\ Unused \in Occurrence
        BY Constants, Bounds
  <2>2. g \in Frame /\ g.op = "none"
        BY <1>1, <1>2, <2>1 DEF Frame
  <2> HIDE DEF g
  <2>3. Done("timer") = [g EXCEPT !.at = "clear"]
        BY <2>2 DEF Done, g
  <2>4. frame'["timer"].at = "clear"
        BY <1>4, <1>8, <2>2, <2>3 DEF Send, Frame
  <2> QED
      BY <1>3, <1>8, <2>4 DEF Send, At, TimerEffect, locks
<1>9. CASE TickLocksConfirm \/ TickScans
  <2>1. \/ Put("timer", Idle)
        \/ Put("timer", [Idle EXCEPT !.at = "scan"])
        \/ \E w : Put("timer", [Idle EXCEPT !.at = "read", !.work = w])
        BY <1>9 DEF TickLocksConfirm, TickScans, Put
  <2>2. /\ Idle.at = "idle" /\ [Idle EXCEPT !.at = "scan"].at = "scan"
        /\ \A w : [Idle EXCEPT !.at = "read", !.work = w].at = "read"
        BY DEF Idle
  <2>3. frame'["timer"].at \in {"idle", "scan", "read"}
        BY <1>4, <2>1, <2>2
  <2> QED
      BY <1>3, <1>9, <2>3 DEF TickLocksConfirm, TickScans, TimerEffect, locks
<1>10. CASE TickClears
  <2>1. frame'["timer"].at = "loop"
        BY <1>1, <1>4, <1>10 DEF TickClears, Frame
  <2> QED
      BY <1>3, <1>10, <2>1 DEF TickClears, At, TimerEffect, locks
<1>11. ASSUME NEW q \in Rules, TickJudges(q)
       PROVE  TimerEffect
      BY <1>3, <1>11 DEF TickJudges, At, TimerEffect, locks
<1>12. ~(\/ AckRecovered("timer") \/ ListAlarms("timer") \/ NextOccurrence("timer")
         \/ NoOccurrence("timer") \/ Write("timer") \/ ForgetCandidates("timer")
         \/ Remove("timer") \/ Keep("timer"))
      BY <1>2
      DEF AckRecovered, ListAlarms, NextOccurrence, NoOccurrence, Write,
          ForgetCandidates, Remove, Keep, At, OfTimer
<1> QED
    BY <1>5, <1>6, <1>7, <1>8, <1>9, <1>10, <1>11, <1>12
    DEF TimerRuns, Run, TimerStep

\* on_point leaves the rules and the guards of others alone.
BridgeEffect ==
    /\ Others("bridge") /\ rules' = rules
    /\ readers \subseteq readers' \cup {"bridge"}
    /\ \/ Settled
       \/ Read("bridge")
       \/ \E q \in Rules : EvaluateRule(q)
    /\ "bridge" \in readers => \/ "bridge" \in readers'
                               \/ frame'["bridge"].at = "idle"

LEMMA BridgeRunEffect ==
    ASSUME TypeInv, BridgeRuns
    PROVE  BridgeEffect
<1> DEFINE f == frame["bridge"]
<1>1. "bridge" \in Thread /\ f \in Frame /\ Fits("bridge", f)
      BY Constants DEF TypeInv, Frames, GoodFrame
<1>2. Others("bridge")
      BY <1>1, RunOthers, BridgeMoves DEF BridgeRuns, Moves, Others
<1>3. ~(\/ AckRecovered("bridge") \/ ListAlarms("bridge") \/ NextOccurrence("bridge")
        \/ NoOccurrence("bridge") \/ Write("bridge") \/ ForgetCandidates("bridge"))
      BY <1>1
      DEF AckRecovered, ListAlarms, NextOccurrence, NoOccurrence, Write, Fits,
          ForgetCandidates, At, OfBridge
<1>4. rules' = rules /\ readers \subseteq readers' \cup {"bridge"}
      BY <1>3
      DEF BridgeRuns, Run, BridgeStep, Read, LoopEnds, Trigger, Remove, Keep, Send,
          OnPoint, EvaluateRule, UpdateCandidate, ClearAndFind, locks
<1>5. CASE LoopEnds("bridge")
  <2>1. Put("bridge", Idle)
        BY <1>1, <1>5 DEF LoopEnds, Fits
  <2>2. frame'["bridge"].at = "idle"
        BY <1>1, <2>1 DEF Put, Idle, TypeInv, Frames
  <2> QED
      BY <1>2, <1>4, <2>2, BridgeSettles DEF BridgeEffect
<1>6. CASE ~LoopEnds("bridge")
  <2>1. "bridge" \in readers => "bridge" \in readers'
        BY <1>3, <1>6
        DEF BridgeRuns, Run, BridgeStep, Read, Trigger, Remove, Keep, Send,
            OnPoint, EvaluateRule, UpdateCandidate, ClearAndFind, locks
  <2> QED
      BY <1>2, <1>4, <2>1, BridgeSettles DEF BridgeEffect
<1> QED
    BY <1>5, <1>6

-----------------------------------------------------------------------------
(* Each part of OneInv through a step.                                       *)

\* A step that no thread takes on its own frame.
Quiet == /\ UNCHANGED <<frame, rules, readers>>
         /\ UNCHANGED alarms

LEMMA Movers ==
    ASSUME TypeInv, [Next]_vars
    PROVE  \/ BridgeEffect /\ BridgeRuns
           \/ TimerEffect /\ TimerRuns
           \/ \E t \in CallThread : CallRuns(t) /\ CallEffect(t)
           \/ Quiet
           \/ Restart
<1>1. "role" \in CallThread
      BY Threads DEF CallThread, Thread
<1>2. Web \subseteq CallThread
      BY Threads DEF CallThread, Thread
<1>3. ASSUME NEW t \in Thread, Run(t)
      PROVE  BridgeRuns \/ TimerRuns \/ (t \in CallThread /\ CallRuns(t))
      BY <1>3 DEF BridgeRuns, TimerRuns, CallRuns, CallThread
<1>4. CASE \/ Persist \/ Demote \/ UNCHANGED vars
           \/ \E r \in Rules : Elapse(r)
           \/ \E v \in Values : ApplySync(v)
      BY <1>4
      DEF Persist, Demote, Elapse, ApplySync, vars, alarms, Quiet, locks, pending, disk
<1>5. CASE Rebuild \/ Promote
      BY <1>1, <1>5, CallSettles DEF CallRuns
<1>6. ASSUME NEW t \in Web, Request(t)
      PROVE  t \in CallThread /\ CallRuns(t)
      BY <1>2, <1>6 DEF CallRuns
<1>7. CASE BridgeStep \/ \E v \in Values : OnPoint(v)
      BY <1>7, BridgeRunEffect DEF BridgeRuns
<1>8. CASE TimerStep
      BY <1>8, TimerSettles DEF TimerRuns
<1>9. CASE \E t \in Thread : Run(t)
      BY <1>3, <1>9, BridgeRunEffect, TimerSettles, CallSettles
<1> QED
    BY <1>4, <1>5, <1>6, <1>7, <1>8, <1>9, CallSettles DEF Next

\* Only Trigger makes an alarm.
LEMMA FewerAlarms ==
    ASSUME TypeInv, [Next]_vars, NEW r \in Rules,
           ~Restart, \A t \in Thread : ~Trigger(t)
    PROVE  UNCHANGED <<restored, hasty>> /\ ActiveFor(r)' \subseteq ActiveFor(r)
<1>1. active \subseteq Id /\ occ \in [Id -> Occurrence]
      BY DEF TypeInv, TypeOK, Maps
<1>2. ASSUME UNCHANGED <<restored, hasty>>, active' \subseteq active,
             \A i \in active : occ'[i].rule = occ[i].rule
      PROVE  UNCHANGED <<restored, hasty>> /\ ActiveFor(r)' \subseteq ActiveFor(r)
      BY <1>2 DEF ActiveFor
<1>3. ASSUME NEW t \in Thread, Remove(t)
      PROVE  UNCHANGED <<restored, hasty>> /\ ActiveFor(r)' \subseteq ActiveFor(r)
  <2>1. frame[t].item \in Id
        BY <1>3 DEF Remove, At, TypeInv, Frames, GoodFrame, Handles
  <2>2. \A i \in active : occ'[i].rule = occ[i].rule
        BY <1>1, <1>3, <2>1 DEF Remove, Occurrence
  <2> QED
      BY <1>2, <1>3, <2>2 DEF Remove
<1>4. ASSUME NEW t \in Thread, AckRecovered(t)
      PROVE  UNCHANGED <<restored, hasty>> /\ ActiveFor(r)' \subseteq ActiveFor(r)
  <2> DEFINE i == frame[t].item
  <2>1. i \in Id
        BY <1>4 DEF AckRecovered, At, TypeInv, Frames, GoodFrame, Handles
  <2>2. Acked(occ[i]).rule = occ[i].rule
        BY <1>1, <2>1 DEF Acked, Occurrence
  <2>3. occ' = occ \/ occ' = [occ EXCEPT ![i] = Acked(occ[i])]
        BY <1>4 DEF AckRecovered
  <2> HIDE DEF i
  <2>4. \A j \in active : occ'[j].rule = occ[j].rule
        BY <1>1, <2>1, <2>2, <2>3
  <2> QED
      BY <1>2, <1>4, <2>4 DEF AckRecovered
<1>5. ASSUME NEW t \in Web, NEW i \in Id, Ack(t, i)
      PROVE  UNCHANGED <<restored, hasty>> /\ ActiveFor(r)' \subseteq ActiveFor(r)
  <2>1. Acked(occ[i]).rule = occ[i].rule
        BY <1>1 DEF Acked, Occurrence
  <2>2. occ' = occ \/ occ' = [occ EXCEPT ![i] = Acked(occ[i])]
        BY <1>5 DEF Ack
  <2>3. \A j \in active : occ'[j].rule = occ[j].rule
        BY <1>1, <2>1, <2>2
  <2> QED
      BY <1>2, <1>5, <2>3 DEF Ack
<1>6. ASSUME UNCHANGED alarms
      PROVE  UNCHANGED <<restored, hasty>> /\ ActiveFor(r)' \subseteq ActiveFor(r)
      BY <1>2, <1>6 DEF alarms
<1>7. ASSUME NEW t \in Thread, Run(t)
      PROVE  UNCHANGED <<restored, hasty>> /\ ActiveFor(r)' \subseteq ActiveFor(r)
  <2>1. CASE Keep(t)
        BY <1>2, <2>1 DEF Keep
  <2>2. CASE ~Keep(t) /\ ~Remove(t) /\ ~AckRecovered(t)
    <3>1. UNCHANGED alarms
          BY <1>7, <2>2
          DEF Run, Read, LoopEnds, Send, ListAlarms, NextOccurrence, NoOccurrence,
              Write, ForgetCandidates
    <3> QED
        BY <1>6, <3>1
  <2> QED
      BY <1>3, <1>4, <2>1, <2>2
<1>8. ASSUME NEW t \in Web, Request(t)
      PROVE  UNCHANGED <<restored, hasty>> /\ ActiveFor(r)' \subseteq ActiveFor(r)
  <2>1. CASE \A i \in Id : ~Ack(t, i)
    <3>1. UNCHANGED alarms
          BY <1>8, <2>1 DEF Request, SaveRule, DeleteRule, PushRules
    <3> QED
        BY <1>6, <3>1
  <2> QED
      BY <1>5, <2>1
<1>9. CASE ~(\E t \in Thread : Run(t)) /\ ~(\E t \in Web : Request(t))
  <2>1. CASE TimerStep
        BY <1>6, <2>1
        DEF TimerStep, TickLocksConfirm, TickScans, TickClears, TickJudges
  <2>2. CASE BridgeStep
        BY <1>6, <2>2 DEF BridgeStep, EvaluateRule, UpdateCandidate, ClearAndFind
  <2>3. UNCHANGED alarms \/ TimerStep \/ BridgeStep
        BY <1>9
        DEF Next, vars, alarms, Rebuild, Persist, Elapse, OnPoint, ApplySync, Demote,
            Promote
  <2> QED
      BY <1>6, <2>1, <2>2, <2>3
<1> QED
    BY <1>7, <1>8, <1>9

\* What the choice of on_point about a rule means for its frame.
LEMMA Chosen ==
    ASSUME TypeInv, NEW q \in Rules, EvaluateRule(q)
    PROVE  /\ frame["bridge"].at = "loop" /\ q \in frame["bridge"].work
           /\ frame'["bridge"].work \subseteq frame["bridge"].work
           /\ frame'["bridge"].at \in {"trigger", "candidate"}
                => frame'["bridge"].rule = q /\ Verdict(q) = frame'["bridge"].at
<1> DEFINE f == frame["bridge"]
<1>1. "bridge" \in Thread /\ f \in Frame
      BY Constants DEF TypeInv, Frames, GoodFrame
<1>2. f.at = "loop" /\ q \in f.work
      BY DEF EvaluateRule, At
<1>3. \/ frame'["bridge"] = [f EXCEPT !.work = @ \ {q}]
      \/ frame'["bridge"] = [f EXCEPT !.rule = q, !.at = Verdict(q)]
      BY <1>1 DEF EvaluateRule, Put, TypeInv, Frames
<1> HIDE DEF f
<1>4. CASE frame'["bridge"] = [f EXCEPT !.work = @ \ {q}]
      BY <1>1, <1>2, <1>4 DEF Frame, f
<1>5. CASE frame'["bridge"] = [f EXCEPT !.rule = q, !.at = Verdict(q)]
      BY <1>1, <1>2, <1>5 DEF Frame, f
<1> QED
    BY <1>3, <1>4, <1>5

\* What the judgement of tick about a rule means for its frame.
LEMMA Judged ==
    ASSUME TypeInv, NEW q \in Rules, TickJudges(q)
    PROVE  /\ q \in frame["timer"].work /\ frame'["timer"].rule = q
           /\ frame'["timer"].at = "trigger" => ActiveFor(q) = {}
<1> DEFINE f == frame["timer"]
<1>1. "timer" \in Thread /\ f \in Frame
      BY Constants DEF TypeInv, Frames, GoodFrame
<1>2. PICK l \in {"trigger", "clear"} :
        /\ l = "trigger" => Confirmed(q)
        /\ Put("timer", [f EXCEPT !.rule = q, !.at = l])
      BY DEF TickJudges, Put
<1>3. frame'["timer"] = [f EXCEPT !.rule = q, !.at = l]
      BY <1>1, <1>2 DEF Put, TypeInv, Frames
<1>4. frame'["timer"].rule = q /\ frame'["timer"].at = l
      BY <1>1, <1>3 DEF Frame
<1> QED
    BY <1>2, <1>4 DEF TickJudges, Confirmed

LEMMA RestartFrames ==
    ASSUME Restart, NEW t \in Thread
    PROVE  /\ frame'[t].at \in {"idle", "rebuild"} /\ frame'[t].work = {}
           /\ frame'[t].new = [r \in Rules |-> "gone"]
           /\ t # "role" => frame'[t].at = "idle"
<1> DEFINE g == [Idle EXCEPT !.at = "rebuild", !.op = "rebuild"]
<1>1. frame'[t] \in {g, Idle} /\ (t # "role" => frame'[t] = Idle)
      BY DEF Restart
<1>2. g.at = "rebuild" /\ g.work = {} /\ g.new = [r \in Rules |-> "gone"]
      BY DEF Idle
<1>3. Idle.at = "idle" /\ Idle.work = {} /\ Idle.new = [r \in Rules |-> "gone"]
      BY DEF Idle
<1> HIDE DEF g
<1> QED
    BY <1>1, <1>2, <1>3

\* on_point takes the guard and looks up the rules that are enabled.
LEMMA BridgeReads ==
    ASSUME TypeInv, Read("bridge")
    PROVE  /\ frame'["bridge"].at = "loop" /\ "bridge" \in readers' /\ rules' = rules
           /\ frame'["bridge"].work = {r \in Rules : rules[r] \in Enabled}
<1> DEFINE f == frame["bridge"]
<1>1. "bridge" \in Thread /\ f \in Frame /\ f.op \in {"none", "refresh", "change"}
      BY Constants DEF TypeInv, Frames, GoodFrame, Fits
<1>2. Put("bridge", [f EXCEPT !.at = "loop",
                              !.work = {r \in Rules : rules[r] \in Enabled}])
      BY <1>1 DEF Read, Put
<1> QED
    BY <1>1, <1>2 DEF Read, Put, TypeInv, Frames, Frame

LEMMA GuardedStep ==
    ASSUME TypeInv, Guarded, [Next]_vars
    PROVE  Guarded'
<1>1. /\ "bridge" \in Thread /\ "timer" \in Thread /\ "bridge" # "timer"
      /\ "bridge" \notin CallThread /\ "timer" \notin CallThread
      BY Constants DEF CallThread
<1>2. CASE BridgeEffect /\ BridgeRuns
  <2>1. frame'["timer"] = frame["timer"] /\ ("timer" \in readers => "timer" \in readers')
        BY <1>1, <1>2 DEF BridgeEffect, Others
  <2>2. CASE Settled
        BY <1>2, <2>1, <2>2 DEF BridgeEffect, Settled, Guarded
  <2>3. CASE Read("bridge")
        BY <2>1, <2>3, BridgeReads DEF Guarded
  <2>4. CASE \E q \in Rules : EvaluateRule(q)
        BY <1>2, <2>1, <2>4, Chosen DEF BridgeEffect, Guarded, EvaluateRule, locks
  <2> QED
      BY <1>2, <2>2, <2>3, <2>4 DEF BridgeEffect
<1>3. CASE TimerEffect
      BY <1>1, <1>3 DEF TimerEffect, Others, Guarded
<1>4. ASSUME NEW t \in CallThread, CallEffect(t)
      PROVE  Guarded'
      BY <1>1, <1>4 DEF CallEffect, Others, Guarded
<1>5. CASE Quiet
      BY <1>5 DEF Quiet, Guarded
<1>6. CASE Restart
      BY <1>1, <1>6, RestartFrames DEF Guarded
<1> QED
    BY <1>2, <1>3, <1>4, <1>5, <1>6, Movers

\* While on_point or tick is about to trigger, nobody changes the rules.
LEMMA RulesStay ==
    ASSUME TypeInv, Guarded, [Next]_vars, ~Restart, NEW t \in {"bridge", "timer"},
           frame[t].at \in {"loop", "trigger"}
    PROVE  rules' = rules
<1>1. readers # {}
      BY DEF Guarded
<1> QED
    BY <1>1, Movers DEF BridgeEffect, TimerEffect, CallEffect, Quiet

LEMMA NeedsNoneStep ==
    ASSUME TypeInv, Guarded, [Next]_vars, NEW r \in Rules, NeedsNone(r)
    PROVE  NeedsNone(r)'
<1>1. {"bridge", "timer"} \subseteq Thread /\ {"bridge", "timer"} \cap CallThread = {}
      BY Constants DEF CallThread
<1>2. CASE Restart
      BY <1>1, <1>2, RestartFrames DEF NeedsNone, AboutTo, At
<1>3. CASE ~Restart /\ frame'["bridge"] = frame["bridge"]
      BY <1>3, RulesStay DEF NeedsNone, AboutTo, At
<1>4. CASE ~Restart /\ frame'["bridge"] # frame["bridge"]
  <2>1. BridgeEffect
        BY <1>1, <1>4, Movers DEF TimerEffect, CallEffect, Others, Quiet
  <2>2. CASE Settled \/ Read("bridge")
        BY <2>2, BridgeReads DEF Settled, NeedsNone, AboutTo, At
  <2>3. ASSUME NEW q \in Rules, EvaluateRule(q), AboutTo("bridge", "trigger", r)'
        PROVE  rules[r] = "now"
    <3>1. q = r /\ Verdict(r) = "trigger" /\ rules[r] \in Enabled
          BY <2>3, Chosen DEF AboutTo, At, Guarded
    <3>2. rules[r] \notin {"later", "change"}
          BY <3>1 DEF Verdict, ByValue
    <3> QED
        BY <3>1, <3>2 DEF Enabled
  <2> QED
      BY <2>1, <2>2, <2>3 DEF BridgeEffect, NeedsNone
<1> QED
    BY <1>2, <1>3, <1>4

\* Trigger makes one alarm of one rule, and only if on_point or tick has decided so.
LEMMA TriggerEffect ==
    ASSUME TypeInv, NEW t \in Thread, Trigger(t), NEW r \in Rules
    PROVE  /\ t \in {"bridge", "timer"} /\ frame'[t].at = "send" /\ Others(t)
           /\ restored' = restored /\ rules' = rules
           /\ \/ Fresh(r)' \subseteq Fresh(r)
              \/ /\ AboutTo(t, "trigger", r) /\ (t = "timer" => rules[r] # "now")
                 /\ \E i \in Id : Fresh(r)' \subseteq Fresh(r) \cup {i}
<1> DEFINE f == frame[t]
           instant == At(t, "instant")
           o == [rule |-> f.rule, acked |-> FALSE, over |-> instant,
                 status |-> IF instant THEN "recovered" ELSE "active"]
<1>1. PICK i \in Id \ Issued :
        /\ occ' = [occ EXCEPT ![i] = o]
        /\ active' = IF instant THEN active ELSE active \cup {i}
        /\ hasty' = IF t = "timer" /\ rules[o.rule] = "now" THEN hasty \cup {i}
                                                           ELSE hasty
        /\ Put(t, [f EXCEPT !.at = "send", !.item = i, !.msg = o])
      BY DEF Trigger
<1>2. f \in Frame /\ f.at \in {"trigger", "instant"} /\ Fits(t, f)
      BY DEF Trigger, At, TypeInv, Frames, GoodFrame
<1>3. t \in {"bridge", "timer"}
      BY <1>2 DEF Fits, OfCalls
<1>4. o.rule = f.rule
      OBVIOUS
<1> HIDE DEF o
<1>5. frame'[t].at = "send"
      BY <1>1, <1>2 DEF Put, TypeInv, Frames, Frame
<1>6. Others(t)
      BY RunOthers DEF Run
<1>7. restored' = restored /\ rules' = rules
      BY DEF Trigger
<1>8. i \in Id /\ i \notin active
      BY <1>1 DEF Issued, TypeInv, TypeOK
<1>9. (\A j \in active : occ'[j].rule = occ[j].rule) /\ occ'[i].rule = f.rule
      BY <1>1, <1>4, <1>8 DEF TypeInv, TypeOK, Maps
<1>10. CASE instant \/ f.rule # r
  <2>1. Fresh(r)' \subseteq Fresh(r)
        BY <1>1, <1>8, <1>9, <1>10 DEF Fresh, ActiveFor
  <2> QED
      BY <1>3, <1>5, <1>6, <1>7, <2>1
<1>11. CASE ~instant /\ f.rule = r
  <2>1. AboutTo(t, "trigger", r)
        BY <1>11 DEF Trigger, AboutTo
  <2>2. Fresh(r)' \subseteq Fresh(r) \cup {i}
        BY <1>1, <1>8, <1>9, <1>11 DEF Fresh, ActiveFor
  <2>3. t = "timer" /\ rules[r] = "now" => Fresh(r)' \subseteq Fresh(r)
        BY <1>1, <1>4, <1>11, <2>2 DEF Fresh
  <2> QED
      BY <1>3, <1>5, <1>6, <1>7, <1>8, <2>1, <2>2, <2>3
<1> QED
    BY <1>10, <1>11

LEMMA NoneYetStep ==
    ASSUME TypeInv, TypeInv', Guarded, [Next]_vars, NEW r \in Rules,
           NeedsNone(r), NoneYet(r)
    PROVE  NoneYet(r)'
<1>1. ASSUME NEW u \in Thread, AboutTo(u, "trigger", r)'
      PROVE  u \in {"bridge", "timer"}
  <2>1. Fits(u, frame[u])'
        BY <1>1 DEF TypeInv, Frames, GoodFrame
  <2> QED
      BY <1>1, <2>1 DEF AboutTo, At, Fits, OfCalls
<1>2. ASSUME NEW t \in Thread, Trigger(t)
      PROVE  NoneYet(r)'
  <2>1. ASSUME NEW u \in Thread, AboutTo(u, "trigger", r)',
               (u = "timer" => rules[r] # "now")'
        PROVE  Fresh(r)' = {}
    <3>1. rules' = rules /\ u # t /\ AboutTo(u, "trigger", r)
          BY <1>2, <2>1, TriggerEffect DEF AboutTo, At, Others
    <3>2. Fresh(r) = {}
          BY <2>1, <3>1 DEF NoneYet
    <3>3. ~(AboutTo(t, "trigger", r) /\ (t = "timer" => rules[r] # "now"))
          BY <1>1, <1>2, <2>1, <3>1, TriggerEffect DEF NeedsNone
    <3> QED
        BY <1>2, <3>2, <3>3, TriggerEffect
  <2> QED
      BY <2>1 DEF NoneYet
<1>3. CASE Restart
  <2>1. \A u \in Thread : frame'[u].at # "trigger"
        BY <1>3, RestartFrames
  <2> QED
      BY <2>1 DEF NoneYet, AboutTo, At
<1>4. CASE ~Restart /\ \A t \in Thread : ~Trigger(t)
  <2>1. Fresh(r)' \subseteq Fresh(r) /\ Fresh(r) \subseteq ActiveFor(r)
        BY <1>4, FewerAlarms DEF Fresh
  <2>2. ASSUME NEW u \in Thread, AboutTo(u, "trigger", r)', ~AboutTo(u, "trigger", r)
        PROVE  ActiveFor(r) = {}
    <3>1. u \in {"bridge", "timer"} /\ u \notin CallThread
          BY <1>1, <2>2 DEF CallThread
    <3>2. frame'[u] # frame[u]
          BY <2>2 DEF AboutTo, At
    <3>3. CASE BridgeEffect
      <4>1. u = "bridge"
            BY <3>1, <3>2, <3>3 DEF BridgeEffect, Others
      <4>2. frame'["bridge"].at = "trigger" /\ frame'["bridge"].rule = r
            BY <2>2, <4>1 DEF AboutTo, At
      <4>3. ~Settled
            BY <4>2 DEF Settled
      <4>4. ~Read("bridge")
            BY <4>2, BridgeReads
      <4>5. PICK q \in Rules : EvaluateRule(q)
            BY <3>3, <4>3, <4>4 DEF BridgeEffect
      <4>6. Verdict(r) = "trigger"
            BY <4>2, <4>5, Chosen
      <4> QED
          BY <4>6 DEF Verdict, ByValue
    <3>4. CASE TimerEffect
      <4>1. u = "timer"
            BY <3>1, <3>2, <3>4 DEF TimerEffect, Others
      <4>2. frame'["timer"].at = "trigger" /\ frame'["timer"].rule = r
            BY <2>2, <4>1 DEF AboutTo, At
      <4> QED
          BY <3>4, <4>2, Judged DEF TimerEffect
    <3>5. ASSUME NEW t \in CallThread, CallEffect(t)
          PROVE  FALSE
          BY <3>1, <3>2, <3>5 DEF CallEffect, Others
    <3> QED
        BY <1>4, <3>2, <3>3, <3>4, <3>5, Movers DEF Quiet
  <2>3. ASSUME NEW u \in Thread, AboutTo(u, "trigger", r)
        PROVE  u \in {"bridge", "timer"} /\ frame[u].at = "trigger"
    <3>1. Fits(u, frame[u])
          BY DEF TypeInv, Frames, GoodFrame
    <3> QED
        BY <2>3, <3>1 DEF AboutTo, At, Fits, OfCalls
  <2>4. ASSUME NEW u \in Thread, AboutTo(u, "trigger", r)
        PROVE  rules' = rules
        BY <1>4, <2>3, <2>4, RulesStay
  <2> QED
      BY <2>1, <2>2, <2>4 DEF NoneYet
<1> QED
    BY <1>2, <1>3, <1>4

LEMMA AtMostOneStep ==
    ASSUME TypeInv, [Next]_vars, NEW r \in Rules, NoneYet(r), AtMostOne(r)
    PROVE  AtMostOne(r)'
<1>1. ASSUME NEW t \in Thread, Trigger(t)
      PROVE  AtMostOne(r)'
      BY <1>1, TriggerEffect DEF NoneYet, AtMostOne
<1>2. CASE Restart
      BY <1>2 DEF Restart, AtMostOne, Fresh, ActiveFor
<1>3. CASE ~Restart /\ \A t \in Thread : ~Trigger(t)
      BY <1>3, FewerAlarms DEF AtMostOne, Fresh
<1> QED
    BY <1>1, <1>2, <1>3

\* Of every rule at most one alarm of this process is active, whatever operators
\* make of its delay, although whether there is one is asked in another access to
\* the map than the one that puts the alarm there: on_point triggers only what
\* needs no confirmation, the read guard keeps it so until it has done it, and
\* what tick triggers of such a rule is set apart in `hasty`.
THEOREM OneAlarmOfARule == Spec => []OneAlarm
<1> DEFINE All == \A r \in Rules : OneInv(r)
<1>1. Init => Guarded /\ All
  <2>1. SUFFICES ASSUME Init
                 PROVE  Guarded /\ All
        OBVIOUS
  <2>2. \A t \in Thread : frame[t].at = "idle"
        BY <2>1 DEF Init, Idle
  <2>3. Guarded
        BY <2>2, Constants DEF Guarded
  <2>4. ASSUME NEW r \in Rules
        PROVE  OneInv(r)
        BY <2>1, <2>2, Constants
        DEF Init, OneInv, NeedsNone, NoneYet, AtMostOne, AboutTo, At, Fresh, ActiveFor
  <2> QED
      BY <2>3, <2>4
<1>2. Inv /\ Inv' /\ Guarded /\ All /\ [Next]_vars => Guarded' /\ All'
  <2>1. SUFFICES ASSUME Inv, Inv', Guarded, All, [Next]_vars
                 PROVE  Guarded' /\ All'
        OBVIOUS
  <2>2. TypeInv /\ TypeInv'
        BY <2>1 DEF Inv
  <2>3. Guarded'
        BY <2>1, <2>2, GuardedStep
  <2>4. ASSUME NEW r \in Rules
        PROVE  OneInv(r)'
    <3>1. NeedsNone(r) /\ NoneYet(r) /\ AtMostOne(r)
          BY <2>1, <2>4 DEF OneInv
    <3>2. NeedsNone(r)'
          BY <2>1, <2>2, <3>1, NeedsNoneStep
    <3>3. NoneYet(r)'
          BY <2>1, <2>2, <3>1, NoneYetStep
    <3>4. AtMostOne(r)'
          BY <2>1, <2>2, <3>1, AtMostOneStep
    <3> QED
        BY <3>2, <3>3, <3>4 DEF OneInv
  <2> QED
      BY <2>3, <2>4
<1>3. Inv /\ All => OneAlarm
  <2>1. SUFFICES ASSUME Inv, All, NEW r \in Rules
                 PROVE  Cardinality(ActiveFor(r) \ (restored \cup hasty)) <= 1
        BY DEF OneAlarm
  <2>2. \A i, j \in ActiveFor(r) \ (restored \cup hasty) : i = j
        BY <2>1 DEF OneInv, AtMostOne, Fresh
  <2>3. CASE ActiveFor(r) \ (restored \cup hasty) = {}
        BY <2>3, FS_EmptySet
  <2>4. CASE ActiveFor(r) \ (restored \cup hasty) # {}
    <3>1. PICK i : ActiveFor(r) \ (restored \cup hasty) = {i}
          BY <2>2, <2>4
    <3>2. Cardinality({i}) = 1
          BY FS_Singleton
    <3> QED
        BY <3>1, <3>2
  <2> QED
      BY <2>3, <2>4
<1> QED
    BY <1>1, <1>2, <1>3, Invariance, PTL DEF Spec
=============================================================================
