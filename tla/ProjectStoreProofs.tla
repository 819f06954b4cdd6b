------------------------- MODULE ProjectStoreProofs -------------------------
(* Proofs about ProjectStore, for every set of requests and packages, every  *)
(* bound and every kind of failure.                                          *)
EXTENDS ProjectStore, TLAPS

USE DEF At, Fails, Works

\* The file a request has moved aside is known to be there by had_old, and it is
\* moved back or removed before the request is answered.
KeptBy(t) ==
    /\ backup[t] # NoPackage =>
          /\ frame[t].old
          /\ frame[t].at \in {"place", "commit", "undo", "restore", "drop", "unlist", "stuck"}
    /\ tmp[t] # NoPackage => frame[t].at \in {"probe", "park", "place"}
    /\ frame[t].at = "park" => frame[t].old

Kept == \A t \in Request : KeptBy(t)

\* No other request is in progress beside a request that is alone.
Apart ==
    \A t \in Request :
        alone[t] /\ ~At(t, "idle") => \A u \in Request \ {t} : At(u, "idle")

\* The old package, as the request that moved it aside knows it
Aside(t) == IF frame[t].old THEN backup[t] = before[t].disk
                            ELSE before[t].disk = NoPackage

\* What a request that is alone has done so far
Progress(t) ==
    LET f == frame[t]
        untouched == row = before[t].row /\ disk = before[t].disk
        replaced  == /\ row = before[t].row /\ Aside(t)
                     /\ f.package \in Package
    IN CASE f.at = "probe"   -> untouched /\ f.package \in Package
         [] f.at = "park"    -> /\ untouched /\ f.package \in Package
                                /\ f.old /\ disk # NoPackage
         [] f.at = "place"   -> replaced /\ disk = NoPackage
         [] f.at = "commit"  -> replaced /\ disk = f.package
         [] f.at = "undo"    -> replaced /\ disk = f.package
         [] f.at \in {"restore", "stuck"} ->
                                /\ row = before[t].row /\ f.old
                                /\ backup[t] = before[t].disk
         [] f.at = "drop"    -> /\ disk = f.package /\ row.package = f.package
                                /\ row.version = IF f.package = NoPackage
                                                 THEN 0 ELSE f.version + 1
         [] f.at \in {"look", "bury"} ->
                                untouched /\ f.package = NoPackage /\ ~f.old
         [] f.at = "unlist"  -> /\ row = before[t].row /\ Aside(t)
                                /\ disk = NoPackage /\ f.package = NoPackage
         [] f.at = "done"    ->
                IF f.ok
                THEN /\ disk = f.package /\ row.package = f.package
                     /\ row.version = IF f.package = NoPackage
                                      THEN 0 ELSE f.version + 1
                ELSE untouched
         [] OTHER -> TRUE

Atomic == \A t \in Request : alone[t] => Progress(t)

-----------------------------------------------------------------------------
(* Types.                                                                    *)

Frame == [at : Step, package : File, version : 0..(MaxVersion - 1),
          old : BOOLEAN, ok : BOOLEAN]

LEMMA IdleTyped ==
    /\ Idle \in Frame
    /\ [Idle EXCEPT !.at = "look"] \in Frame
    /\ \A p \in Package, v \in 0..(MaxVersion - 1) :
          [Idle EXCEPT !.at = "probe", !.package = p, !.version = v] \in Frame
<1>1. 0 \in 0..(MaxVersion - 1)
      BY Bounds
<1> QED
    BY <1>1 DEF Idle, Frame, File, Step

LEMMA GoTyped ==
    ASSUME frame \in [Request -> Frame], NEW t \in Request, NEW l \in Step, Go(t, l)
    PROVE  frame' \in [Request -> Frame]
BY DEF Go, Frame

LEMMA AnswerTyped ==
    ASSUME frame \in [Request -> Frame], NEW t \in Request, NEW b \in BOOLEAN,
           Answer(t, b)
    PROVE  frame' \in [Request -> Frame]
<1>1. "done" \in Step
      BY DEF Step
<1>2. [[frame[t] EXCEPT !.at = "done"] EXCEPT !.ok = b] \in Frame
      BY <1>1 DEF Frame
<1>3. frame' = [frame EXCEPT ![t] = [[frame[t] EXCEPT !.at = "done"] EXCEPT !.ok = b]]
      BY DEF Answer
<1> QED
    BY <1>2, <1>3

LEMMA OldTyped ==
    ASSUME frame \in [Request -> Frame], NEW t \in Request,
           NEW l \in Step, NEW b \in BOOLEAN
    PROVE  /\ [frame EXCEPT ![t].old = b, ![t].at = l] \in [Request -> Frame]
           /\ [frame EXCEPT ![t].at = l, ![t].old = b] \in [Request -> Frame]
<1>1. [[frame[t] EXCEPT !.old = b] EXCEPT !.at = l] \in Frame
      BY DEF Frame
<1>2. [[frame[t] EXCEPT !.at = l] EXCEPT !.old = b] \in Frame
      BY DEF Frame
<1>3. [frame EXCEPT ![t].old = b, ![t].at = l] =
      [frame EXCEPT ![t] = [[frame[t] EXCEPT !.old = b] EXCEPT !.at = l]]
      OBVIOUS
<1>4. [frame EXCEPT ![t].at = l, ![t].old = b] =
      [frame EXCEPT ![t] = [[frame[t] EXCEPT !.at = l] EXCEPT !.old = b]]
      OBVIOUS
<1> QED
    BY <1>1, <1>2, <1>3, <1>4

\* A step of a request that has begun
InProgress(t) ==
    \/ Probe(t) \/ Park(t) \/ Place(t) \/ PlaceFails(t) \/ Commit(t)
    \/ Undo(t) \/ Restore(t) \/ RestoreFails(t) \/ Drop(t) \/ Look(t) \/ Bury(t) \/ Unlist(t)
    \/ Reply(t) \/ Abandon(t) \/ MoveFails(t)

LEMMA TypeInit == Init => TypeOK
<1> SUFFICES ASSUME Init
             PROVE  TypeOK
    OBVIOUS
<1>1. NoPackage \in File /\ NoRow \in Row
      BY Bounds DEF File, NoRow, Row
<1>2. frame \in [Request -> Frame]
      BY IdleTyped DEF Init
<1>3. 0 \in 0..MaxFailures
      BY Bounds
<1> QED
    BY <1>1, <1>2, <1>3 DEF Init, TypeOK, Frame

LEMMA BeginsTyped ==
    ASSUME TypeOK, NEW t \in Request, Begins(t)
    PROVE  /\ alone' \in [Request -> BOOLEAN]
           /\ before' \in [Request -> [row : Row, disk : File]]
BY DEF Begins, TypeOK

\* What every step keeps about the files and the frames
LEMMA FilesTyped ==
    ASSUME TypeOK, NEW t \in Request, NEW f \in File
    PROVE  /\ [tmp EXCEPT ![t] = f] \in [Request -> File]
           /\ [backup EXCEPT ![t] = f] \in [Request -> File]
           /\ frame[t].package \in File /\ backup[t] \in File
BY DEF TypeOK

LEMMA TypeStep == TypeOK /\ [Next]_vars => TypeOK'
<1> SUFFICES ASSUME TypeOK, [Next]_vars
             PROVE  TypeOK'
    OBVIOUS
<1>0. /\ frame \in [Request -> Frame] /\ disk \in File
      /\ NoPackage \in File /\ Package \subseteq File
      BY DEF TypeOK, Frame, File
<1>1. ASSUME NEW t \in Request, NEW p \in Package, NEW v \in 0..(MaxVersion - 1),
             Put(t, p, v)
      PROVE  TypeOK'
  <2>1. frame' \in [Request -> Frame]
        BY <1>0, <1>1, IdleTyped DEF Put
  <2> QED
        BY <1>0, <1>1, <2>1, BeginsTyped, FilesTyped DEF Put, TypeOK, Frame
<1>2. ASSUME NEW t \in Request, Delete(t)
      PROVE  TypeOK'
  <2>1. frame' \in [Request -> Frame]
        BY <1>0, <1>2, IdleTyped DEF Delete
  <2> QED
        BY <1>2, <2>1, BeginsTyped DEF Delete, TypeOK, Frame, files
<1>3. ASSUME NEW t \in Request, InProgress(t)
      PROVE  TypeOK'
  <2>1. frame' \in [Request -> Frame]
    <3>1. {"probe", "park", "place", "commit", "undo", "restore", "drop", "look",
           "bury", "unlist", "done", "stuck"} \subseteq Step
          BY DEF Step
    <3>2. CASE Probe(t)
          BY <1>0, <3>1, <3>2, OldTyped DEF Probe
    <3>3. CASE Park(t) \/ MoveFails(t) \/ Place(t) \/ PlaceFails(t)
          BY <1>0, <3>1, <3>3, GoTyped, AnswerTyped DEF Park, MoveFails, Place, PlaceFails
    <3>4. CASE Commit(t) \/ Unlist(t)
          BY <1>0, <3>1, <3>4, GoTyped, AnswerTyped DEF Commit, Unlist
    <3>5. CASE Undo(t) \/ Restore(t) \/ RestoreFails(t) \/ Drop(t)
      <4>1. Go(t, "restore") \/ Go(t, "stuck") \/ Answer(t, FALSE) \/ Answer(t, TRUE)
            BY <3>5 DEF Undo, Restore, RestoreFails, Drop
      <4> QED
            BY <1>0, <3>1, <4>1, GoTyped, AnswerTyped
    <3>6. CASE Look(t) \/ Bury(t)
      <4>1. CASE Look(t)
        <5>1. Go(t, "bury") \/ Go(t, "unlist")
              BY <4>1 DEF Look
        <5> QED
              BY <1>0, <3>1, <5>1, GoTyped
      <4>2. CASE Bury(t)
            BY <1>0, <3>1, <4>2, OldTyped DEF Bury
      <4> QED
            BY <3>6, <4>1, <4>2
    <3>7. CASE Reply(t) \/ Abandon(t)
          BY <1>0, <3>7, IdleTyped DEF Reply, Abandon
    <3> QED
          BY <1>3, <3>2, <3>3, <3>4, <3>5, <3>6, <3>7 DEF InProgress
  <2>2. disk' \in File /\ tmp' \in [Request -> File] /\ backup' \in [Request -> File]
    <3>1. CASE Probe(t) \/ Commit(t) \/ Look(t) \/ Unlist(t) \/ RestoreFails(t)
          BY <3>1 DEF Probe, Commit, Look, Unlist, RestoreFails, files, TypeOK
    <3>2. CASE Park(t) \/ Bury(t) \/ MoveFails(t)
          BY <1>0, <3>2, FilesTyped DEF Park, Bury, MoveFails, TypeOK
    <3>3. CASE Place(t) \/ PlaceFails(t)
      <4>1. disk' \in {disk, backup[t], frame[t].package}
            BY <3>3 DEF Place, PlaceFails
      <4>2. /\ tmp' = [tmp EXCEPT ![t] = NoPackage]
            /\ backup' = [backup EXCEPT ![t] = NoPackage] \/ backup' = backup
            BY <3>3 DEF Place, PlaceFails
      <4> QED
            BY <1>0, <4>1, <4>2, FilesTyped DEF TypeOK
    <3>4. CASE Undo(t) \/ Restore(t) \/ Drop(t) \/ Abandon(t) \/ Reply(t)
      <4>1. disk' \in {disk, backup[t], NoPackage}
            BY <3>4 DEF Undo, Restore, Drop, Abandon, Reply
      <4>2. /\ tmp' = [tmp EXCEPT ![t] = NoPackage] \/ tmp' = tmp
            /\ backup' = [backup EXCEPT ![t] = NoPackage] \/ backup' = backup
            BY <3>4 DEF Undo, Restore, Drop, Abandon, Reply
      <4> QED
            BY <1>0, <4>1, <4>2, FilesTyped DEF TypeOK
    <3> QED
          BY <1>3, <3>1, <3>2, <3>3, <3>4 DEF InProgress
  <2>3. row' \in Row
    <3>1. CASE Commit(t)
      <4>1. Accepts(frame[t].version) =>
                [version |-> row.version + 1, package |-> frame[t].package] \in Row
            BY Bounds, FilesTyped, <1>0 DEF Accepts, Row, TypeOK, Frame
      <4> QED
            BY <3>1, <4>1 DEF Commit, TypeOK
    <3>2. CASE Unlist(t)
      <4>1. NoRow \in Row
            BY Bounds DEF NoRow, Row, File
      <4> QED
            BY <3>2, <4>1 DEF Unlist, TypeOK
    <3> QED
          BY <1>3, <3>1, <3>2
          DEF InProgress, Probe, Park, Place, PlaceFails, Undo, Restore, RestoreFails, Drop, Look, Bury,
              Reply, Abandon, MoveFails, TypeOK
  <2>4. failures' \in 0..MaxFailures
    <3>1. failures' = failures \/ (failures < MaxFailures /\ failures' = failures + 1)
          BY <1>3
          DEF InProgress, Probe, Park, Place, PlaceFails, Commit, Undo, Restore, RestoreFails, Drop, Look,
              Bury, Unlist, Reply, Abandon, MoveFails
    <3> QED
          BY <3>1, Bounds DEF TypeOK
  <2>5. UNCHANGED history
        BY <1>3
        DEF InProgress, Probe, Park, Place, PlaceFails, Commit, Undo, Restore, RestoreFails, Drop, Look, Bury,
            Unlist, Reply, Abandon, MoveFails
  <2> QED
        BY <2>1, <2>2, <2>3, <2>4, <2>5 DEF TypeOK, Frame, history
<1>4. ASSUME UNCHANGED vars
      PROVE  TypeOK'
      BY <1>4 DEF vars, files, history, TypeOK
<1> QED
    BY <1>1, <1>2, <1>3, <1>4 DEF Next, Serve, InProgress

\* The variables keep their types, and a version never passes its bound.
THEOREM StoreTyped == Spec => []TypeOK
<1>1. Init => TypeOK
      BY TypeInit
<1>2. TypeOK /\ [Next]_vars => TypeOK'
      BY TypeStep
<1> QED
    BY <1>1, <1>2, PTL DEF Spec

-----------------------------------------------------------------------------
(* One step of one request.                                                  *)

\* A step of one request leaves the others' frames and files alone.
LEMMA OthersKeep ==
    ASSUME TypeOK, NEW t \in Request, NEW u \in Request \ {t},
           \/ InProgress(t) \/ Delete(t)
           \/ \E p \in Package, v \in 0..(MaxVersion - 1) : Put(t, p, v)
    PROVE  frame'[u] = frame[u] /\ tmp'[u] = tmp[u] /\ backup'[u] = backup[u]
<1>1. frame'[u] = frame[u]
      BY DEF InProgress, Put, Probe, Park, Place, PlaceFails, Commit, Undo, Restore, RestoreFails,
             Drop, Delete, Look, Bury, Unlist, Reply, Abandon, MoveFails, Go, Answer, TypeOK
<1>2. tmp'[u] = tmp[u] /\ backup'[u] = backup[u]
      BY DEF InProgress, Put, Probe, Park, Place, PlaceFails, Commit, Undo, Restore, RestoreFails,
             Drop, Delete, Look, Bury, Unlist, Reply, Abandon, MoveFails, files, TypeOK
<1> QED
    BY <1>1, <1>2

LEMMA KeptStep == TypeOK /\ Kept /\ [Next]_vars => Kept'
<1> SUFFICES ASSUME TypeOK, Kept, [Next]_vars
             PROVE  Kept'
    OBVIOUS
<1>0. frame \in [Request -> Frame]
      BY DEF TypeOK, Frame
<1>1. ASSUME NEW t \in Request,
             \/ InProgress(t) \/ Delete(t)
             \/ \E p \in Package, v \in 0..(MaxVersion - 1) : Put(t, p, v)
      PROVE  Kept'
  <2>1. ASSUME NEW u \in Request \ {t}
        PROVE  KeptBy(u)'
        BY <1>1, <2>1, OthersKeep DEF Kept, KeptBy
  <2>2. KeptBy(t)
        BY DEF Kept
  <2>3. KeptBy(t)'
    <3>1. CASE Delete(t) \/ \E p \in Package, v \in 0..(MaxVersion - 1) : Put(t, p, v)
      <4>1. /\ backup'[t] = NoPackage
            /\ tmp'[t] # NoPackage => \E p \in Package, v \in 0..(MaxVersion - 1) :
                                                                      Put(t, p, v)
            BY <2>2, <3>1 DEF KeptBy, Delete, Put, Begins, files
      <4>2. ASSUME NEW p \in Package, NEW v \in 0..(MaxVersion - 1), Put(t, p, v)
            PROVE  frame'[t].at = "probe"
            BY <1>0, <4>2 DEF Put, Idle
      <4>3. ASSUME Delete(t)
            PROVE  frame'[t].at = "look"
            BY <1>0, <4>3 DEF Delete, Idle
      <4> QED
            BY <3>1, <4>1, <4>2, <4>3 DEF KeptBy
    <3>2. CASE Probe(t) \/ Look(t) \/ Bury(t)
      <4>1. CASE Probe(t)
            BY <1>0, <2>2, <4>1 DEF KeptBy, Probe, files, Frame
      <4>2. CASE Look(t)
            BY <1>0, <2>2, <4>2 DEF KeptBy, Look, Go, files, Frame
      <4>3. CASE Bury(t)
            BY <1>0, <2>2, <4>3 DEF KeptBy, Bury, Answer, TypeOK, Frame
      <4> QED
            BY <3>2, <4>1, <4>2, <4>3
    <3>3. CASE Park(t)
          BY <1>0, <2>2, <3>3 DEF KeptBy, Park, Go, Answer, TypeOK, Frame
    <3>4. CASE Place(t) \/ PlaceFails(t)
          BY <1>0, <2>2, <3>4 DEF KeptBy, Place, PlaceFails, Go, Answer, TypeOK, Frame
    <3>5. CASE Commit(t) \/ Unlist(t)
          BY <1>0, <2>2, <3>5
          DEF KeptBy, Commit, Unlist, Go, Answer, files, TypeOK, Frame
    <3>6. CASE Undo(t) \/ Restore(t) \/ RestoreFails(t) \/ Drop(t)
          BY <1>0, <2>2, <3>6
          DEF KeptBy, Undo, Restore, RestoreFails, Drop, Go, Answer, files, TypeOK, Frame
    <3>7. CASE Reply(t) \/ Abandon(t)
          BY <1>0, <2>2, <3>7 DEF KeptBy, Reply, Abandon, Idle, files, TypeOK
    <3>8. CASE MoveFails(t)
          BY <1>0, <2>2, <3>8 DEF KeptBy, MoveFails, Answer, TypeOK, Frame
    <3> QED
          BY <1>1, <3>1, <3>2, <3>3, <3>4, <3>5, <3>6, <3>7, <3>8 DEF InProgress
  <2> QED
      BY <2>1, <2>3 DEF Kept
<1>2. ASSUME UNCHANGED vars
      PROVE  Kept'
      BY <1>2 DEF vars, files, Kept, KeptBy
<1> QED
    BY <1>1, <1>2 DEF Next, Serve, InProgress

\* However requests interleave, and whatever fails, an answered request leaves no
\* temporary file behind.
THEOREM NothingLeft == Spec => []NoLeftovers
<1>1. Init => Kept
  <2> SUFFICES ASSUME Init, NEW t \in Request
               PROVE  KeptBy(t)
      BY DEF Kept
  <2>1. backup[t] = NoPackage /\ tmp[t] = NoPackage /\ frame[t].at = "idle"
        BY DEF Init, Idle
  <2> QED
      BY <2>1 DEF KeptBy
<1>2. TypeOK /\ Kept /\ [Next]_vars => Kept'
      BY KeptStep
<1>3. Kept => NoLeftovers
      BY DEF Kept, KeptBy, NoLeftovers
<1> QED
    BY <1>1, <1>2, <1>3, StoreTyped, PTL DEF Spec

-----------------------------------------------------------------------------
(* A request that is alone is atomic.                                        *)

\* A step of a request in progress keeps what is known of the others.
LEMMA StaysApart ==
    ASSUME TypeOK, Apart, Atomic, NEW t \in Request, InProgress(t),
           alone[t] => Progress(t)'
    PROVE  (Apart /\ Atomic)'
<1>1. UNCHANGED <<alone, before>> /\ frame[t].at # "idle"
      BY DEF InProgress, Probe, Park, Place, PlaceFails, Commit, Undo, Restore, RestoreFails,
             Drop, Look, Bury, Unlist, Reply, Abandon, MoveFails, history
<1>2. \A u \in Request \ {t} : frame'[u] = frame[u]
      BY OthersKeep
<1>3. \A u \in Request \ {t} : alone[u] => frame'[u].at = "idle"
      BY <1>1, <1>2 DEF Apart
<1>4. Apart'
      BY <1>1, <1>2, <1>3 DEF Apart
<1>5. \A u \in Request \ {t} : alone'[u] => Progress(u)'
      BY <1>1, <1>3 DEF Progress
<1> QED
    BY <1>1, <1>4, <1>5 DEF Atomic

\* A request that comes in is alone when the others are idle, and no other stays
\* alone.
LEMMA BeginsApart ==
    ASSUME TypeOK, NEW t \in Request, Begins(t), Progress(t)',
           \A u \in Request \ {t} : frame'[u] = frame[u]
    PROVE  (Apart /\ Atomic)'
<1>1. \A u \in Request \ {t} : ~alone'[u]
      BY DEF Begins
<1>2. alone'[t] => \A u \in Request \ {t} : frame[u].at = "idle"
      BY DEF Begins, TypeOK
<1> QED
    BY <1>1, <1>2 DEF Apart, Atomic

LEMMA AtomicStep ==
    TypeOK /\ Apart /\ Atomic /\ [Next]_vars => (Apart /\ Atomic)'
<1> SUFFICES ASSUME TypeOK, Apart, Atomic, [Next]_vars
             PROVE  (Apart /\ Atomic)'
    OBVIOUS
<1>0. frame \in [Request -> Frame] /\ NoPackage \notin Package
      BY Files DEF TypeOK, Frame
<1>1. ASSUME NEW t \in Request, NEW p \in Package, NEW v \in 0..(MaxVersion - 1),
             Put(t, p, v)
      PROVE  (Apart /\ Atomic)'
  <2>1. /\ frame'[t].at = "probe" /\ frame'[t].package = p
        /\ before'[t] = [row |-> row, disk |-> disk]
        /\ row' = row /\ disk' = disk
        BY <1>0, <1>1 DEF Put, Begins, Idle, TypeOK
  <2>2. Progress(t)'
        BY <2>1 DEF Progress
  <2> QED
      BY <1>1, <2>2, BeginsApart, OthersKeep DEF Put
<1>2. ASSUME NEW t \in Request, Delete(t)
      PROVE  (Apart /\ Atomic)'
  <2>1. /\ frame'[t].at = "look" /\ frame'[t].package = NoPackage /\ ~frame'[t].old
        /\ before'[t] = [row |-> row, disk |-> disk]
        /\ row' = row /\ disk' = disk
        BY <1>0, <1>2 DEF Delete, Begins, Idle, files, TypeOK
  <2>2. Progress(t)'
        BY <2>1 DEF Progress
  <2> QED
      BY <1>2, <2>2, BeginsApart, OthersKeep DEF Delete
<1>3. ASSUME NEW t \in Request, InProgress(t)
      PROVE  (Apart /\ Atomic)'
  <2> SUFFICES ASSUME alone[t]
               PROVE  Progress(t)'
      BY <1>3, StaysApart
  <2>0. Progress(t) /\ frame[t] \in Frame /\ row \in Row
        BY <1>0 DEF Atomic, TypeOK
  <2>1. CASE Probe(t)
    <3>1. /\ row = before[t].row /\ disk = before[t].disk
          /\ frame[t].package \in Package
          BY <2>0, <2>1 DEF Probe, Progress
    <3>2. /\ UNCHANGED <<row, disk, before>>
          /\ frame'[t].package = frame[t].package
          /\ frame'[t].old = (disk # NoPackage)
          /\ frame'[t].at = IF disk # NoPackage THEN "park" ELSE "place"
          BY <1>0, <2>1 DEF Probe, files, history, Frame
    <3> QED
        BY <3>1, <3>2 DEF Progress, Aside
  <2>2. CASE Park(t)
        BY <1>0, <2>0, <2>2 DEF Park, Go, Progress, Aside, history, TypeOK
  <2>3. CASE Place(t)
        BY <1>0, <2>0, <2>3 DEF Place, Go, Progress, Aside, history
  <2>4. CASE PlaceFails(t)
        BY <1>0, <2>0, <2>4 DEF PlaceFails, Go, Answer, Progress, Aside, history, Frame
  <2>5. CASE Commit(t)
    <3>1. /\ row = before[t].row /\ Aside(t) /\ disk = frame[t].package
          /\ frame[t].package \in Package
          BY <2>0, <2>5 DEF Commit, Progress
    <3>2. /\ UNCHANGED <<disk, backup, before>>
          /\ frame'[t].package = frame[t].package
          /\ frame'[t].version = frame[t].version
          /\ frame'[t].old = frame[t].old
          BY <1>0, <2>5 DEF Commit, Go, files, history, Frame
    <3>3. \/ /\ frame'[t].at = "drop" /\ frame[t].version = row.version
             /\ row' = [version |-> row.version + 1, package |-> frame[t].package]
          \/ frame'[t].at = "undo" /\ row' = row
          BY <1>0, <2>5 DEF Commit, Accepts, Go, Frame
    <3> QED
        BY <1>0, <3>1, <3>2, <3>3 DEF Progress, Aside
  <2>6. CASE Undo(t)
    <3>1. row = before[t].row /\ Aside(t)
          BY <2>0, <2>6 DEF Undo, Progress
    <3>2. /\ UNCHANGED <<row, backup, before>> /\ disk' = NoPackage
          /\ frame'[t].old = frame[t].old
          /\ \/ frame[t].old /\ frame'[t].at = "restore"
             \/ ~frame[t].old /\ frame'[t].at = "done" /\ ~frame'[t].ok
          BY <1>0, <2>0, <2>6 DEF Undo, Go, Answer, history, Frame
    <3> QED
        BY <3>1, <3>2 DEF Progress, Aside
  <2>7. CASE Restore(t)
        BY <1>0, <2>0, <2>7 DEF Restore, Answer, Progress, history
  <2>14. CASE RestoreFails(t)
        BY <1>0, <2>0, <2>14 DEF RestoreFails, Go, Progress, files, history
  <2>8. CASE Drop(t)
        BY <1>0, <2>0, <2>8 DEF Drop, Answer, Progress, history
  <2>9. CASE Look(t)
        BY <1>0, <2>0, <2>9 DEF Look, Go, Progress, Aside, files, history
  <2>10. CASE Bury(t)
        BY <1>0, <2>0, <2>10 DEF Bury, Answer, Progress, Aside, history, TypeOK
  <2>11. CASE Unlist(t)
    <3>1. /\ row = before[t].row /\ Aside(t) /\ disk = NoPackage
          /\ frame[t].package = NoPackage
          BY <2>0, <2>11 DEF Unlist, Progress
    <3>2. /\ UNCHANGED <<disk, backup, before>>
          /\ frame'[t].package = frame[t].package /\ frame'[t].old = frame[t].old
          BY <1>0, <2>11 DEF Unlist, Go, Answer, files, history, Frame
    <3>3. \/ frame'[t].at = "drop" /\ row' = NoRow
          \/ /\ row' = row
             /\ \/ frame[t].old /\ frame'[t].at = "restore"
                \/ ~frame[t].old /\ frame'[t].at = "done" /\ ~frame'[t].ok
          BY <1>0, <2>0, <2>11 DEF Unlist, Go, Answer, Frame
    <3> QED
        BY <3>1, <3>2, <3>3 DEF Progress, Aside, NoRow
  <2>12. CASE Reply(t) \/ Abandon(t)
        BY <1>0, <2>12 DEF Reply, Abandon, Idle, Progress
  <2>13. CASE MoveFails(t)
        BY <1>0, <2>0, <2>13 DEF MoveFails, Answer, Progress, history
  <2> QED
      BY <1>3, <2>1, <2>2, <2>3, <2>4, <2>5, <2>6, <2>7, <2>8, <2>9, <2>10, <2>11,
         <2>12, <2>13, <2>14 DEF InProgress
<1>4. ASSUME UNCHANGED vars
      PROVE  (Apart /\ Atomic)'
      BY <1>4 DEF vars, files, history, Apart, Atomic, Progress, Aside
<1> QED
    BY <1>1, <1>2, <1>3, <1>4 DEF Next, Serve, InProgress

\* A request that no other overlapped has taken effect in the database and on
\* disk, or in neither, whatever failed meanwhile.
THEOREM AtomicAlone == Spec => []AloneIsAtomic
<1>1. Init => Apart /\ Atomic
      BY DEF Init, Apart, Atomic
<1>2. TypeOK /\ (Apart /\ Atomic) /\ [Next]_vars => (Apart /\ Atomic)'
      BY AtomicStep
<1>3. Apart /\ Atomic => AloneIsAtomic
      BY DEF Atomic, Progress, AloneIsAtomic
<1> QED
    BY <1>1, <1>2, <1>3, StoreTyped, PTL DEF Spec
=============================================================================
