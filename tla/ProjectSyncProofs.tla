-------------------------- MODULE ProjectSyncProofs --------------------------
(* What ProjectSync promises for every number of projects, of backups and of *)
(* edits: that no edit is lost, and that a synchronisation overwrites        *)
(* nothing unseen.                                                           *)
EXTENDS ProjectSync, SequenceTheorems, TLAPS

\* What the constants have to be: None is no project, document or link, a backup is
\* kept, and the bounds leave room for a project.
Constants == /\ None \notin Project /\ None \notin Document
             /\ None \notin [id : Project, ver : 0..MaxVersion]
             /\ MaxBackups \in Nat \ {0}
             /\ MaxVersion \in Nat \ {0} /\ MaxEdits \in Nat

Task == [link : Link, at : {"load", "save", "get", "ready", "list"},
         kept : Document \cup {None}, got : Document \cup {None}]
Pushing == [sync : BOOLEAN, id : Project, ver : 0..MaxVersion,
            from : Project \cup {None}, base : 0..MaxVersion,
            reply : (0..MaxVersion) \cup {None}]

\* Version v of project p is one its row r[p] has had; unless p was deleted, and
\* its row may have begun anew.
Past(p, v, r, x) == p \in x \/ v <= r[p]

\* A document based on a version that its project has had.
DocOK(d, r, x) == d \in Document /\ (d.from = None \/ Past(d.from, d.ver, r, x))

BackupsOK(b, r, x) == /\ b \in Seq(Document) /\ Len(b) <= MaxBackups
                      /\ \A i \in DOMAIN b : DocOK(b[i], r, x)

ListOK(l, r, x) == l = None \/ /\ l \in [Project -> 0..MaxVersion]
                               /\ \A p \in Project : Past(p, l[p], r, x)

\* The link is not ahead of the document, which is the linked project's.
LinkOK(l, d, x, mx) == /\ l \in Link
                       /\ mx \/ l = None \/ l.id \in x \/ (d.from = l.id /\ l.ver <= d.ver)

\* The backup of d is kept, or was removed by the user or by later ones.
Stands(d, b) == d = None \/ \E i \in DOMAIN b : b[i] = d

\* What a handler of the dialog knows at each place: what it will back up, what it
\* has, and what it will load.
TaskOK(t, b, r, x) ==
    /\ t \in Task
    /\ (t.link # None => Past(t.link.id, t.link.ver, r, x))
    /\ (t.at = "load" => (t.link = None /\ DocOK(t.got, r, x)))
    /\ (t.at = "save" => (DocOK(t.kept, r, x) /\ (t.link = None => DocOK(t.got, r, x))))
    /\ (t.at = "get" => (t.link # None /\ Stands(t.kept, b)))
    /\ (t.at = "ready" =>
           (DocOK(t.got, r, x) /\ Stands(t.kept, b)
            /\ (t.link = None \/ t.link.id \in x
                \/ (t.got.from = t.link.id /\ t.link.ver <= t.got.ver))))
    /\ (t.at = "list" => t.link # None)

TasksOK(ts, b, r, x) == /\ ts \in [Request -> Task \cup {None}]
                        /\ \A q \in Request : ts[q] = None \/ TaskOK(ts[q], b, r, x)

\* A project that was deleted is away until it is created again.
RebornOK(r, x, y) == y \subseteq x /\ \A p \in Project : p \in x => p \in y \/ r[p] = 0

\* A push of the sync button is of a document based on the version it replaces.
PushOK(m, r, x, mx) ==
    m = None \/ /\ m \in Pushing
                /\ m.from = None \/ Past(m.from, m.base, r, x)
                /\ m.reply = None \/ Past(m.id, m.reply, r, x)
                /\ m.sync => mx \/ m.id \in x \/ (m.from = m.id /\ m.ver <= m.base)

SyncInv ==
    /\ edits \in 0..MaxEdits /\ rows \in [Project -> 0..MaxVersion]
    /\ conflict \in Project \cup {None}
    /\ DocOK(doc, rows, deleted)
    /\ saved = None \/ DocOK(saved, rows, deleted)
    /\ BackupsOK(backups, rows, deleted)
    /\ ListOK(list, rows, deleted)
    /\ LinkOK(link, doc, deleted, mixed)
    /\ TasksOK(tasks, backups, rows, deleted)
    /\ RebornOK(rows, deleted, reborn)
    /\ PushOK(pushing, rows, deleted, mixed)
    /\ NothingLost /\ SyncSafe

-----------------------------------------------------------------------------
(* The backups.                                                              *)

LEMMA MinOfTwo ==
    ASSUME NEW m \in Nat, NEW n \in Nat
    PROVE  LET k == Min({m, n}) IN k \in Nat /\ k <= m /\ k <= n /\ (k = m \/ k = n)
<1>1. \E k \in {m, n} : \A y \in {m, n} : k <= y
  <2>1. CASE m <= n
        BY <2>1
  <2>2. CASE n <= m
        BY <2>2
  <2> QED
      BY <2>1, <2>2
<1> QED
    BY <1>1 DEF Min

\* A backup is the first of the backups, and the others are some of those before.
LEMMA BackupFits ==
    ASSUME Constants, NEW d \in Document, NEW r, NEW x, DocOK(d, r, x),
           BackupsOK(backups, r, x)
    PROVE  /\ BackupsOK(Backup(d), r, x)
           /\ 1 \in DOMAIN Backup(d) /\ Backup(d)[1] = d
           /\ \A i \in DOMAIN backups :
                 i < MaxBackups => \E j \in DOMAIN Backup(d) : Backup(d)[j] = backups[i]
<1> DEFINE all == <<d>> \o backups
           k == Min({MaxBackups, Len(all)})
<1>1. backups \in Seq(Document) /\ <<d>> \in Seq(Document) /\ Len(<<d>>) = 1
      BY DEF BackupsOK
<1>2. /\ all \in Seq(Document) /\ Len(all) = 1 + Len(backups) /\ all[1] = d
      /\ \A i \in 2..Len(all) : all[i] = backups[i - 1] /\ i - 1 \in DOMAIN backups
      BY <1>1
<1>3. Len(all) \in Nat /\ Len(all) >= 1
      BY <1>1, <1>2
<1>4. \A i \in 1..Len(all) : DocOK(all[i], r, x)
  <2>1. TAKE i \in 1..Len(all)
  <2>2. CASE i = 1
        BY <1>2, <2>2
  <2>3. CASE i # 1
    <3>1. i \in 2..Len(all)
          BY <1>3, <2>3
    <3>2. all[i] = backups[i - 1] /\ i - 1 \in DOMAIN backups
          BY <1>2, <3>1
    <3> QED
        BY <3>2 DEF BackupsOK
  <2> QED
      BY <2>2, <2>3
<1> HIDE DEF all
<1>5. k \in Nat /\ k >= 1 /\ k <= MaxBackups /\ k <= Len(all)
      BY <1>3, MinOfTwo DEF Constants
<1> HIDE DEF k
<1>6. Backup(d) = SubSeq(all, 1, k)
      BY DEF Backup, all, k
<1>7. \A i \in 1..k : all[i] \in Document
      BY <1>2, <1>5
<1>8. /\ SubSeq(all, 1, k) \in Seq(Document) /\ Len(SubSeq(all, 1, k)) = k
      /\ \A i \in 1..k : SubSeq(all, 1, k)[i] = all[i]
      BY <1>2, <1>5, <1>7
<1>9. DOMAIN SubSeq(all, 1, k) = 1..k
      BY <1>8
<1>10. ASSUME NEW i \in DOMAIN backups, i < MaxBackups
       PROVE  i + 1 \in 1..k /\ SubSeq(all, 1, k)[i + 1] = backups[i]
  <2>1. i \in 1..Len(backups) /\ i + 1 \in 2..Len(all) /\ (i + 1) - 1 = i
        BY <1>1, <1>2
  <2>2. all[i + 1] = backups[i]
        BY <1>2, <2>1
  <2>3. k = MaxBackups \/ k = Len(all)
        BY <1>3, MinOfTwo DEF Constants, k
  <2>4. i + 1 \in 1..k
        BY <1>5, <1>10, <2>1, <2>3 DEF Constants
  <2> QED
      BY <1>8, <2>2, <2>4
<1>11. \A i \in DOMAIN backups :
          i < MaxBackups => \E j \in DOMAIN Backup(d) : Backup(d)[j] = backups[i]
       BY <1>6, <1>9, <1>10
<1> QED
    BY <1>2, <1>4, <1>5, <1>6, <1>8, <1>9, <1>11 DEF BackupsOK

\* What is left when one backup is removed.
LEMMA RemoveFits ==
    ASSUME Constants, NEW r, NEW x, BackupsOK(backups, r, x), NEW i \in DOMAIN backups
    PROVE  /\ BackupsOK(RemoveAt(backups, i), r, x)
           /\ \A j \in DOMAIN backups :
                 j # i => \E k \in DOMAIN RemoveAt(backups, i) :
                             RemoveAt(backups, i)[k] = backups[j]
<1> DEFINE n == Len(backups)
           s == SubSeq(backups, 1, i - 1)
           t == SubSeq(backups, i + 1, n)
<1>1. backups \in Seq(Document) /\ n \in Nat /\ i \in 1..n /\ n <= MaxBackups
      BY DEF BackupsOK
<1>2. \A j \in 1..n : DocOK(backups[j], r, x) /\ backups[j] \in Document
      BY <1>1 DEF BackupsOK
<1>3. /\ s \in Seq(Document) /\ Len(s) = i - 1
      /\ \A j \in 1..(i - 1) : s[j] = backups[j]
      BY <1>1, <1>2
<1>4. /\ t \in Seq(Document) /\ Len(t) = n - i
      /\ \A j \in 1..(n - i) : t[j] = backups[i + j]
      BY <1>1, <1>2
<1> HIDE DEF n, s, t
<1>5. /\ s \o t \in Seq(Document) /\ Len(s \o t) = n - 1
      /\ \A j \in 1..(n - 1) :
            (s \o t)[j] = IF j <= i - 1 THEN s[j] ELSE t[j - (i - 1)]
  <2>1. /\ s \o t \in Seq(Document) /\ Len(s \o t) = Len(s) + Len(t)
        /\ \A j \in 1..(Len(s) + Len(t)) :
              (s \o t)[j] = IF j <= Len(s) THEN s[j] ELSE t[j - Len(s)]
        BY <1>3, <1>4, ConcatProperties
  <2>2. Len(s) + Len(t) = n - 1
        BY <1>1, <1>3, <1>4
  <2> QED
      BY <1>3, <2>1, <2>2
<1>6. \A j \in 1..(n - 1) : DocOK((s \o t)[j], r, x)
  <2>1. TAKE j \in 1..(n - 1)
  <2>2. CASE j <= i - 1
    <3>1. (s \o t)[j] = backups[j] /\ j \in 1..n
          BY <1>1, <1>3, <1>5, <2>2
    <3> QED
        BY <1>2, <3>1
  <2>3. CASE ~(j <= i - 1)
    <3>1. j - (i - 1) \in 1..(n - i) /\ i + (j - (i - 1)) = j + 1 /\ j + 1 \in 1..n
          BY <1>1, <2>3
    <3>2. (s \o t)[j] = backups[j + 1]
          BY <1>4, <1>5, <2>3, <3>1
    <3> QED
        BY <1>2, <3>1, <3>2
  <2> QED
      BY <2>2, <2>3
<1>7. RemoveAt(backups, i) = s \o t
      BY DEF RemoveAt, s, t, n
<1>8. DOMAIN (s \o t) = 1..(n - 1)
      BY <1>5
<1>9. ASSUME NEW j \in DOMAIN backups, j # i
      PROVE  \E k \in 1..(n - 1) : (s \o t)[k] = backups[j]
  <2>1. j \in 1..n
        BY <1>1 DEF n
  <2>2. CASE j <= i - 1
    <3>1. j \in 1..(n - 1) /\ j \in 1..(i - 1)
          BY <1>1, <2>1, <2>2
    <3>2. (s \o t)[j] = backups[j]
          BY <1>3, <1>5, <2>2, <3>1
    <3> QED
        BY <3>1, <3>2
  <2>3. CASE ~(j <= i - 1)
    <3>1. /\ j - 1 \in 1..(n - 1) /\ ~(j - 1 <= i - 1)
          /\ (j - 1) - (i - 1) \in 1..(n - i) /\ i + ((j - 1) - (i - 1)) = j
          BY <1>1, <1>9, <2>1, <2>3
    <3>2. (s \o t)[j - 1] = t[(j - 1) - (i - 1)]
          BY <1>5, <3>1
    <3>3. t[(j - 1) - (i - 1)] = backups[j]
          BY <1>4, <3>1
    <3> QED
        BY <3>1, <3>2, <3>3
  <2> QED
      BY <2>2, <2>3
<1>10. BackupsOK(s \o t, r, x)
       BY <1>1, <1>5, <1>6, <1>8 DEF BackupsOK, Constants
<1> QED
    BY <1>7, <1>8, <1>9, <1>10

-----------------------------------------------------------------------------
(* The backend's projects only go forward, or are deleted.                   *)

Grown(r, x, r2, x2) == /\ r2 \in [Project -> 0..MaxVersion] /\ x \subseteq x2
                       /\ \A p \in Project : p \in x2 \/ r[p] <= r2[p]

LEMMA PastGrows ==
    ASSUME Constants, NEW r \in [Project -> 0..MaxVersion], NEW x, NEW r2, NEW x2,
           Grown(r, x, r2, x2), NEW p \in Project, NEW v \in 0..MaxVersion, Past(p, v, r, x)
    PROVE  Past(p, v, r2, x2)
<1>1. r[p] \in 0..MaxVersion /\ r2[p] \in 0..MaxVersion
      BY DEF Grown
<1> QED
    BY <1>1 DEF Grown, Past, Constants

LEMMA DocGrows ==
    ASSUME Constants, NEW r \in [Project -> 0..MaxVersion], NEW x, NEW r2, NEW x2,
           Grown(r, x, r2, x2), NEW d, DocOK(d, r, x)
    PROVE  DocOK(d, r2, x2)
<1>1. d \in Document
      BY DEF DocOK
<1>2. CASE d.from = None
      BY <1>1, <1>2 DEF DocOK
<1>3. CASE d.from # None
  <2>1. d.from \in Project /\ d.ver \in 0..MaxVersion
        BY <1>1, <1>3 DEF Document
  <2> QED
      BY <1>1, <1>3, <2>1, PastGrows DEF DocOK
<1> QED
    BY <1>2, <1>3

LEMMA TasksGrow ==
    ASSUME Constants, NEW r \in [Project -> 0..MaxVersion], NEW x, NEW r2, NEW x2,
           Grown(r, x, r2, x2), NEW ts, NEW b, TasksOK(ts, b, r, x)
    PROVE  TasksOK(ts, b, r2, x2)
<1>1. SUFFICES ASSUME NEW q \in Request, ts[q] # None
               PROVE  TaskOK(ts[q], b, r2, x2)
      BY DEF TasksOK
<1>2. PICK t : t = ts[q]
      OBVIOUS
<1>3. TaskOK(t, b, r, x)
      BY <1>1, <1>2 DEF TasksOK
<1>4. t.link # None => t.link.id \in Project /\ t.link.ver \in 0..MaxVersion
      BY <1>3 DEF TaskOK, Task, Link
<1>5. t.link # None => Past(t.link.id, t.link.ver, r2, x2)
      BY <1>3, <1>4, PastGrows DEF TaskOK
<1>6. /\ DocOK(t.got, r, x) => DocOK(t.got, r2, x2)
      /\ DocOK(t.kept, r, x) => DocOK(t.kept, r2, x2)
      BY DocGrows
<1>7. x \subseteq x2
      BY DEF Grown
<1> QED
    BY <1>2, <1>3, <1>5, <1>6, <1>7 DEF TaskOK

\* What was true of a version of the backend stays true of later ones.
LEMMA RowsGrow ==
    ASSUME Constants, SyncInv, Grown(rows, deleted, rows', deleted'),
           UNCHANGED <<edits, conflict, doc, saved, backups, list, link, lost, mixed>>,
           TasksOK(tasks', backups, rows', deleted'), RebornOK(rows', deleted', reborn'),
           PushOK(pushing', rows', deleted', mixed'), SyncSafe'
    PROVE  SyncInv'
<1>1. rows \in [Project -> 0..MaxVersion] /\ rows' \in [Project -> 0..MaxVersion]
      BY DEF SyncInv, Grown
<1>2. DocOK(doc', rows', deleted') /\ (saved' = None \/ DocOK(saved', rows', deleted'))
      BY <1>1, DocGrows DEF SyncInv
<1>3. BackupsOK(backups', rows', deleted')
      BY <1>1, DocGrows DEF SyncInv, BackupsOK
<1>4. ListOK(list', rows', deleted')
  <2>1. CASE list # None
    <3>1. /\ list \in [Project -> 0..MaxVersion]
          /\ \A p \in Project : Past(p, list[p], rows, deleted)
          BY <2>1 DEF SyncInv, ListOK
    <3>2. \A p \in Project : Past(p, list[p], rows', deleted')
          BY <1>1, <3>1, PastGrows
    <3> QED
        BY <3>1, <3>2 DEF ListOK
  <2> QED
      BY <2>1 DEF ListOK
<1>5. LinkOK(link', doc', deleted', mixed')
      BY DEF SyncInv, LinkOK, Grown
<1>6. edits' \in 0..MaxEdits /\ conflict' \in Project \cup {None} /\ NothingLost'
      BY DEF SyncInv, NothingLost
<1> QED
    BY <1>1, <1>2, <1>3, <1>4, <1>5, <1>6 DEF SyncInv

-----------------------------------------------------------------------------
(* The document and its snapshot.                                            *)

\* Another document in the editor, with its snapshot on the way to the disk.
LEMMA DocChanges ==
    ASSUME SyncInv, UNCHANGED <<conflict, list, pushing, rows, deleted, reborn, backups>>,
           edits' \in 0..MaxEdits, DocOK(doc', rows, deleted),
           saved' \in {doc', saved}, TasksOK(tasks', backups, rows, deleted),
           mixed => mixed', LinkOK(link', doc', deleted, mixed'),
           lost' => lost, blind' = blind
    PROVE  SyncInv'
<1>1. saved' = None \/ DocOK(saved', rows', deleted')
      BY DEF SyncInv
<1>2. BackupsOK(backups', rows', deleted') /\ RebornOK(rows', deleted', reborn')
      BY DEF SyncInv
<1>3. PushOK(pushing', rows', deleted', mixed')
      BY DEF SyncInv, PushOK
<1>4. NothingLost' /\ SyncSafe'
      BY DEF SyncInv, NothingLost, SyncSafe
<1> QED
    BY <1>1, <1>2, <1>3, <1>4 DEF SyncInv

LEMMA EditInv ==
    ASSUME Constants, SyncInv, Edit
    PROVE  SyncInv'
<1>1. UNCHANGED <<link, saved, backups, list, conflict, tasks, pushing, rows, deleted,
                  reborn, lost, blind, mixed>>
      BY DEF Edit, history, server
<1>2. edits' \in 0..MaxEdits
      BY DEF Edit, SyncInv, Constants
<1>3. /\ doc \in Document /\ doc' = [doc EXCEPT !.edit = edits']
      /\ doc.from = None \/ Past(doc.from, doc.ver, rows, deleted)
      BY DEF Edit, SyncInv, DocOK
<1>4. doc' \in Document /\ doc'.from = doc.from /\ doc'.ver = doc.ver
      BY <1>2, <1>3 DEF Document
<1>5. DocOK(doc', rows, deleted)
      BY <1>3, <1>4 DEF DocOK
<1>6. LinkOK(link', doc', deleted, mixed')
      BY <1>1, <1>4 DEF SyncInv, LinkOK
<1>7. TasksOK(tasks', backups, rows, deleted)
      BY <1>1 DEF SyncInv
<1> QED
    BY <1>1, <1>2, <1>5, <1>6, <1>7, DocChanges

LEMMA AutosaveTimerInv ==
    ASSUME Constants, SyncInv, AutosaveTimer
    PROVE  SyncInv'
<1>1. /\ UNCHANGED <<doc, link, edits, backups, list, conflict, tasks, pushing, rows,
                     deleted, reborn, lost, blind, mixed>>
      /\ saved' \in {doc, saved}
      BY DEF AutosaveTimer, Flush, local, history, server
<1> QED
    BY <1>1, DocChanges DEF SyncInv

LEMMA FreshFits ==
    ASSUME Constants, NEW r, NEW x
    PROVE  DocOK(Fresh, r, x) /\ Fresh.from = None
BY DEF DocOK, Fresh, Document, Constants

LEMMA NoTasks ==
    ASSUME NEW b, NEW r, NEW x
    PROVE  TasksOK([q \in Request |-> None], b, r, x)
BY DEF TasksOK

LEMMA ReloadInv ==
    ASSUME Constants, SyncInv, Reload
    PROVE  SyncInv'
<1>1. /\ UNCHANGED <<edits, link, saved, backups, rows, deleted, reborn, lost, blind>>
      /\ list' = None /\ conflict' = None /\ pushing' = None
      /\ tasks' = [r \in Request |-> None]
      /\ mixed' = (mixed \/ ~Agree(doc', link))
      BY DEF Reload, server
<1>2. DocOK(doc', rows, deleted)
      BY FreshFits DEF Reload, SyncInv
<1>3. LinkOK(link', doc', deleted', mixed')
      BY <1>1 DEF LinkOK, SyncInv, Agree
<1>4. ListOK(list', rows', deleted') /\ conflict' \in Project \cup {None}
      BY <1>1 DEF ListOK
<1>5. TasksOK(tasks', backups', rows', deleted') /\ PushOK(pushing', rows', deleted', mixed')
      BY <1>1, NoTasks DEF PushOK
<1>6. NothingLost' /\ SyncSafe' /\ RebornOK(rows', deleted', reborn')
      BY <1>1 DEF SyncInv, NothingLost, SyncSafe
<1> QED
    BY <1>1, <1>2, <1>3, <1>4, <1>5, <1>6 DEF SyncInv

LEMMA NewProjectInv ==
    ASSUME Constants, SyncInv, NewProject
    PROVE  SyncInv'
<1>1. /\ UNCHANGED <<edits, backups, list, conflict, tasks, pushing, rows, deleted,
                     reborn, lost, blind, mixed>>
      /\ doc' = Fresh /\ link' = None /\ saved' \in {doc', saved}
      BY DEF NewProject, SetLink, Flush, history, server
<1>2. LinkOK(link', doc', deleted, mixed')
      BY <1>1 DEF LinkOK, Link
<1>3. DocOK(doc', rows, deleted)
      BY <1>1, FreshFits
<1> QED
    BY <1>1, <1>2, <1>3, DocChanges DEF SyncInv

-----------------------------------------------------------------------------
(* The handlers of the dialog.                                               *)

\* One handler goes on, and the others stay.
LEMMA TaskGoes ==
    ASSUME NEW ts, NEW b, NEW r, NEW x, TasksOK(ts, b, r, x), NEW q \in Request, NEW t,
           t = None \/ TaskOK(t, b, r, x)
    PROVE  TasksOK([ts EXCEPT ![q] = t], b, r, x)
BY DEF TasksOK, TaskOK

\* A handler goes on, and nothing else changes but the snapshot.
LEMMA TasksChange ==
    ASSUME SyncInv, TasksOK(tasks', backups', rows, deleted),
           BackupsOK(backups', rows, deleted), saved' \in {doc, saved},
           UNCHANGED <<doc, link, edits, list, conflict, pushing, rows, deleted, reborn,
                       lost, blind, mixed>>
    PROVE  SyncInv'
BY DEF SyncInv, NothingLost, SyncSafe

LEMMA OpenStartsInv ==
    ASSUME Constants, SyncInv, NEW q \in Request, NEW p \in Project, OpenStarts(q, p)
    PROVE  SyncInv'
<1> DEFINE l == [id |-> p, ver |-> list[p]]
           t == [link |-> l, at |-> "save", kept |-> doc, got |-> None]
<1>1. /\ UNCHANGED <<doc, link, edits, backups, list, conflict, pushing, rows, deleted,
                     reborn, lost, blind, mixed>>
      /\ tasks' = [tasks EXCEPT ![q] = t] /\ saved' \in {doc, saved} /\ list # None
      BY DEF OpenStarts, Start, Flush, local, history, server
<1>2. doc \in Document /\ DocOK(doc, rows, deleted)
      BY DEF SyncInv, DocOK
<1>3. list[p] \in 0..MaxVersion /\ Past(p, list[p], rows, deleted)
      BY <1>1 DEF SyncInv, ListOK
<1>4. l \in Link /\ l.id = p /\ l.ver = list[p] /\ l # None
      BY <1>3 DEF Link, Constants
<1> HIDE DEF l
<1>5. t \in Task /\ t.link = l /\ t.kept = doc /\ t.at = "save"
      BY <1>2, <1>4 DEF Task
<1> HIDE DEF t
<1>6. TaskOK(t, backups, rows, deleted)
      BY <1>2, <1>3, <1>4, <1>5 DEF TaskOK
<1>7. TasksOK(tasks', backups', rows, deleted)
      BY <1>1, <1>6, TaskGoes DEF SyncInv
<1> QED
    BY <1>1, <1>7, TasksChange DEF SyncInv

LEMMA RestoreStartsInv ==
    ASSUME Constants, SyncInv, NEW q \in Request, NEW i \in DOMAIN backups,
           RestoreStarts(q, backups[i])
    PROVE  SyncInv'
<1> DEFINE d == backups[i]
           t == [link |-> None, at |-> "load", kept |-> None, got |-> d]
<1>1. /\ UNCHANGED <<doc, link, edits, saved, backups, list, conflict, pushing, rows,
                     deleted, reborn, lost, blind, mixed>>
      /\ tasks' = [tasks EXCEPT ![q] = t]
      BY DEF RestoreStarts, Start, local, disk, history, server
<1>2. d \in Document /\ DocOK(d, rows, deleted)
      BY DEF SyncInv, BackupsOK, DocOK
<1> HIDE DEF d
<1>3. t \in Task /\ t.link = None /\ t.got = d /\ t.at = "load"
      BY <1>2 DEF Task, Link
<1> HIDE DEF t
<1>4. TaskOK(t, backups, rows, deleted)
      BY <1>2, <1>3 DEF TaskOK
<1> QED
    BY <1>1, <1>4, TaskGoes, TasksChange DEF SyncInv

\* The task at q, when it is at a place.
LEMMA TaskAt ==
    ASSUME SyncInv, NEW q \in Request, NEW place, At(q, place)
    PROVE  /\ TaskOK(tasks[q], backups, rows, deleted) /\ tasks[q] \in Task
           /\ tasks[q].at = place
BY DEF SyncInv, TasksOK, TaskOK, At

\* A handler that ends.
LEMMA EndsInv ==
    ASSUME Constants, SyncInv, NEW q \in Request, Ends(q),
           UNCHANGED <<doc, link, edits, saved, backups, list, conflict, pushing, rows,
                       deleted, reborn, lost, blind, mixed>>
    PROVE  SyncInv'
<1>1. TasksOK(tasks', backups, rows, deleted)
      BY TaskGoes DEF SyncInv, Ends
<1> QED
    BY <1>1, TasksChange DEF SyncInv

LEMMA BackupReadInv ==
    ASSUME Constants, SyncInv, NEW q \in Request, BackupRead(q)
    PROVE  SyncInv'
<1>1. UNCHANGED <<doc, link, edits, saved, backups, list, conflict, pushing, rows, deleted,
                  reborn, lost, blind, mixed>>
      BY DEF BackupRead, local, disk, history, server
<1>2. CASE Ends(q)
      BY <1>1, <1>2, EndsInv
<1>3. CASE tasks' = [tasks EXCEPT ![q].at = "save", ![q].kept = doc]
  <2>1. PICK t : t = tasks[q]
        OBVIOUS
  <2> DEFINE n == [t EXCEPT !.at = "save", !.kept = doc]
  <2>2. /\ TaskOK(t, backups, rows, deleted) /\ t \in Task
        /\ t.link = None /\ DocOK(t.got, rows, deleted)
        BY <2>1, TaskAt DEF BackupRead, TaskOK, At
  <2>3. DocOK(doc, rows, deleted) /\ doc \in Document
        BY DEF SyncInv, DocOK
  <2>4. n \in Task /\ n.at = "save" /\ n.kept = doc /\ n.link = t.link /\ n.got = t.got
        BY <2>2, <2>3 DEF Task
  <2>5. tasks' = [tasks EXCEPT ![q] = n]
        BY <1>3, <2>1 DEF SyncInv, TasksOK
  <2> HIDE DEF n
  <2>6. TaskOK(n, backups, rows, deleted)
        BY <2>2, <2>3, <2>4 DEF TaskOK
  <2> QED
      BY <1>1, <2>5, <2>6, TaskGoes, TasksChange DEF SyncInv
<1> QED
    BY <1>2, <1>3 DEF BackupRead

\* What is left among the backups after b is removed is what the handlers count on.
LEMMA ForgetFits ==
    ASSUME SyncInv, NEW b, NEW bs,
           \A i \in DOMAIN backups : backups[i] = b \/ \E j \in DOMAIN bs : bs[j] = backups[i]
    PROVE  TasksOK(Forget(b), bs, rows, deleted)
<1>1. tasks \in [Request -> Task \cup {None}]
      BY DEF SyncInv, TasksOK
<1>2. ASSUME NEW q \in Request
      PROVE  Forget(b)[q] = None \/ TaskOK(Forget(b)[q], bs, rows, deleted)
  <2>1. PICK t : t = tasks[q]
        OBVIOUS
  <2>2. CASE t = None
        BY <2>1, <2>2 DEF Forget, At
  <2>3. CASE t # None
    <3>1. TaskOK(t, backups, rows, deleted) /\ t \in Task
          BY <2>1, <2>3 DEF SyncInv, TasksOK, TaskOK
    <3>2. CASE t.at \in {"get", "ready"} /\ t.kept = b
      <4> DEFINE n == [t EXCEPT !.kept = None]
      <4>1. Forget(b)[q] = n
            BY <2>1, <2>3, <3>2 DEF Forget, At
      <4>2. n \in Task /\ n.at = t.at /\ n.kept = None /\ n.link = t.link /\ n.got = t.got
            BY <3>1 DEF Task
      <4> HIDE DEF n
      <4>3. TaskOK(n, bs, rows, deleted)
            BY <3>1, <3>2, <4>2 DEF TaskOK, Stands
      <4> QED
          BY <4>1, <4>3
    <3>3. CASE t.at \in {"get", "ready"} /\ t.kept # b
      <4>1. Forget(b)[q] = t
            BY <2>1, <3>3 DEF Forget, At
      <4>2. Stands(t.kept, backups)
            BY <3>1, <3>3 DEF TaskOK
      <4>3. Stands(t.kept, bs)
            BY <3>3, <4>2 DEF Stands
      <4>4. TaskOK(t, bs, rows, deleted)
            BY <3>1, <4>3 DEF TaskOK
      <4> QED
          BY <4>1, <4>4
    <3>4. CASE t.at \notin {"get", "ready"}
      <4>1. Forget(b)[q] = t
            BY <2>1, <3>4 DEF Forget, At
      <4>2. TaskOK(t, bs, rows, deleted)
            BY <3>1, <3>4 DEF TaskOK
      <4> QED
          BY <4>1, <4>2
    <3> QED
        BY <3>2, <3>3, <3>4
  <2> QED
      BY <2>2, <2>3
<1>3. Forget(b) \in [Request -> Task \cup {None}]
  <2>1. \A q \in Request : Forget(b)[q] \in Task \cup {None}
        BY <1>2 DEF TaskOK
  <2> QED
      BY <2>1 DEF Forget
<1> QED
    BY <1>2, <1>3 DEF TasksOK

LEMMA RemoveBackupInv ==
    ASSUME Constants, SyncInv, NEW i \in DOMAIN backups, RemoveBackup(i)
    PROVE  SyncInv'
<1>1. /\ UNCHANGED <<doc, link, edits, saved, list, conflict, pushing, rows, deleted,
                     reborn, lost, blind, mixed>>
      /\ backups' = RemoveAt(backups, i) /\ tasks' = Forget(backups[i])
      BY DEF RemoveBackup, local, history, server
<1>2. /\ BackupsOK(backups', rows, deleted)
      /\ \A j \in DOMAIN backups :
            j # i => \E k \in DOMAIN backups' : backups'[k] = backups[j]
      BY <1>1, RemoveFits DEF SyncInv
<1>3. TasksOK(tasks', backups', rows, deleted)
      BY <1>1, <1>2, ForgetFits
<1> QED
    BY <1>1, <1>2, <1>3, TasksChange

\* After the document is backed up, what other handlers count on is still there.
LEMMA BackupSavedInv ==
    ASSUME Constants, SyncInv, NEW q \in Request, BackupSaved(q)
    PROVE  SyncInv'
<1>1. /\ UNCHANGED <<doc, link, edits, saved, list, conflict, pushing, rows, deleted,
                     reborn, lost, blind, mixed>>
      /\ At(q, "save")
      BY DEF BackupSaved, local, history, server
<1>2. PICK t : t = tasks[q]
      OBVIOUS
<1>3. TaskOK(t, backups, rows, deleted) /\ t \in Task /\ t.at = "save"
      BY <1>1, <1>2, TaskAt
<1>4. DocOK(t.kept, rows, deleted) /\ t.kept \in Document
      BY <1>3 DEF TaskOK, DocOK
<1>5. CASE Ends(q) /\ UNCHANGED backups
      BY <1>1, <1>5, EndsInv
<1>6. CASE /\ backups' = Backup(t.kept)
           /\ tasks' = [IF Len(backups) = MaxBackups THEN Forget(Last(backups)) ELSE tasks
                        EXCEPT ![q].at = IF t.link = None THEN "ready" ELSE "get"]
  <2>1. BackupsOK(backups, rows, deleted)
        BY DEF SyncInv
  <2>2. /\ BackupsOK(backups', rows, deleted)
        /\ \E j \in DOMAIN backups' : backups'[j] = t.kept
        /\ \A i \in DOMAIN backups :
              i < MaxBackups => \E j \in DOMAIN backups' : backups'[j] = backups[i]
        BY <1>4, <1>6, <2>1, BackupFits
  <2> DEFINE ts == IF Len(backups) = MaxBackups THEN Forget(Last(backups)) ELSE tasks
  <2>3. backups \in Seq(Document) /\ Len(backups) <= MaxBackups /\ MaxBackups \in Nat
        BY <2>1 DEF BackupsOK, Constants
  <2>4. TasksOK(ts, backups', rows, deleted) /\ ts[q] = t
    <3>1. CASE Len(backups) = MaxBackups
      <4>1. \A i \in DOMAIN backups : i < MaxBackups \/ backups[i] = Last(backups)
            BY <2>3, <3>1 DEF Last
      <4>2. TasksOK(Forget(Last(backups)), backups', rows, deleted)
            BY <2>2, <4>1, ForgetFits
      <4>3. Forget(Last(backups))[q] = t
            BY <1>2, <1>3 DEF Forget, At
      <4> QED
          BY <3>1, <4>2, <4>3
    <3>2. CASE Len(backups) # MaxBackups
      <4>1. \A i \in DOMAIN backups : i < MaxBackups
            BY <2>3, <3>2
      <4>2. ASSUME NEW p \in Request, tasks[p] # None
            PROVE  TaskOK(tasks[p], backups', rows, deleted)
        <5>1. TaskOK(tasks[p], backups, rows, deleted)
              BY <4>2 DEF SyncInv, TasksOK
        <5>2. Stands(tasks[p].kept, backups) => Stands(tasks[p].kept, backups')
              BY <2>2, <4>1 DEF Stands
        <5> QED
            BY <5>1, <5>2 DEF TaskOK
      <4>3. TasksOK(tasks, backups', rows, deleted)
            BY <4>2 DEF SyncInv, TasksOK
      <4> QED
          BY <1>2, <3>2, <4>3
    <3> QED
        BY <3>1, <3>2
  <2> DEFINE n == [t EXCEPT !.at = IF t.link = None THEN "ready" ELSE "get"]
  <2>5. tasks' = [ts EXCEPT ![q] = n]
        BY <1>6, <2>4 DEF TasksOK
  <2> HIDE DEF ts
  <2>6. /\ n \in Task /\ n.at = (IF t.link = None THEN "ready" ELSE "get")
        /\ n.kept = t.kept /\ n.link = t.link /\ n.got = t.got
        BY <1>3 DEF Task
  <2> HIDE DEF n
  <2>7. Stands(n.kept, backups')
        BY <2>2, <2>6 DEF Stands
  <2>8. TaskOK(n, backups', rows, deleted)
    <3>1. CASE t.link = None
          BY <1>3, <2>6, <2>7, <3>1 DEF TaskOK
    <3>2. CASE t.link # None
          BY <1>3, <2>6, <2>7, <3>2 DEF TaskOK
    <3> QED
        BY <3>1, <3>2
  <2>9. TasksOK(tasks', backups', rows, deleted)
        BY <2>4, <2>5, <2>8, TaskGoes
  <2> QED
      BY <1>1, <2>2, <2>9, TasksChange
<1> QED
    BY <1>2, <1>5, <1>6 DEF BackupSaved

LEMMA OpenAnsweredInv ==
    ASSUME Constants, SyncInv, NEW q \in Request, OpenAnswered(q)
    PROVE  SyncInv'
<1>1. /\ UNCHANGED <<doc, link, edits, saved, backups, list, conflict, pushing, rows,
                     deleted, reborn, lost, blind, mixed>>
      /\ At(q, "get")
      BY DEF OpenAnswered, local, disk, history, server
<1>2. CASE Ends(q)
      BY <1>1, <1>2, EndsInv
<1>3. CASE tasks' = [tasks EXCEPT ![q].at = "ready",
                     ![q].got = Based(tasks[q].link.id, rows[tasks[q].link.id])]
  <2>1. PICK t : t = tasks[q]
        OBVIOUS
  <2>2. /\ TaskOK(t, backups, rows, deleted) /\ t \in Task /\ t.link # None
        /\ Stands(t.kept, backups) /\ Past(t.link.id, t.link.ver, rows, deleted)
        BY <1>1, <2>1, TaskAt DEF TaskOK
  <2>3. PICK l : l = t.link
        OBVIOUS
  <2>4. l \in Link /\ l.id \in Project /\ l.ver \in 0..MaxVersion
        /\ rows[l.id] \in 0..MaxVersion
        BY <2>2, <2>3 DEF Task, Link, SyncInv
  <2> DEFINE g == Based(l.id, rows[l.id])
             n == [t EXCEPT !.at = "ready", !.got = g]
  <2>5. g \in Document /\ g.from = l.id /\ g.ver = rows[l.id]
        BY <2>4 DEF Based, Document, Constants
  <2>6. DocOK(g, rows, deleted) /\ (l.id \in deleted \/ l.ver <= g.ver)
        BY <2>2, <2>3, <2>4, <2>5 DEF DocOK, Past
  <2> HIDE DEF g
  <2>7. n \in Task /\ n.at = "ready" /\ n.got = g /\ n.kept = t.kept /\ n.link = l
        BY <2>2, <2>3, <2>5 DEF Task
  <2>8. tasks' = [tasks EXCEPT ![q] = n]
        BY <1>3, <2>1, <2>3 DEF SyncInv, TasksOK, g
  <2> HIDE DEF n
  <2>9. TaskOK(n, backups, rows, deleted)
        BY <2>2, <2>3, <2>5, <2>6, <2>7 DEF TaskOK
  <2> QED
      BY <1>1, <2>8, <2>9, TaskGoes, TasksChange DEF SyncInv
<1> QED
    BY <1>2, <1>3 DEF OpenAnswered

\* The document that is replaced is among the backups, if it is the one this
\* handler has backed up.
LEMMA LoadInv ==
    ASSUME Constants, SyncInv, NEW q \in Request, Load(q)
    PROVE  SyncInv'
<1>1. /\ UNCHANGED <<edits, backups, list, conflict, pushing, rows, deleted, reborn,
                     blind, mixed>>
      /\ doc' = tasks[q].got /\ link' = tasks[q].link /\ saved' \in {doc', saved}
      /\ lost' = (lost \/ Unkept(q)) /\ Ends(q) /\ At(q, "ready")
      BY DEF Load, SetLink, Flush, server
<1>2. PICK t : t = tasks[q]
      OBVIOUS
<1>3. /\ t \in Task /\ DocOK(t.got, rows, deleted) /\ Stands(t.kept, backups)
      /\ \/ t.link = None \/ t.link.id \in deleted
         \/ t.got.from = t.link.id /\ t.link.ver <= t.got.ver
      BY <1>1, <1>2, TaskAt DEF TaskOK
<1>4. ~Unkept(q)
  <2>1. doc \in Document
        BY DEF SyncInv, DocOK
  <2>2. CASE doc = t.kept
        BY <1>2, <1>3, <2>1, <2>2 DEF Unkept, Stands, Constants, Range
  <2> QED
      BY <1>2, <2>2 DEF Unkept
<1>5. lost' => lost
      BY <1>1, <1>4
<1>6. DocOK(doc', rows, deleted)
      BY <1>1, <1>2, <1>3
<1>7. LinkOK(link', doc', deleted, mixed')
      BY <1>1, <1>2, <1>3 DEF LinkOK, Task
<1>8. TasksOK(tasks', backups, rows, deleted)
      BY <1>1, TaskGoes DEF SyncInv, Ends
<1>9. edits' \in 0..MaxEdits
      BY <1>1 DEF SyncInv
<1> QED
    BY <1>1, <1>5, <1>6, <1>7, <1>8, <1>9, DocChanges

LEMMA DeleteListedInv ==
    ASSUME Constants, SyncInv, NEW q \in Request, DeleteListed(q)
    PROVE  SyncInv'
<1>1. /\ UNCHANGED <<doc, edits, saved, backups, conflict, pushing, rows, deleted, reborn,
                     lost, blind, mixed>>
      /\ link' \in {link, None} /\ list' \in {rows, list} /\ Ends(q)
      BY DEF DeleteListed, SetLink, disk, history, server
<1>2. TasksOK(tasks', backups, rows, deleted)
      BY <1>1, TaskGoes DEF SyncInv, Ends
<1>3. LinkOK(link', doc', deleted', mixed')
      BY <1>1 DEF LinkOK, Link, SyncInv
<1>4. ListOK(list', rows', deleted')
      BY <1>1 DEF ListOK, Past, SyncInv
<1> QED
    BY <1>1, <1>2, <1>3, <1>4 DEF SyncInv, NothingLost, SyncSafe

-----------------------------------------------------------------------------
(* Pushing a project.                                                        *)

\* What is pushed changes, and nothing else but the snapshot.
LEMMA PushingChanges ==
    ASSUME SyncInv, PushOK(pushing', rows, deleted, mixed),
           saved' \in {doc, saved}, conflict' \in Project \cup {None},
           UNCHANGED <<doc, link, edits, backups, list, tasks, rows, deleted, reborn, lost, blind,
                       mixed>>
    PROVE  SyncInv'
BY DEF SyncInv, NothingLost, SyncSafe

LEMMA PushInv ==
    ASSUME Constants, SyncInv, NEW sync \in BOOLEAN, NEW p \in Project,
           NEW v \in 0..MaxVersion, Push(sync, p, v),
           sync => link # None /\ p = link.id /\ v = link.ver
    PROVE  SyncInv'
<1> DEFINE m == [sync |-> sync, id |-> p, ver |-> v, from |-> doc.from,
                 base |-> doc.ver, reply |-> None]
<1>1. /\ UNCHANGED <<doc, link, edits, backups, list, conflict, tasks, rows, deleted,
                     reborn, lost, blind, mixed>>
      /\ pushing' = m /\ saved' \in {doc, saved}
      BY DEF Push, Flush, local, history, server
<1>2. doc.from \in Project \cup {None} /\ doc.ver \in 0..MaxVersion
      BY DEF SyncInv, DocOK, Document
<1>3. /\ m \in Pushing /\ m.sync = sync /\ m.id = p /\ m.ver = v /\ m.from = doc.from
      /\ m.base = doc.ver /\ m.reply = None
      BY <1>2 DEF Pushing
<1> HIDE DEF m
<1>4. m.from = None \/ Past(m.from, m.base, rows, deleted)
      BY <1>3 DEF SyncInv, DocOK
<1>5. m.sync => mixed \/ m.id \in deleted \/ (m.from = m.id /\ m.ver <= m.base)
      BY <1>3 DEF SyncInv, LinkOK
<1>6. PushOK(pushing', rows, deleted, mixed)
      BY <1>1, <1>3, <1>4, <1>5 DEF PushOK
<1> QED
    BY <1>1, <1>6, PushingChanges DEF SyncInv

LEMMA PushStartsInv ==
    ASSUME Constants, SyncInv,
           Sync \/ Overwrite \/ \E p \in Project : PushNew(p) \/ PushExisting(p)
    PROVE  SyncInv'
<1>1. 0 \in 0..MaxVersion
      BY DEF Constants
<1>2. \A p \in Project : /\ list # None => list[p] \in 0..MaxVersion
                         /\ rows[p] \in 0..MaxVersion
      BY DEF SyncInv, ListOK
<1>3. CASE Sync
  <2>1. link # None /\ link.id \in Project /\ link.ver \in 0..MaxVersion
        BY <1>3 DEF Sync, SyncInv, LinkOK, Link
  <2> QED
      BY <1>3, <2>1, PushInv DEF Sync
<1>4. CASE Overwrite
  <2>1. conflict \in Project
        BY <1>4 DEF Overwrite, SyncInv
  <2> DEFINE v == IF list = None THEN rows[conflict] ELSE list[conflict]
  <2>2. v \in 0..MaxVersion
        BY <1>2, <2>1
  <2>3. Push(FALSE, conflict, v)
        BY <1>4 DEF Overwrite
  <2> HIDE DEF v
  <2> QED
      BY <2>1, <2>2, <2>3, PushInv
<1>5. ASSUME NEW p \in Project, PushNew(p)
      PROVE  SyncInv'
      BY <1>1, <1>5, PushInv DEF PushNew
<1>6. ASSUME NEW p \in Project, PushExisting(p)
      PROVE  SyncInv'
      BY <1>2, <1>6, PushInv DEF PushExisting
<1> QED
    BY <1>3, <1>4, <1>5, <1>6

\* The backend takes a push: what a synchronisation replaces is what the document
\* was based on, unless link and document were parted.
LEMMA PushHandledInv ==
    ASSUME Constants, SyncInv, PushHandled
    PROVE  SyncInv'
<1>1. PICK m : m = pushing
      OBVIOUS
<1>2. /\ m \in Pushing /\ m.reply = None
      /\ m.from = None \/ Past(m.from, m.base, rows, deleted)
      /\ m.sync => mixed \/ m.id \in deleted \/ (m.from = m.id /\ m.ver <= m.base)
      BY <1>1 DEF PushHandled, SyncInv, PushOK
<1>3. /\ m.id \in Project /\ rows[m.id] \in 0..MaxVersion
      /\ m.base \in 0..MaxVersion /\ m.ver \in 0..MaxVersion
      BY <1>2 DEF Pushing, SyncInv
<1>4. UNCHANGED <<doc, link, edits, saved, backups, list, conflict, tasks, deleted,
                  lost, mixed>>
      BY DEF PushHandled, local, disk
<1>5. ASSUME NEW n \in 0..MaxVersion
      PROVE  LET a == [m EXCEPT !.reply = n]
             IN  /\ a \in Pushing /\ a.reply = n /\ a.sync = m.sync /\ a.id = m.id
                 /\ a.ver = m.ver /\ a.from = m.from /\ a.base = m.base
      BY <1>2 DEF Pushing
<1>6. CASE ~Accepts(m)
  <2>1. UNCHANGED <<rows, reborn, blind>> /\ pushing' = [m EXCEPT !.reply = 0]
        BY <1>1, <1>6 DEF PushHandled
  <2>2. 0 \in 0..MaxVersion
        BY DEF Constants
  <2>3. PICK a : /\ pushing' = a
                 /\ a \in Pushing /\ a.reply = 0 /\ a.sync = m.sync /\ a.id = m.id
                 /\ a.ver = m.ver /\ a.from = m.from /\ a.base = m.base
        BY <1>5, <2>1, <2>2
  <2>4. Past(a.id, a.reply, rows, deleted)
        BY <1>3, <2>3 DEF Past, Constants
  <2>5. PushOK(pushing', rows, deleted, mixed)
        BY <1>2, <2>3, <2>4 DEF PushOK
  <2> QED
      BY <1>4, <2>1, <2>5, PushingChanges DEF SyncInv
<1>7. CASE Accepts(m)
  <2>1. /\ rows[m.id] < MaxVersion /\ rows[m.id] = m.ver
        /\ rows' = [rows EXCEPT ![m.id] = @ + 1]
        /\ pushing' = [m EXCEPT !.reply = rows'[m.id]]
        /\ reborn' = reborn \cup IF rows[m.id] = 0 THEN deleted \cap {m.id} ELSE {}
        /\ blind' = blind \cup IF m.sync /\ ~Seen(m) THEN {m.id} ELSE {}
        BY <1>1, <1>7 DEF PushHandled, Pushed, Accepts
  <2>2. rows[m.id] + 1 \in 0..MaxVersion
        BY <1>3, <2>1 DEF Constants
  <2>3. Grown(rows, deleted, rows', deleted')
        BY <1>3, <1>4, <2>1, <2>2 DEF Grown, SyncInv
  <2>4. rows'[m.id] \in 0..MaxVersion
        BY <1>3, <2>3 DEF Grown
  <2>5. PICK a : /\ pushing' = a
                 /\ a \in Pushing /\ a.reply = rows'[m.id] /\ a.sync = m.sync /\ a.id = m.id
                 /\ a.ver = m.ver /\ a.from = m.from /\ a.base = m.base
        BY <1>5, <2>1, <2>4
  <2>6. a.from = None \/ Past(a.from, a.base, rows', deleted')
    <3>1. CASE a.from # None
      <4>1. a.from \in Project /\ a.base \in 0..MaxVersion
            BY <2>5, <3>1 DEF Pushing
      <4>2. Past(a.from, a.base, rows, deleted)
            BY <1>2, <2>5, <3>1
      <4> QED
          BY <2>3, <4>1, <4>2, PastGrows DEF SyncInv
    <3> QED
        BY <3>1
  <2>7. Past(a.id, a.reply, rows', deleted')
        BY <2>4, <2>5 DEF Past
  <2>8. PushOK(pushing', rows', deleted', mixed')
        BY <1>2, <1>4, <2>5, <2>6, <2>7 DEF PushOK
  <2>9. m.sync /\ ~Seen(m) => mixed \/ m.id \in reborn
    <3>1. SUFFICES ASSUME m.sync, m.id \notin reborn, ~mixed, rows[m.id] # 0
                   PROVE  Seen(m)
          BY DEF Seen
    <3>2. m.id \notin deleted
          BY <1>3, <3>1 DEF SyncInv, RebornOK
    <3>3. m.from = m.id /\ m.ver <= m.base /\ m.from # None
          BY <1>2, <1>3, <3>1, <3>2 DEF Constants
    <3>4. m.base <= rows[m.id]
          BY <1>2, <3>2, <3>3 DEF Past
    <3> QED
        BY <1>3, <2>1, <3>3, <3>4 DEF Seen
  <2>10. SyncSafe'
    <3>1. mixed' = mixed /\ reborn \subseteq reborn'
          BY <1>4, <2>1
    <3>2. mixed \/ blind \subseteq reborn
          BY DEF SyncInv, SyncSafe
    <3>3. mixed \/ blind' \subseteq reborn \cup (IF m.sync /\ ~Seen(m) THEN {m.id} ELSE {})
          BY <2>1, <3>2
    <3> QED
        BY <2>9, <3>1, <3>3 DEF SyncSafe
  <2>11. RebornOK(rows', deleted', reborn')
         BY <1>3, <1>4, <2>1 DEF RebornOK, SyncInv
  <2>12. TasksOK(tasks', backups, rows', deleted')
         BY <1>4, <2>3, TasksGrow DEF SyncInv
  <2> QED
      BY <1>4, <2>3, <2>8, <2>10, <2>11, <2>12, RowsGrow
<1> QED
    BY <1>6, <1>7

\* An answer links what is in the editor by now with the project pushed.
LEMMA PushAnsweredInv ==
    ASSUME Constants, SyncInv, PushAnswered
    PROVE  SyncInv'
<1>1. PICK m : m = pushing
      OBVIOUS
<1>2. m \in Pushing /\ m.reply # None /\ Past(m.id, m.reply, rows, deleted)
      BY <1>1 DEF PushAnswered, SyncInv, PushOK
<1>3. m.id \in Project /\ m.reply \in 0..MaxVersion
      BY <1>2 DEF Pushing
<1>4. /\ UNCHANGED <<edits, saved, backups, list, tasks, rows, deleted, reborn, lost, blind>>
      /\ pushing' = None
      BY DEF PushAnswered, disk, server
<1>5. CASE m.reply = 0
  <2>1. conflict' = m.id /\ UNCHANGED <<doc, link, mixed>>
        BY <1>1, <1>5 DEF PushAnswered, local
  <2>2. PushOK(pushing', rows, deleted, mixed)
        BY <1>4 DEF PushOK
  <2> QED
      BY <1>3, <1>4, <2>1, <2>2, PushingChanges DEF SyncInv
<1>6. CASE m.reply # 0
  <2>1. /\ conflict' = None /\ doc' = Rebased(m)
        /\ link' = [id |-> m.id, ver |-> m.reply]
        /\ mixed' = (mixed \/ ~Agree(doc', link'))
        BY <1>1, <1>6 DEF PushAnswered, SetLink
  <2>2. DocOK(doc', rows', deleted')
    <3>1. CASE doc.from = m.from /\ doc.ver = m.base
      <4>1. doc \in Document /\ doc' = [doc EXCEPT !.from = m.id, !.ver = m.reply]
            BY <2>1, <3>1 DEF Rebased, SyncInv, DocOK
      <4>2. doc' \in Document /\ doc'.from = m.id /\ doc'.ver = m.reply
            BY <1>3, <4>1 DEF Document
      <4> QED
          BY <1>2, <1>4, <4>2 DEF DocOK
    <3>2. CASE ~(doc.from = m.from /\ doc.ver = m.base)
          BY <1>4, <2>1, <3>2 DEF Rebased, SyncInv
    <3> QED
        BY <3>1, <3>2
  <2>3. link' \in Link
        BY <1>3, <2>1 DEF Link
  <2>4. LinkOK(link', doc', deleted', mixed')
        BY <2>1, <2>3 DEF LinkOK, Agree
  <2>5. PushOK(pushing', rows', deleted', mixed') /\ NothingLost' /\ SyncSafe'
        BY <1>4, <2>1 DEF PushOK, SyncInv, NothingLost, SyncSafe
  <2> QED
      BY <1>4, <2>1, <2>2, <2>4, <2>5 DEF SyncInv
<1> QED
    BY <1>5, <1>6

LEMMA PushFailsInv ==
    ASSUME Constants, SyncInv, PushFails \/ CancelConflict
    PROVE  SyncInv'
<1>1. /\ UNCHANGED <<doc, link, edits, saved, backups, list, tasks, rows, deleted,
                     reborn, lost, blind, mixed>>
      /\ conflict' \in {None, conflict} /\ pushing' \in {None, pushing}
      BY DEF PushFails, CancelConflict, local, disk, history, server
<1>2. PushOK(pushing', rows, deleted, mixed)
      BY <1>1 DEF PushOK, SyncInv
<1> QED
    BY <1>1, <1>2, PushingChanges DEF SyncInv

-----------------------------------------------------------------------------
(* The rows of the backend.                                                  *)

LEMMA RefreshListInv ==
    ASSUME Constants, SyncInv, RefreshList
    PROVE  SyncInv'
<1>1. /\ UNCHANGED <<doc, link, edits, saved, backups, conflict, tasks, pushing, rows,
                     deleted, reborn, lost, blind, mixed>>
      /\ list' = rows
      BY DEF RefreshList, local, disk, history, server
<1>2. ListOK(list', rows', deleted')
      BY <1>1 DEF ListOK, Past, SyncInv
<1> QED
    BY <1>1, <1>2 DEF SyncInv, NothingLost, SyncSafe

LEMMA PushingStays ==
    ASSUME Constants, SyncInv, Grown(rows, deleted, rows', deleted'),
           pushing' = pushing, mixed' = mixed
    PROVE  PushOK(pushing', rows', deleted', mixed')
<1>1. PICK m : m = pushing
      OBVIOUS
<1>2. CASE m # None
  <2>1. /\ m \in Pushing
        /\ m.from = None \/ Past(m.from, m.base, rows, deleted)
        /\ m.reply = None \/ Past(m.id, m.reply, rows, deleted)
        /\ m.sync => mixed \/ m.id \in deleted \/ (m.from = m.id /\ m.ver <= m.base)
        BY <1>1, <1>2 DEF SyncInv, PushOK
  <2>2. rows \in [Project -> 0..MaxVersion]
        BY DEF SyncInv
  <2>3. m.from = None \/ Past(m.from, m.base, rows', deleted')
    <3>1. CASE m.from # None
      <4>1. m.from \in Project /\ m.base \in 0..MaxVersion
            BY <2>1, <3>1 DEF Pushing
      <4> QED
          BY <2>1, <2>2, <3>1, <4>1, PastGrows
    <3> QED
        BY <3>1
  <2>4. m.reply = None \/ Past(m.id, m.reply, rows', deleted')
    <3>1. CASE m.reply # None
      <4>1. m.id \in Project /\ m.reply \in 0..MaxVersion
            BY <2>1, <3>1 DEF Pushing
      <4> QED
          BY <2>1, <2>2, <3>1, <4>1, PastGrows
    <3> QED
        BY <3>1
  <2>5. m.id \in deleted => m.id \in deleted'
        BY DEF Grown
  <2> QED
      BY <1>1, <2>1, <2>3, <2>4, <2>5 DEF PushOK
<1> QED
    BY <1>1, <1>2 DEF PushOK

LEMMA OthersInv ==
    ASSUME Constants, SyncInv, NEW p \in Project, OtherPushes(p) \/ OtherDeletes(p)
    PROVE  SyncInv'
<1>1. UNCHANGED <<doc, link, edits, saved, backups, list, conflict, tasks, pushing,
                  lost, blind, mixed>>
      BY DEF OtherPushes, OtherDeletes, local, disk, history
<1>2. rows \in [Project -> 0..MaxVersion] /\ rows[p] \in 0..MaxVersion
      BY DEF SyncInv
<1>3. /\ Grown(rows, deleted, rows', deleted') /\ RebornOK(rows', deleted', reborn')
      /\ reborn \subseteq reborn'
  <2>1. CASE OtherPushes(p)
    <3>1. /\ rows[p] < MaxVersion /\ rows' = [rows EXCEPT ![p] = rows[p] + 1]
          /\ deleted' = deleted
          /\ reborn' = reborn \cup IF rows[p] = 0 THEN deleted \cap {p} ELSE {}
          BY <2>1 DEF OtherPushes, Pushed
    <3>2. rows[p] + 1 \in 0..MaxVersion
          BY <1>2, <3>1 DEF Constants
    <3> QED
        BY <1>2, <3>1, <3>2 DEF Grown, RebornOK, SyncInv
  <2>2. CASE OtherDeletes(p)
    <3>1. rows' = [rows EXCEPT ![p] = 0] /\ deleted' = deleted \cup {p} /\ reborn' = reborn
          BY <2>2 DEF OtherDeletes
    <3> QED
        BY <1>2, <3>1 DEF Grown, Constants, RebornOK, SyncInv
  <2> QED
      BY <2>1, <2>2
<1>4. PushOK(pushing', rows', deleted', mixed')
      BY <1>1, <1>3, PushingStays
<1>5. TasksOK(tasks', backups, rows', deleted')
      BY <1>1, <1>2, <1>3, TasksGrow DEF SyncInv
<1>6. SyncSafe'
      BY <1>1, <1>3 DEF SyncInv, SyncSafe
<1> QED
    BY <1>1, <1>3, <1>4, <1>5, <1>6, RowsGrow

LEMMA DeleteRemoteInv ==
    ASSUME Constants, SyncInv, NEW q \in Request, NEW p \in Project, DeleteRemote(q, p)
    PROVE  SyncInv'
<1> DEFINE l == [id |-> p, ver |-> list[p]]
           t == [link |-> l, at |-> "list", kept |-> None, got |-> None]
<1>1. /\ UNCHANGED <<doc, link, edits, saved, backups, list, conflict, pushing, reborn,
                     lost, blind, mixed>>
      /\ rows' = [rows EXCEPT ![p] = 0] /\ deleted' = deleted \cup {p}
      /\ tasks' = [tasks EXCEPT ![q] = t] /\ list # None
      BY DEF DeleteRemote, Start, local, disk, history
<1>2. rows \in [Project -> 0..MaxVersion]
      BY DEF SyncInv
<1>3. Grown(rows, deleted, rows', deleted') /\ RebornOK(rows', deleted', reborn')
      BY <1>1, <1>2 DEF Grown, Constants, RebornOK, SyncInv
<1>4. list[p] \in 0..MaxVersion /\ Past(p, list[p], rows', deleted')
      BY <1>1 DEF SyncInv, ListOK, Past
<1>5. l \in Link /\ l.id = p /\ l.ver = list[p] /\ l # None
      BY <1>4 DEF Link, Constants
<1> HIDE DEF l
<1>6. t \in Task /\ t.link = l /\ t.at = "list"
      BY <1>5 DEF Task
<1> HIDE DEF t
<1>7. TaskOK(t, backups, rows', deleted')
      BY <1>4, <1>5, <1>6 DEF TaskOK
<1>8. TasksOK(tasks, backups, rows', deleted')
      BY <1>2, <1>3, TasksGrow DEF SyncInv
<1>9. TasksOK(tasks', backups, rows', deleted')
      BY <1>1, <1>7, <1>8, TaskGoes
<1>10. PushOK(pushing', rows', deleted', mixed')
       BY <1>1, <1>3, PushingStays
<1>11. SyncSafe'
       BY <1>1 DEF SyncInv, SyncSafe
<1> QED
    BY <1>1, <1>3, <1>9, <1>10, <1>11, RowsGrow

-----------------------------------------------------------------------------
LEMMA SyncInit == ASSUME Constants, Init PROVE SyncInv
<1>1. DocOK(doc, rows, deleted)
      BY FreshFits DEF Init
<1>2. BackupsOK(backups, rows, deleted)
      BY DEF Init, BackupsOK, Constants
<1>3. rows \in [Project -> 0..MaxVersion] /\ edits \in 0..MaxEdits
  <2>1. 0..1 \subseteq 0..MaxVersion
        BY DEF Constants
  <2> QED
      BY <2>1 DEF Init, Constants
<1>4. ListOK(list, rows, deleted) /\ LinkOK(link, doc, deleted, mixed)
      BY DEF Init, ListOK, LinkOK, Link
<1>5. TasksOK(tasks, backups, rows, deleted) /\ PushOK(pushing, rows, deleted, mixed)
      BY NoTasks DEF Init, PushOK
<1>6. /\ saved = None /\ conflict = None /\ NothingLost /\ SyncSafe
      /\ RebornOK(rows, deleted, reborn)
      BY DEF Init, NothingLost, SyncSafe, RebornOK
<1> QED
    BY <1>1, <1>2, <1>3, <1>4, <1>5, <1>6 DEF SyncInv

LEMMA SyncStutters == ASSUME SyncInv, UNCHANGED vars PROVE SyncInv'
BY DEF SyncInv, NothingLost, SyncSafe, vars, local, disk, history, server

LEMMA SyncStep == ASSUME Constants, SyncInv, [Next]_vars PROVE SyncInv'
<1>1. CASE UNCHANGED vars
      BY <1>1, SyncStutters
<1>2. CASE Edit \/ AutosaveTimer \/ Reload
      BY <1>2, EditInv, AutosaveTimerInv, ReloadInv
<1>3. CASE ProjectToolbar
      BY <1>3, NewProjectInv, PushStartsInv DEF ProjectToolbar
<1>4. CASE PushDialog
      BY <1>4, PushStartsInv, PushFailsInv DEF PushDialog
<1>5. CASE RemoteProjectsDialog
  <2>1. CASE RefreshList
        BY <2>1, RefreshListInv
  <2>2. ASSUME NEW q \in Request, NEW p \in Project, OpenStarts(q, p) \/ DeleteRemote(q, p)
        PROVE  SyncInv'
        BY <2>2, OpenStartsInv, DeleteRemoteInv
  <2>3. ASSUME NEW q \in Request, NEW i \in DOMAIN backups, RestoreStarts(q, backups[i])
        PROVE  SyncInv'
        BY <2>3, RestoreStartsInv
  <2>4. ASSUME NEW i \in DOMAIN backups, RemoveBackup(i)
        PROVE  SyncInv'
        BY <2>4, RemoveBackupInv
  <2> QED
      BY <1>5, <2>1, <2>2, <2>3, <2>4 DEF RemoteProjectsDialog
<1>6. ASSUME NEW q \in Request,
             BackupRead(q) \/ BackupSaved(q) \/ OpenAnswered(q) \/ Load(q) \/ DeleteListed(q)
      PROVE  SyncInv'
      BY <1>6, BackupReadInv, BackupSavedInv, OpenAnsweredInv, LoadInv, DeleteListedInv
<1>7. CASE PushHandled \/ PushAnswered \/ PushFails
      BY <1>7, PushHandledInv, PushAnsweredInv, PushFailsInv
<1>8. ASSUME NEW p \in Project, OtherPushes(p) \/ OtherDeletes(p)
      PROVE  SyncInv'
      BY <1>8, OthersInv
<1> QED
    BY <1>1, <1>2, <1>3, <1>4, <1>5, <1>6, <1>7, <1>8 DEF Next

LEMMA SyncHolds == ASSUME Constants PROVE Spec => []SyncInv
BY SyncInit, SyncStep, PTL DEF Spec
=============================================================================
