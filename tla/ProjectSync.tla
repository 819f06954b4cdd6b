---------------------------- MODULE ProjectSync -----------------------------
(* The project in the editor and its three other homes: the backend          *)
(* (remoteSlice.ts, project/remote.ts, RemoteProjectsDialog.tsx and          *)
(* PushDialog.tsx), the autosaved snapshot (AutosaveController.ts,           *)
(* AutosaveStore.ts and restoreSession of editorStore.ts) and the draft      *)
(* backups (backup.ts).  The link to the backend's project lives in          *)
(* localStorage, the snapshot in IndexedDB: the page may be closed between   *)
(* the two.  Opening, restoring, deleting and pushing wait for the backend or *)
(* for IndexedDB while the user goes on: the dialog's busyId is lost when it  *)
(* is closed, so that its handlers overlap.                                   *)
(*                                                                           *)
(* A document is known by the row of the backend it was opened from or       *)
(* pushed as, and by a number for its edits.  The backend's rows take and    *)
(* refuse pushes as ProjectStore's module has it.                            *)
EXTENDS Naturals, SequencesExt, FiniteSetsExt

CONSTANTS
    Project,        \* ids of projects in the backend
    None,
    Request,        \* bound: handlers of the dialog under way at once
    MaxBackups,     \* MAX_BACKUPS
    MaxVersion,     \* bound: pushes of one project
    MaxEdits        \* bound: edits

VARIABLES
    doc,            \* the project in the editor
    edits,          \* edits made so far; their numbers tell contents apart
    link,           \* ProjectManager.remoteLink, and its copy in localStorage
    saved,          \* the snapshot in IndexedDB
    autosave,       \* AutosaveController.timer
    backups,        \* the draft backups, the newest first
    list,           \* remoteList and the rows of the dialogs
    conflict,       \* pendingConflict
    tasks,          \* the dialog's handlers under way: what each waits for
    pushing,        \* pushProject: what it waits for
    rows,           \* environment: the version of every project, 0 for none
    deleted,        \* environment: the projects deleted once
    reborn,         \* environment: those created again since, from version 1
    lost,           \* history: a document was replaced whose backup should stand
    blind,          \* history: the projects a sync overwrote, nobody having seen it
    mixed           \* history: the link and the document were parted

local == <<doc, link>>
disk  == <<saved, autosave, backups>>
server == <<rows, deleted, reborn>>
history == <<lost, blind, mixed>>
vars == <<local, edits, disk, list, conflict, tasks, pushing, server, history>>

Fresh       == [from |-> None, ver |-> 0, edit |-> 0]
Based(p, v) == [from |-> p, ver |-> v, edit |-> 0]

Init ==
    /\ doc = Fresh /\ edits = 0 /\ link = None
    /\ saved = None /\ autosave = FALSE /\ backups = <<>>
    /\ list = None /\ conflict = None /\ tasks = [r \in Request |-> None]
    /\ pushing = None
    /\ rows \in [Project -> 0..1] /\ deleted = {} /\ reborn = {}
    /\ lost = FALSE /\ blind = {} /\ mixed = FALSE

-----------------------------------------------------------------------------
(* Autosave                                                                  *)

\* flush: the debounce is cancelled and the snapshot of d is on its way; IndexedDB
\* refuses it or the page is closed before, and nothing tries again.
Flush(d) == saved' \in {d, saved} /\ autosave' = FALSE

Edit ==
    /\ edits < MaxEdits /\ edits' = edits + 1
    /\ doc' = [doc EXCEPT !.edit = edits']
    /\ autosave' = TRUE
    /\ UNCHANGED <<link, saved, backups, list, conflict, tasks, pushing, server, history>>

AutosaveTimer ==
    /\ autosave /\ Flush(doc)
    /\ UNCHANGED <<local, edits, backups, list, conflict, tasks, pushing, server, history>>

\* The document and the link agree on whose the content is.
Agree(d, l) == l = None \/ (d.from = l.id /\ l.ver <= d.ver)

\* The page is closed at any moment and loaded anew: restoreSession.
Reload ==
    /\ doc' = IF saved = None THEN Fresh ELSE saved
    /\ autosave' = FALSE /\ list' = None /\ conflict' = None
    /\ tasks' = [r \in Request |-> None] /\ pushing' = None
    /\ mixed' = (mixed \/ ~Agree(doc', link))
    /\ UNCHANGED <<edits, link, saved, backups, server, lost, blind>>

-----------------------------------------------------------------------------
(* Loading another document.                                                 *)

SetLink(l) == link' = l

\* newProject, openProject: the link is cleared, the document replaced.
NewProject ==
    /\ doc' = Fresh /\ SetLink(None) /\ Flush(Fresh)
    /\ UNCHANGED <<edits, backups, list, conflict, tasks, pushing, server, history>>

\* Faulty variant: the backups are sorted the other way, and the newest falls out.
BackupOldest(d) == LET all == backups \o <<d>> IN SubSeq(all, 1, Min({MaxBackups, Len(all)}))

\* Faulty variant: none falls out.
BackupKeepsAll(d) == <<d>> \o backups

Backup(d) == LET all == <<d>> \o backups IN SubSeq(all, 1, Min({MaxBackups, Len(all)}))

\* A handler of the dialog is under way: link is the project it is about, None for
\* a backup that is restored; kept the document it backs up, None again once that
\* backup is removed; got the document it will load.
Start(r, l, at, d, b) ==
    tasks[r] = None /\ tasks' = [tasks EXCEPT ![r] =
                                    [link |-> l, at |-> at, kept |-> d, got |-> b]]

At(r, place) == tasks[r] # None /\ tasks[r].at = place

Ends(r) == tasks' = [tasks EXCEPT ![r] = None]

\* No task counts on backup b any more, having saved it.
Forget(b) ==
    [r \in Request |->
        IF (At(r, "get") \/ At(r, "ready")) /\ tasks[r].kept = b
        THEN [tasks[r] EXCEPT !.kept = None] ELSE tasks[r]]

\* openRemoteProject(id, row): the document is to be backed up, then asked for.
OpenStarts(r, p) ==
    /\ pushing = None                           \* not while remoteBusy
    /\ list # None /\ list[p] # 0
    /\ Start(r, [id |-> p, ver |-> list[p]], "save", doc, None)
    /\ Flush(doc)
    /\ UNCHANGED <<local, edits, backups, list, conflict, pushing, server, history>>

\* restoreDraftBackup(id): its backup is read first; then the document is to be
\* backed up as it is by now.
RestoreStarts(r, b) ==
    /\ Start(r, None, "load", None, b)
    /\ UNCHANGED <<local, edits, disk, list, conflict, pushing, server, history>>

BackupRead(r) ==
    /\ At(r, "load")
    /\ IF tasks[r].got \in Range(backups)
       THEN tasks' = [tasks EXCEPT ![r].at = "save", ![r].kept = doc] \/ Ends(r)
       ELSE Ends(r)
    /\ UNCHANGED <<local, edits, disk, list, conflict, pushing, server, history>>

\* The document is backed up, and the oldest backup falls out; or it is not, and
\* the handler ends.
BackupSaved(r) ==
    /\ At(r, "save")
    /\ \/ /\ backups' = Backup(tasks[r].kept)
          /\ tasks' = [IF Len(backups) = MaxBackups THEN Forget(Last(backups)) ELSE tasks
                       EXCEPT ![r].at = IF tasks[r].link = None THEN "ready" ELSE "get"]
       \/ Ends(r) /\ UNCHANGED backups
    /\ UNCHANGED <<local, edits, saved, autosave, list, conflict, pushing, server, history>>

\* The backend answers with the package it has by now, or not at all.
OpenAnswered(r) ==
    /\ At(r, "get")
    /\ LET p == tasks[r].link.id
       IN  \/ rows[p] # 0 /\ tasks' = [tasks EXCEPT ![r].at = "ready",
                                                    ![r].got = Based(p, rows[p])]
          \/ Ends(r)
    /\ UNCHANGED <<local, edits, disk, list, conflict, pushing, server, history>>

\* The document is the one that was backed up, and is not among the backups.
Unkept(r) == doc = tasks[r].kept /\ doc \notin Range(backups)

\* The package or the backup is loaded whatever is in the editor by now, and linked
\* with the version of the list, or with nothing.
Load(r) ==
    /\ At(r, "ready")
    /\ doc' = tasks[r].got /\ SetLink(tasks[r].link) /\ Flush(doc')
    /\ lost' = (lost \/ Unkept(r))
    /\ Ends(r)
    /\ UNCHANGED <<edits, backups, list, conflict, pushing, server, blind, mixed>>

\* removeDraftBackup: by its id
RemoveBackup(i) ==
    /\ backups' = RemoveAt(backups, i) /\ tasks' = Forget(backups[i])
    /\ UNCHANGED <<local, edits, saved, autosave, list, conflict, pushing, server, history>>

-----------------------------------------------------------------------------
(* The backend's projects.                                                   *)

\* refreshRemoteList
RefreshList ==
    /\ list' = rows
    /\ UNCHANGED <<local, edits, disk, conflict, tasks, pushing, server, history>>

\* deleteRemoteProject: the list is asked for next.
DeleteRemote(r, p) ==
    /\ pushing = None /\ list # None /\ list[p] # 0 /\ rows[p] # 0
    /\ rows' = [rows EXCEPT ![p] = 0] /\ deleted' = deleted \cup {p}
    /\ Start(r, [id |-> p, ver |-> list[p]], "list", None, None)
    /\ UNCHANGED <<local, edits, disk, list, conflict, pushing, reborn, history>>

\* The link to what was deleted is cleared, but not when the list does not come.
DeleteListed(r) ==
    /\ At(r, "list") /\ Ends(r)
    /\ \/ /\ list' = rows
          /\ IF link # None /\ link.id = tasks[r].link.id THEN SetLink(None)
             ELSE UNCHANGED link
       \/ UNCHANGED <<list, link>>
    /\ UNCHANGED <<doc, edits, disk, conflict, pushing, server, history>>

\* pushProject with a version, or with none: the package is made of the document
\* as it is now.
Push(sync, p, v) ==
    /\ pushing = None
    /\ pushing' = [sync |-> sync, id |-> p, ver |-> v, from |-> doc.from,
                   base |-> doc.ver, reply |-> None]
    /\ Flush(doc)
    /\ UNCHANGED <<local, edits, backups, list, conflict, tasks, server, history>>

\* syncToBackend with a link; PushDialog for a new or an existing project, and
\* its button to overwrite after a conflict.
Sync == link # None /\ Push(TRUE, link.id, link.ver)

PushNew(p) == Push(FALSE, p, 0)

PushExisting(p) == list # None /\ list[p] # 0 /\ Push(FALSE, p, list[p])

Overwrite ==
    /\ conflict # None
    /\ Push(FALSE, conflict, IF list = None THEN rows[conflict] ELSE list[conflict])

\* Faulty variant of the client: the version is not sent.
AcceptsAll(m) == TRUE

\* The backend takes a push of the version it has, or of a project it has not.
Accepts(m) == rows[m.id] = m.ver

\* What was pushed is based on what it replaces, if it replaces anything.
Seen(m) == rows[m.id] = 0 \/ (m.from = m.id /\ m.base = rows[m.id])

\* Pushed p is one version further; a project that is created begins at 1, anew
\* when it was deleted before.
Pushed(p) ==
    /\ rows[p] < MaxVersion /\ rows' = [rows EXCEPT ![p] = @ + 1]
    /\ reborn' = reborn \cup IF rows[p] = 0 THEN deleted \cap {p} ELSE {}

PushHandled ==
    /\ pushing # None /\ pushing.reply = None
    /\ LET m == pushing
       IN  IF Accepts(m)
           THEN /\ Pushed(m.id)
                /\ pushing' = [m EXCEPT !.reply = rows'[m.id]]
                /\ blind' = blind \cup IF m.sync /\ ~Seen(m) THEN {m.id} ELSE {}
           ELSE /\ pushing' = [m EXCEPT !.reply = 0]
                /\ UNCHANGED <<rows, reborn, blind>>
    /\ UNCHANGED <<local, edits, disk, list, conflict, tasks, deleted, lost, mixed>>

\* The document as what it was pushed as, if it still is that document.
Rebased(m) ==
    IF doc.from = m.from /\ doc.ver = m.base
    THEN [doc EXCEPT !.from = m.id, !.ver = m.reply] ELSE doc

\* The answer, the new version or 0 for a conflict, links whatever is in the editor
\* by now with the project pushed.
PushAnswered ==
    /\ pushing # None /\ pushing.reply # None
    /\ pushing' = None
    /\ IF pushing.reply = 0
       THEN conflict' = pushing.id /\ UNCHANGED <<local, mixed>>
       ELSE /\ conflict' = None
            /\ doc' = Rebased(pushing)
            /\ SetLink([id |-> pushing.id, ver |-> pushing.reply])
            /\ mixed' = (mixed \/ ~Agree(doc', link'))
    /\ UNCHANGED <<edits, disk, list, tasks, server, lost, blind>>

\* The network fails before or after the backend has handled the push.
PushFails ==
    /\ pushing # None /\ pushing' = None
    /\ UNCHANGED <<local, edits, disk, list, conflict, tasks, server, history>>

\* Environment: another engineer pushes or deletes.
OtherPushes(p) ==
    /\ Pushed(p)
    /\ UNCHANGED <<local, edits, disk, list, conflict, tasks, pushing, deleted, history>>

OtherDeletes(p) ==
    /\ rows[p] # 0 /\ rows' = [rows EXCEPT ![p] = 0] /\ deleted' = deleted \cup {p}
    /\ UNCHANGED <<local, edits, disk, list, conflict, tasks, pushing, reborn, history>>

\* PushDialog's 取消
CancelConflict ==
    /\ conflict # None /\ conflict' = None
    /\ UNCHANGED <<local, edits, disk, list, tasks, pushing, server, history>>

ProjectToolbar == NewProject \/ Sync

PushDialog ==
    \/ Overwrite \/ CancelConflict
    \/ \E p \in Project : PushNew(p) \/ PushExisting(p)

RemoteProjectsDialog ==
    \/ RefreshList
    \/ \E r \in Request, p \in Project : OpenStarts(r, p) \/ DeleteRemote(r, p)
    \/ \E r \in Request, i \in DOMAIN backups : RestoreStarts(r, backups[i])
    \/ \E i \in DOMAIN backups : RemoveBackup(i)

Next ==
    \/ Edit \/ AutosaveTimer \/ Reload
    \/ ProjectToolbar \/ PushDialog \/ RemoteProjectsDialog
    \/ \E r \in Request : \/ BackupRead(r) \/ BackupSaved(r) \/ OpenAnswered(r)
                          \/ Load(r) \/ DeleteListed(r)
    \/ PushHandled \/ PushAnswered \/ PushFails
    \/ \E p \in Project : OtherPushes(p) \/ OtherDeletes(p)

Spec == Init /\ [][Next]_vars

Busy == {r \in Request : tasks[r] # None}

\* Bounds: how far behaviours are followed, where all of them are too many.  Pushes,
\* conflicts and deletions are followed where no snapshot and no backup is kept;
\* what comes after a deletion, without edits and one call at a time; and handlers
\* that overlap, while nobody pushes.
Followed ==
    /\ ~mixed /\ blind = {}
    /\ pushing # None \/ conflict # None \/ deleted # {} => saved = None /\ backups = <<>>
    /\ deleted # {} => edits = 0 /\ (pushing # None => Busy = {})
    /\ Cardinality(Busy) > 1 =>
           /\ pushing = None /\ conflict = None /\ saved = None /\ deleted = {}
           /\ \A p \in Project : rows[p] <= 1

-----------------------------------------------------------------------------
Document == [from : Project \cup {None}, ver : 0..MaxVersion, edit : 0..MaxEdits]
Link     == [id : Project, ver : 0..MaxVersion] \cup {None}

TypeOK ==
    /\ doc \in Document /\ edits \in 0..MaxEdits
    /\ link \in Link
    /\ saved \in Document \cup {None}
    /\ backups \in Seq(Document) /\ Len(backups) <= MaxBackups
    /\ list \in [Project -> 0..MaxVersion] \cup {None} /\ rows \in [Project -> 0..MaxVersion]
    /\ conflict \in Project \cup {None}
    /\ reborn \subseteq deleted

\* Opening a project of the backend or restoring a backup, however many of them are
\* under way, never loses the document each of them has backed up (remoteSlice.ts):
\* when it is replaced it is among the backups, unless the user removed it from
\* them or it was the oldest of too many.  What is edited while they wait is not
\* backed up.
NothingLost == ~lost

\* As the comment 避免恢复操作造成新的丢失 of restoreDraftBackup has it: whatever was
\* edited is among the backups when it is replaced.
EditsNeverLost ==
    [][\A r \in Request : Load(r) => \/ doc.edit = 0 \/ doc \in Range(backups)
                                    \/ tasks[r].kept = None]_vars

\* The optimistic lock of remote.ts: the sync button never replaces, unseen, what
\* another engineer has pushed, in whatever order pushes, openings and answers
\* come; except a project that was deleted and created again, whose versions
\* begin anew (projects.rs), and once the link and the document are about
\* different projects, which a page closed before its snapshot is written and an
\* answer to a push that meets another document bring about.
SyncSafe == mixed \/ blind \subseteq reborn

\* As pushed: 推送使用 ?version= 乐观锁 (remote.ts), without the exceptions.
SyncAlwaysSafe == blind = {}
=============================================================================
