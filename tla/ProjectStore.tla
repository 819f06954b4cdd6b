---------------------------- MODULE ProjectStore ----------------------------
(* The project store of the IO backend: crates/project/src/store.rs on the   *)
(* repository crates/db/src/repo/projects.rs.  A project is a row of the     *)
(* database (its version and what the package's manifest says) and a package *)
(* on disk.  No lock covers both: put moves the new package into place,      *)
(* commits the row and moves the old package back if the commit failed;      *)
(* delete moves the package aside, deletes the row and moves it back.  Each  *)
(* file operation and each transaction is awaited, so requests on the same   *)
(* project interleave at every step.  One project is modelled; requests that *)
(* fail validation, and list and get, change nothing.                        *)
EXTENDS Naturals

CONSTANTS
    Request,        \* requests that may be served at the same time
    Package,        \* packages an editor may push
    NoPackage,      \* no file
    MaxVersion,     \* bound: version of the project
    Failures,       \* what may fail: "db", "rename", "request"
    MaxFailures     \* bound: failures

ASSUME Files == NoPackage \notin Package
ASSUME Bounds == MaxVersion \in Nat \ {0} /\ MaxFailures \in Nat
ASSUME FailureKinds == Failures \subseteq {"db", "rename", "request"}

File == Package \cup {NoPackage}

\* The row of the project; version 0 stands for no row.
Row   == [version : 0..MaxVersion, package : File]
NoRow == [version |-> 0, package |-> NoPackage]

VARIABLES
    row,        \* the row of table projects
    disk,       \* <id>.hmi.zip
    tmp,        \* of each request: the temporary file it has written
    backup,     \* of each request: the file it has moved the old package to
    frame,      \* of each request: where it is, with its local variables
    failures,   \* failures so far
    alone,      \* history: no other request was in progress meanwhile
    before      \* history: row and disk when the request began

files   == <<disk, tmp, backup>>
history == <<alone, before>>
vars == <<row, files, frame, failures, history>>

Idle == [at      |-> "idle",        \* the operation that comes next
         package |-> NoPackage,     \* the pushed package
         version |-> 0,             \* expected_version; 0 stands for None
         old     |-> FALSE,         \* had_old
         ok      |-> FALSE]         \* the outcome

At(t, l) == frame[t].at = l
Go(t, l) == frame' = [frame EXCEPT ![t].at = l]

\* The request is answered with this outcome.
Answer(t, ok) == frame' = [frame EXCEPT ![t].at = "done", ![t].ok = ok]

\* Environment: a failure of kind k happens, or not.
Fails(k)  == k \in Failures /\ failures < MaxFailures /\ failures' = failures + 1
Works     == UNCHANGED failures

Init == /\ row = NoRow /\ disk = NoPackage
        /\ tmp = [t \in Request |-> NoPackage]
        /\ backup = [t \in Request |-> NoPackage]
        /\ frame = [t \in Request |-> Idle]
        /\ failures = 0
        /\ alone = [t \in Request |-> FALSE]
        /\ before = [t \in Request |-> [row |-> NoRow, disk |-> NoPackage]]

-----------------------------------------------------------------------------
\* A request comes in: it is alone as long as no other is in progress.
Begins(t) ==
    LET Others == {u \in Request \ {t} : ~At(u, "idle")} IN
    /\ At(t, "idle")
    /\ alone' = [u \in Request |-> IF u = t THEN Others = {} ELSE FALSE]
    /\ before' = [before EXCEPT ![t] = [row |-> row, disk |-> disk]]

\* put: the package is valid and is written to a temporary file.
Put(t, p, v) ==
    /\ Begins(t)
    /\ tmp' = [tmp EXCEPT ![t] = p]
    /\ frame' = [frame EXCEPT ![t] = [Idle EXCEPT !.at = "probe", !.package = p,
                                                  !.version = v]]
    /\ UNCHANGED <<row, disk, backup, failures>>

\* swap_in: is there an old package to move aside?
Probe(t) ==
    /\ At(t, "probe")
    /\ frame' = [frame EXCEPT ![t].old = (disk # NoPackage),
                              ![t].at = IF disk # NoPackage THEN "park" ELSE "place"]
    /\ UNCHANGED <<row, files, failures, history>>

\* swap_in: the old package becomes the backup.
Park(t) ==
    /\ At(t, "park") /\ disk # NoPackage /\ Works
    /\ backup' = [backup EXCEPT ![t] = disk]
    /\ disk' = NoPackage
    /\ Go(t, "place")
    /\ UNCHANGED <<row, tmp, history>>

\* swap_in and delete: the old package is gone by now, or cannot be moved.
MoveFails(t) ==
    /\ At(t, "park") \/ At(t, "bury")
    /\ (disk = NoPackage /\ Works) \/ Fails("rename")
    /\ tmp' = [tmp EXCEPT ![t] = NoPackage]
    /\ Answer(t, FALSE)
    /\ UNCHANGED <<row, disk, backup, history>>

\* swap_in: the new package takes its place, whatever lies there.
Place(t) ==
    /\ At(t, "place") /\ Works
    /\ disk' = frame[t].package
    /\ tmp' = [tmp EXCEPT ![t] = NoPackage]
    /\ Go(t, "commit")
    /\ UNCHANGED <<row, backup, history>>

\* swap_in: the last rename fails; the old package is to be moved back, and the
\* temporary file, which no other request knows, is removed.
PlaceFails(t) ==
    /\ At(t, "place") /\ Fails("rename")
    /\ tmp' = [tmp EXCEPT ![t] = NoPackage]
    /\ IF frame[t].old THEN Go(t, "restore") ELSE Answer(t, FALSE)
    /\ UNCHANGED <<row, disk, backup, history>>

\* The optimistic lock of push_project: only None or 0 creates, and an existing
\* project requires its version.
Accepts(v) == v = row.version

\* push_project, one transaction
Commit(t) ==
    /\ At(t, "commit")
    /\ \/ /\ Accepts(frame[t].version) /\ Works
          /\ row' = [version |-> row.version + 1, package |-> frame[t].package]
          /\ Go(t, "drop")
       \/ /\ ~Accepts(frame[t].version) /\ Works
          /\ Go(t, "undo") /\ UNCHANGED row
       \/ /\ Fails("db")
          /\ Go(t, "undo") /\ UNCHANGED row
    /\ UNCHANGED <<files, history>>

\* rollback_swap: the package in place is removed.
Undo(t) ==
    /\ At(t, "undo")
    /\ disk' = NoPackage
    /\ IF frame[t].old THEN Go(t, "restore") ELSE Answer(t, FALSE)
    /\ UNCHANGED <<row, tmp, backup, failures, history>>

\* Faulty variant: the rollback only removes the new package.
RestoreNothing(t) ==
    /\ At(t, "restore")
    /\ backup' = [backup EXCEPT ![t] = NoPackage]
    /\ Answer(t, FALSE)
    /\ UNCHANGED <<row, disk, tmp, failures, history>>

\* swap_in, rollback_swap and delete: the file moved aside is moved back.
Restore(t) ==
    /\ At(t, "restore")
    /\ disk' = backup[t]
    /\ backup' = [backup EXCEPT ![t] = NoPackage]
    /\ Answer(t, FALSE)
    /\ UNCHANGED <<row, tmp, failures, history>>

\* This rename fails as well, which is logged and no more.
RestoreFails(t) ==
    /\ At(t, "restore") /\ Fails("rename")
    /\ Go(t, "stuck")
    /\ UNCHANGED <<row, files, history>>

\* Faulty variant: the backup is only looked for after a delete.
DropTombstone(t) ==
    /\ At(t, "drop")
    /\ backup' = [backup EXCEPT ![t] = IF frame[t].package = NoPackage
                                       THEN NoPackage ELSE @]
    /\ Answer(t, TRUE)
    /\ UNCHANGED <<row, disk, tmp, failures, history>>

\* commit_swap and the end of delete: the file moved aside is removed.
Drop(t) ==
    /\ At(t, "drop")
    /\ backup' = [backup EXCEPT ![t] = NoPackage]
    /\ Answer(t, TRUE)
    /\ UNCHANGED <<row, disk, tmp, failures, history>>

-----------------------------------------------------------------------------
\* delete
Delete(t) ==
    /\ Begins(t)
    /\ frame' = [frame EXCEPT ![t] = [Idle EXCEPT !.at = "look"]]
    /\ UNCHANGED <<row, files, failures>>

Look(t) ==
    /\ At(t, "look")
    /\ Go(t, IF disk # NoPackage THEN "bury" ELSE "unlist")
    /\ UNCHANGED <<row, files, failures, history>>

\* The package is moved aside.
Bury(t) ==
    /\ At(t, "bury") /\ disk # NoPackage
    /\ backup' = [backup EXCEPT ![t] = disk]
    /\ disk' = NoPackage
    /\ frame' = [frame EXCEPT ![t].at = "unlist", ![t].old = TRUE]
    /\ UNCHANGED <<row, tmp, failures, history>>

\* delete_project, one transaction
Unlist(t) ==
    /\ At(t, "unlist")
    /\ \/ /\ row # NoRow /\ Works
          /\ row' = NoRow
          /\ Go(t, "drop")
       \/ /\ (row = NoRow /\ Works) \/ Fails("db")
          /\ IF frame[t].old THEN Go(t, "restore") ELSE Answer(t, FALSE)
          /\ UNCHANGED row
    /\ UNCHANGED <<files, history>>

-----------------------------------------------------------------------------
\* The answer goes out; a package that could not be moved back is never looked at
\* again.
Reply(t) ==
    /\ At(t, "done") \/ At(t, "stuck")
    /\ frame' = [frame EXCEPT ![t] = Idle]
    /\ backup' = [backup EXCEPT ![t] = NoPackage]
    /\ UNCHANGED <<row, disk, tmp, failures, history>>

\* The client hangs up and its handler is dropped where it waits, or the process
\* ends; temporary files stay on disk and are never looked at again.
Abandon(t) ==
    /\ ~At(t, "idle") /\ Fails("request")
    /\ frame' = [frame EXCEPT ![t] = Idle]
    /\ tmp' = [tmp EXCEPT ![t] = NoPackage]
    /\ backup' = [backup EXCEPT ![t] = NoPackage]
    /\ UNCHANGED <<row, disk, history>>

Serve(t) == \/ Probe(t) \/ Park(t) \/ MoveFails(t) \/ Place(t) \/ PlaceFails(t)
            \/ Commit(t) \/ Undo(t) \/ Restore(t) \/ RestoreFails(t) \/ Drop(t)
            \/ Look(t) \/ Bury(t) \/ Unlist(t) \/ Reply(t)

Next == \/ \E t \in Request : Serve(t) \/ Delete(t) \/ Abandon(t)
        \/ \E t \in Request, p \in Package, v \in 0..(MaxVersion - 1) : Put(t, p, v)

Spec == Init /\ [][Next]_vars
-----------------------------------------------------------------------------
(* Properties.                                                               *)

Step == {"idle", "probe", "park", "place", "commit", "undo", "restore", "drop",
         "look", "bury", "unlist", "done", "stuck"}

\* Types and ranges of the variables.
TypeOK ==
    /\ row \in Row /\ disk \in File
    /\ tmp \in [Request -> File] /\ backup \in [Request -> File]
    /\ frame \in [Request -> [at : Step, package : File, version : 0..(MaxVersion - 1),
                              old : BOOLEAN, ok : BOOLEAN]]
    /\ failures \in 0..MaxFailures
    /\ alone \in [Request -> BOOLEAN]
    /\ before \in [Request -> [row : Row, disk : File]]

\* A request that no other overlapped has taken effect in the database and on
\* disk, or in neither, when it is answered; whatever failed meanwhile, and
\* whatever an earlier race or an abandoned request has left behind.  Only when
\* moving the old package back fails too it is not in its place, but it is kept
\* under the name it was moved to.
AloneIsAtomic ==
    \A t \in Request : alone[t] =>
        /\ At(t, "done") =>
            LET f == frame[t] IN
            IF f.ok
            THEN /\ disk = f.package /\ row.package = f.package
                 /\ row.version = IF f.package = NoPackage THEN 0 ELSE f.version + 1
            ELSE row = before[t].row /\ disk = before[t].disk
        /\ At(t, "stuck") => row = before[t].row /\ backup[t] = before[t].disk

\* A request that has been answered leaves no temporary file behind, however
\* requests interleave: the packages it has moved aside are moved back or
\* removed.  (Only an abandoned one, and one that cannot move them back, leave
\* some.)
NoLeftovers ==
    \A t \in Request : /\ At(t, "idle") \/ At(t, "done") => backup[t] = NoPackage
                       /\ tmp[t] # NoPackage => At(t, "probe") \/ At(t, "park")
                                                \/ At(t, "place")

\* "a failed push never leaves the disk package out of sync with the recorded
\* version": when a push fails and nothing else is in progress, the package on
\* disk is the one the row describes.
FailedPushInSync ==
    \A t \in Request :
        /\ At(t, "done") /\ frame[t].package # NoPackage /\ ~frame[t].ok
        /\ \A u \in Request \ {t} : At(u, "idle")
        => disk = row.package
=============================================================================
