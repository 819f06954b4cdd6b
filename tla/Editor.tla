------------------------------- MODULE Editor -------------------------------
(* What the editor keeps beside its connections: the point table, the        *)
(* session, the synchronised project, the document, the alarms of the        *)
(* backend and its own, the library and the bindings, and the management     *)
(* console.  They do not interact in this model: a behaviour is one of one   *)
(* part.  The variables stand for those of the part that runs, in the order  *)
(* it declares them, and are None where it has fewer.                        *)
EXTENDS Naturals, FiniteSets

CONSTANTS
    None, Rule, NoRule,
    User, Call, MaxTokenVersion, MaxEpoch,                      \* AuthSession
    Project, MaxBackups, MaxProjectVersion, MaxProjectEdits,    \* ProjectSync
    View, MaxRowVersion,                                        \* Console, with Call
    Variable, Digital, PointValue, MaxQueue,                    \* PointTable
    MaxValue, MaxBindingEdits,                                  \* Bindings
    AskedKind, ThresholdAlarm, ChangeAlarm,                     \* RemoteAlarms
    MaxRules, MaxStream, MaxAsked,
    Condition, MaxOccurrences,                                  \* LocalAlarms, with Rule
    Pair    \* two requests, pages, groups or shapes, alike but for their names

VARIABLES part, v1, v2, v3, v4, v5, v6, v7, v8, v9, v10, v11, v12, v13, v14, v15, v16

PT == INSTANCE PointTable WITH
    server <- v1, stream <- v2, connected <- v3, defs <- v4, mapping <- v5,
    values <- v6, lastValues <- v7, refreshTimer <- v8, hasFetched <- v9,
    requests <- v10, control <- v11, excused <- v12, Request <- Pair,
    Value <- PointValue

AU == INSTANCE AuthSession WITH
    session <- v1, stored <- v2, timer <- v3, calls <- v4, account <- v5,
    epoch <- v6, loggedIn <- v7, stale <- v8, unheard <- v9,
    MaxVersion <- MaxTokenVersion

PS == INSTANCE ProjectSync WITH
    doc <- v1, edits <- v2, link <- v3, saved <- v4, autosave <- v5,
    backups <- v6, list <- v7, conflict <- v8, tasks <- v9, pushing <- v10,
    rows <- v11, deleted <- v12, reborn <- v13, lost <- v14, blind <- v15, mixed <- v16,
    Request <- Pair,
    MaxVersion <- MaxProjectVersion, MaxEdits <- MaxProjectEdits

DO == INSTANCE Document WITH
    order <- v1, active <- v2, stored <- v3, scene <- v4, undo <- v5, redo <- v6,
    selected <- v7, drag <- v8, ids <- v9, edits <- v10, lapses <- v11,
    Page <- Pair, MaxIds <- 5, MaxZ <- 4, MaxOrder <- 3, Opened <- {2},
    MaxEdits <- 2

RA == INSTANCE RemoteAlarms WITH
    active <- v1, history <- v2, rules <- v3, subscribed <- v4, asked <- v5,
    answers <- v6, up <- v7, stream <- v8, backend <- v9, backendRules <- v10,
    stale <- v11, Kind <- AskedKind, Alarm <- ThresholdAlarm, Change <- ChangeAlarm

CO == INSTANCE Console WITH
    page <- v1, selected <- v2, shown <- v3, loading <- v4, modal <- v5,
    calls <- v6, server <- v7, fresh <- v8, doubt <- v9, overwritten <- v10,
    MaxVersion <- MaxRowVersion

LI == INSTANCE Library WITH
    pm <- v1, storage <- v2, mirror <- v3, panel <- v4, reading <- v5, file <- v6,
    hydrated <- v7, adrift <- v8, Group <- Pair, Item <- {"i1"},
    Title <- {"valve", "pump"}, MaxEdits <- 1

BI == INSTANCE Bindings WITH
    value <- v1, shapes <- v2, index <- v3, moving <- v4, open <- v5, last <- v6,
    clip <- v7, edits <- v8, excused <- v9, Shape <- Pair,
    MaxEdits <- MaxBindingEdits

LA == INSTANCE LocalAlarms WITH
    rules <- v1, engine <- v2, running <- v3, edited <- v4, narrowed <- v5

\* None is no session, project, document, link, view, form or value, NoValue no
\* point's value and NoRule no rule; there is a view, and a backup is kept; rules and alarms are finite in
\* number, and an alarm is of one sort; the id of a group is not the key of a
\* category; the bounds are numbers.
ASSUME EditorAssumption ==
    /\ None \notin AU!Session \cup Project \cup View \cup BI!Value
    /\ None \notin PS!Document \cup [id : Project, ver : 0..MaxProjectVersion]
    /\ None \notin [view : View, ver : (0..MaxRowVersion) \cup {None}, saving : BOOLEAN]
    /\ PT!NoValue \notin PointValue /\ View # {}
    /\ MaxRowVersion \in Nat
    /\ MaxTokenVersion \in Nat /\ MaxEpoch \in Nat
    /\ MaxBackups \in Nat \ {0}
    /\ MaxProjectVersion \in Nat \ {0} /\ MaxProjectEdits \in Nat
    /\ MaxValue \in Nat /\ MaxBindingEdits \in Nat
    /\ NoRule \notin LA!Setting /\ IsFiniteSet(Rule) /\ MaxOccurrences \in Nat
    /\ AskedKind \subseteq {"active", "history", "rules"}
    /\ IsFiniteSet(ThresholdAlarm \cup ChangeAlarm) /\ ThresholdAlarm \cap ChangeAlarm = {}
    /\ MaxRules \in Nat /\ MaxAsked \in Nat
    /\ LI!Builtin \notin Pair

-----------------------------------------------------------------------------
Unused9 == <<v9, v10, v11, v12, v13, v14, v15, v16>>
Unused6 == <<v6, v7, v8, Unused9>>
Unused10 == <<v10, v11, v12, v13, v14, v15, v16>>
Unused11 == <<v11, v12, v13, v14, v15, v16>>
Unused12 == <<v12, v13, v14, v15, v16>>
Unused13 == <<v13, v14, v15, v16>>

Init ==
    \/ /\ part = "points" /\ PT!Init
       /\ v13 = None /\ v14 = None /\ v15 = None /\ v16 = None
    \/ /\ part = "session" /\ AU!Init
       /\ v10 = None /\ v11 = None /\ v12 = None /\ v13 = None
       /\ v14 = None /\ v15 = None /\ v16 = None
    \/ /\ part = "sync" /\ PS!Init
    \/ /\ part = "document" /\ DO!Init
       /\ v12 = None /\ v13 = None /\ v14 = None /\ v15 = None /\ v16 = None
    \/ /\ part = "alarms" /\ RA!Init
       /\ v12 = None /\ v13 = None /\ v14 = None /\ v15 = None /\ v16 = None
    \/ /\ part = "console" /\ CO!Init
       /\ v11 = None /\ v12 = None /\ v13 = None /\ v14 = None /\ v15 = None /\ v16 = None
    \/ /\ part = "library" /\ LI!Init
       /\ v9 = None /\ v10 = None /\ v11 = None /\ v12 = None /\ v13 = None
       /\ v14 = None /\ v15 = None /\ v16 = None
    \/ /\ part = "bindings" /\ BI!Init
       /\ v10 = None /\ v11 = None /\ v12 = None /\ v13 = None
       /\ v14 = None /\ v15 = None /\ v16 = None
    \/ /\ part = "localAlarms" /\ LA!Init
       /\ v6 = None /\ v7 = None /\ v8 = None /\ v9 = None /\ v10 = None
       /\ v11 = None /\ v12 = None /\ v13 = None /\ v14 = None /\ v15 = None /\ v16 = None

Next ==
    \/ part = "points" /\ PT!Next /\ UNCHANGED <<part, Unused13>>
    \/ part = "session" /\ AU!Next /\ UNCHANGED <<part, Unused10>>
    \/ part = "sync" /\ PS!Followed /\ PS!Next /\ UNCHANGED part
    \/ part = "document" /\ DO!Followed /\ DO!Next /\ UNCHANGED <<part, Unused12>>
    \/ part = "alarms" /\ RA!Next /\ UNCHANGED <<part, Unused12>>
    \/ part = "console" /\ CO!Next /\ UNCHANGED <<part, Unused11>>
    \/ part = "library" /\ LI!Next /\ UNCHANGED <<part, Unused9>>
    \/ part = "bindings" /\ BI!Next /\ UNCHANGED <<part, Unused10>>
    \/ part = "localAlarms" /\ LA!Next /\ UNCHANGED <<part, Unused6>>

vars == <<part, v1, v2, v3, v4, v5, v6, v7, v8, v9, v10, v11, v12, v13, v14, v15, v16>>

Spec == Init /\ [][Next]_vars

-----------------------------------------------------------------------------
\* The type invariant of the part that runs.
TypeOK ==
    /\ part = "points" => PT!TypeOK
    /\ part = "session" => AU!TypeOK
    /\ part = "sync" => PS!TypeOK
    /\ part = "document" => DO!TypeOK
    /\ part = "alarms" => RA!TypeOK
    /\ part = "console" => CO!TypeOK
    /\ part = "library" => LI!TypeOK
    /\ part = "bindings" => BI!TypeOK
    /\ part = "localAlarms" => LA!TypeOK

\* A point of the table shows the last value received for it, or the operator's (PointTable).
ShowsReceived == part = "points" => PT!ShowsReceived

\* The table is the backend's unless something is on its way or went wrong (PointTable).
OldForAReason == part = "points" => PT!OldForAReason

\* The session is of the user who logged in last (AuthSession).
WhoLoggedIn == part = "session" => AU!WhoLoggedIn

\* A session that will expire has a timer or a refresh under way (AuthSession).
KeptAlive == part = "session" => AU!KeptAlive

\* The tokens kept are of the user's present password (AuthSession).
TokensValid == part = "session" => AU!TokensValid

\* Every edit is in the editor, a draft backup or the backend, unless it was made
\* after that backup was taken (ProjectSync).
NothingLost == part = "sync" => PS!NothingLost

\* A push replaces no version the user has not seen, but of a project pushed again
\* after it was deleted, or by an editor whose link is not its document's
\* (ProjectSync).
SyncSafe == part = "sync" => PS!SyncSafe

\* Undo and redo lead to the scenes the commands were made in, and what is
\* selected is in the scene shown (Document).
HistoryFits == part = "document" => DO!HistoryFits /\ DO!SelectionThere

\* The alarms shown are the backend's once all is delivered (RemoteAlarms).
Mirrors == part = "alarms" => RA!Mirrors

\* The rows shown are those of what is selected (Console).
ShowsSelected == part = "console" => CO!ShowsSelected

\* No row that was shown is written over a newer version, but for a reason (Console).
NoBlindWrite == part = "console" => CO!NoBlindWrite

\* The library shown is the one the project reopens with (Library).
ReopensTheSame == part = "library" => LI!ReopensTheSame

\* A bound shape shows the value of its variable (Bindings).
ShowsVariable == part = "bindings" => BI!ShowsVariable

\* An active alarm has an enabled rule and is the only one of it (LocalAlarms).
AlarmStands == part = "localAlarms" => LA!AlarmStands

\* The events of an alarm tell what happened to it, and none is lost (LocalAlarms).
EventsTell == part = "localAlarms" => LA!EventsTell
=============================================================================
