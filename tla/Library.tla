------------------------------ MODULE Library ------------------------------
(* The shape library of the editor: LibraryController, the pure functions of *)
(* libraryGroups.ts, the store's mirror, and the panel ShapeLibrary.  The    *)
(* items and their groups belong to the project; which sections are folded   *)
(* is kept in the project and in localStorage.                               *)
EXTENDS Naturals, Sequences, SequencesExt

CONSTANTS
    Item, Group,    \* bounds: the items and groups a library has
    None,           \* no group, no file
    Title,          \* what a group is named, before normalizeGrouping's suffix
    MaxEdits        \* bound: changes of an item's name or shape

VARIABLES
    pm,             \* ProjectManager: library, libraryGroups, libraryUi.collapsed
    storage,        \* localStorage: folded sections
    mirror,         \* the store: library, libraryGroups, libraryCollapsed
    panel,          \* ShapeLibrary: importGroupId and saveGroupId
    reading,        \* importSvgToLibrary: the group for the SVG the FileReader reads
    file,           \* environment: a project file the user may open
    hydrated,       \* history: the library was loaded or changed in this session
    adrift          \* history: items saved to a group that is not there

vars == <<pm, storage, mirror, panel, reading, file, hydrated, adrift>>

Ungrouped == "@ungrouped"       \* UNGROUPED_KEY
Builtin == "builtin:"           \* the categories of built-in shapes, one for all

Absent == [group |-> None, edits |-> -1]
NoFile == [groups |-> <<>>, items |-> [i \in Item |-> Absent], collapsed |-> {}]
NotReading == [to |-> None, on |-> FALSE]
Ids(groups) == {groups[k].id : k \in DOMAIN groups}
Named(groups) == {groups[k].name : k \in DOMAIN groups}

-----------------------------------------------------------------------------
(* What the panel is given of a project.                                     *)

\* mergeCollapsed
MergeCollapsed(collapsed, stored, groups) ==
    collapsed \cup (stored \cap ({Builtin, Ungrouped} \cup Ids(groups)))

\* The suffix normalizeGrouping gives to a name it has seen.
Unused(name, seen) ==
    IF name \notin seen THEN name
    ELSE <<name[1], CHOOSE n \in 2 .. 9 : /\ <<name[1], n>> \notin seen
                                          /\ \A m \in 2 .. n - 1 : <<name[1], m>> \in seen>>

\* normalizeGrouping, on the way through upgradeProjectData into importProject: the
\* groups, no two of one name, and the rest of the library.
Renamed(groups) ==
    FoldLeft(LAMBDA done, g : Append(done, [g EXCEPT !.name = Unused(g.name, Named(done))]),
             <<>>, groups)

Normalized(data) ==
    LET groups == Renamed(data.groups)
    IN  [groups    |-> groups,
         items     |-> [i \in Item |-> IF data.items[i].group \in Ids(groups) THEN data.items[i]
                                       ELSE [data.items[i] EXCEPT !.group = None]],
         collapsed |-> data.collapsed \cap ({Ungrouped} \cup Ids(groups))]

Merged(data) == MergeCollapsed(data.collapsed, storage, data.groups)
Mirrored(data) == [data EXCEPT !.collapsed = Merged(data)]

\* Files hand-edited or written by older versions: a group that is not there, two
\* groups of one name, sections folded that are no longer sections.
Files(g, h) == {NoFile,
    [groups    |-> <<[id |-> g, name |-> <<"valve", 1>>], [id |-> h, name |-> <<"valve", 1>>]>>,
     items     |-> [i \in Item |-> [group |-> g, edits |-> 0]],
     collapsed |-> {Ungrouped, h}],
    [groups    |-> <<[id |-> g, name |-> <<"valve", 1>>]>>,
     items     |-> [i \in Item |-> [group |-> h, edits |-> 0]],
     collapsed |-> {Builtin, h}]}

-----------------------------------------------------------------------------
Init ==
    /\ pm = NoFile /\ mirror = NoFile      \* the slice starts with nothing folded
    /\ storage \in {{}, {Builtin, Ungrouped}} /\ hydrated = FALSE
    /\ panel = [importTo |-> None, saveTo |-> None]
    /\ reading = NotReading
    /\ \E g, h \in Group : g # h /\ file \in Files(g, h)
    /\ adrift = {}

\* commit without collapsed, and with it: what is folded is the project's, except
\* the built-in categories.
Commit(data) ==
    pm' = data /\ mirror' = Mirrored(data) /\ hydrated' = TRUE /\ UNCHANGED storage

CommitFolded(data, keys) ==
    /\ hydrated' = TRUE
    /\ pm' = [data EXCEPT !.collapsed = keys \ {Builtin}]
    /\ storage' = keys
    /\ mirror' = [data EXCEPT !.collapsed = keys]

Items == {i \in Item : pm.items[i] # Absent}

\* A card is in the section of its group, or in the one of the ungrouped.
Card(i) == i \in Items /\ pm.items[i].group \in {None} \cup Ids(pm.groups)

-----------------------------------------------------------------------------
(* Items.                                                                    *)

\* addItem
AddItem(i, g) ==
    /\ i \notin Items
    /\ Commit([pm EXCEPT !.items[i] = [group |-> g, edits |-> 0]])
    /\ adrift' = IF g \in {None} \cup Ids(pm.groups) THEN adrift ELSE adrift \cup {i}

\* saveSelectionToLibrary, from confirmSave
SaveSelectionToLibrary(i) ==
    /\ AddItem(i, panel.saveTo)
    /\ panel' = [panel EXCEPT !.saveTo = None]
    /\ UNCHANGED <<reading, file>>

\* importSvgToLibrary: the file is read while the user goes on.
ImportSvgToLibrary ==
    /\ ~reading.on
    /\ reading' = [to |-> panel.importTo, on |-> TRUE]
    /\ UNCHANGED <<pm, storage, mirror, panel, file, hydrated, adrift>>

SvgRead(i) ==
    /\ reading.on /\ AddItem(i, reading.to)
    /\ reading' = NotReading
    /\ UNCHANGED <<panel, file>>

\* No shape in it, or an error.
SvgRefused ==
    /\ reading.on /\ reading' = NotReading
    /\ UNCHANGED <<pm, storage, mirror, panel, file, hydrated, adrift>>

\* renameItem and overwriteItem: the item stays in its group.
ChangeItem(i) ==
    /\ Card(i) /\ pm.items[i].edits < MaxEdits
    /\ Commit([pm EXCEPT !.items[i].edits = @ + 1])
    /\ UNCHANGED <<panel, reading, file, adrift>>

DeleteItem(i) ==
    /\ Card(i)
    /\ Commit([pm EXCEPT !.items[i] = Absent])
    /\ adrift' = adrift \ {i}
    /\ UNCHANGED <<panel, reading, file>>

\* moveItemToGroup, from the menu of a card or by dragging it to a header
MoveItemToGroup(i, g) ==
    /\ Card(i) /\ g \in {None} \cup Ids(pm.groups) /\ g # pm.items[i].group
    /\ Commit([pm EXCEPT !.items[i].group = g])
    /\ UNCHANGED <<panel, reading, file, adrift>>

-----------------------------------------------------------------------------
(* Groups.                                                                   *)

NameFree(name) == name \notin Named(pm.groups)

\* generateLibraryGroupId: an id nothing knows.
New(g) == /\ g \notin Ids(pm.groups) \cup Ids(file.groups) \cup storage
                      \cup {panel.importTo, panel.saveTo, reading.to}
          /\ \A i \in Item : g \notin {pm.items[i].group, file.items[i].group}

\* addGroup, from confirmCreateGroup
AddGroup(g, title) ==
    /\ New(g) /\ NameFree(<<title, 1>>)
    /\ Commit([pm EXCEPT !.groups = Append(@, [id |-> g, name |-> <<title, 1>>])])
    /\ UNCHANGED <<panel, reading, file, adrift>>

\* renameGroup, from confirmRenameGroup
RenameGroup(k, title) ==
    /\ k \in DOMAIN pm.groups
    /\ NameFree(<<title, 1>>)
    /\ Commit([pm EXCEPT !.groups[k].name = <<title, 1>>])
    /\ UNCHANGED <<panel, reading, file, adrift>>

\* The groups but g.
Others(groups, g) ==
    FoldLeft(LAMBDA rest, x : IF x.id = g THEN rest ELSE Append(rest, x), <<>>, groups)

\* Faulty variant: the items of the group keep its id.
WithoutLeaving(data, g) == [data EXCEPT !.groups = Others(@, g)]

\* deleteGroup of libraryGroups.ts, but for the folded sections
Without(data, g) ==
    [data EXCEPT !.groups = Others(@, g),
                 !.items = [i \in Item |-> IF @[i].group = g THEN [@[i] EXCEPT !.group = None]
                                           ELSE @[i]]]

\* deleteGroup, from confirmDeleteGroup: the panel's two choices stay as they are.
DeleteGroup(g) ==
    /\ g \in Ids(pm.groups)
    /\ CommitFolded(Without(pm, g), Merged(pm) \ {g})
    /\ UNCHANGED <<panel, reading, file, adrift>>

\* moveGroup: the group in place j is dragged to the header of the one in place k.
MoveGroup(j, k) ==
    /\ {j, k} \subseteq DOMAIN pm.groups /\ j # k
    /\ Commit([pm EXCEPT !.groups = InsertAt(RemoveAt(@, j), k, @[j])])
    /\ UNCHANGED <<panel, reading, file, adrift>>

-----------------------------------------------------------------------------
(* Folding, and the panel's own state.                                       *)

\* toggleCollapsed
ToggleCollapsed(key) ==
    LET keys == IF key \in Merged(pm) THEN Merged(pm) \ {key} ELSE Merged(pm) \cup {key}
    IN  /\ key \in {Builtin, Ungrouped} \cup Ids(pm.groups)
        /\ IF key = Builtin
           THEN /\ storage' = keys /\ mirror' = [pm EXCEPT !.collapsed = keys]
                /\ hydrated' = TRUE /\ UNCHANGED pm
           ELSE CommitFolded(pm, keys)
        /\ UNCHANGED <<panel, reading, file, adrift>>

\* setImportGroupId and setSaveGroupId
ChooseGroup(g) ==
    /\ g \in {None} \cup Ids(mirror.groups)
    /\ \/ panel' = [panel EXCEPT !.importTo = g]
       \/ panel' = [panel EXCEPT !.saveTo = g]
    /\ UNCHANGED <<pm, storage, mirror, reading, file, hydrated, adrift>>

-----------------------------------------------------------------------------
(* Projects.                                                                 *)

\* onPageSwapped with fullProject: the panel stays mounted.
FullProject(data) ==
    /\ pm' = data /\ mirror' = Mirrored(data)
    /\ storage' = Merged(data)
    /\ hydrated' = TRUE /\ adrift' = {}

NewProject == FullProject(NoFile) /\ UNCHANGED <<panel, reading, file>>
OpenProject == FullProject(Normalized(file)) /\ UNCHANGED <<panel, reading, file>>

\* The tab is reloaded and restores the session from the autosaved snapshot; opening
\* what was saved of this project does the same.
ReloadTab ==
    /\ FullProject(Normalized(pm))
    /\ panel' = [importTo |-> None, saveTo |-> None]
    /\ reading' = NotReading
    /\ UNCHANGED file

\* What the toolbar and the sections of the panel offer.
Section(g) ==
    \/ \E title \in Title : AddGroup(g, title)
    \/ DeleteGroup(g)
    \/ ToggleCollapsed(g)
    \/ ChooseGroup(g)

ShapeLibrary ==
    \/ \E i \in Item : SaveSelectionToLibrary(i) \/ SvgRead(i)
    \/ ImportSvgToLibrary
    \/ SvgRefused
    \/ \E g \in Group : Section(g)
    \/ \E k \in DOMAIN pm.groups, title \in Title : RenameGroup(k, title)
    \/ \E j, k \in DOMAIN pm.groups : MoveGroup(j, k)
    \/ ToggleCollapsed(Ungrouped) \/ ToggleCollapsed(Builtin)
    \/ ChooseGroup(None)

CustomCard(i) ==
    \/ ChangeItem(i)
    \/ DeleteItem(i)
    \/ \E g \in Group \cup {None} : MoveItemToGroup(i, g)

Next ==
    \/ ShapeLibrary
    \/ \E i \in Item : CustomCard(i)
    \/ NewProject
    \/ OpenProject
    \/ ReloadTab

Spec == Init /\ [][Next]_vars

-----------------------------------------------------------------------------
LibraryType == [groups : Seq([id : Group, name : Title \X (1 .. 9)]),
                items : [Item -> {Absent} \cup [group : Group \cup {None}, edits : 0 .. MaxEdits]],
                collapsed : SUBSET ({Ungrouped, Builtin} \cup Group)]

TypeOK ==
    /\ {pm, mirror, file} \subseteq LibraryType
    /\ storage \subseteq {Ungrouped, Builtin} \cup Group
    /\ panel \in [importTo : Group \cup {None}, saveTo : Group \cup {None}]
    /\ reading \in [to : Group \cup {None}, on : BOOLEAN] /\ hydrated \in BOOLEAN
    /\ adrift \subseteq Item

\* The panel shows what it would show if the project were saved and opened again: the
\* same groups under the same names and in the same order, the same sections folded
\* (once the library was loaded or changed: the store starts with nothing folded),
\* and every item in the same section, except an item that was saved to a group that
\* had been deleted or belongs to another project ("工程文件（PM）与 store 镜像不会再漂移").
ReopensTheSame ==
    LET reopened == Mirrored(Normalized(pm))
    IN  /\ mirror.groups = reopened.groups
        /\ hydrated => mirror.collapsed = reopened.collapsed
        /\ \A i \in Item \ adrift : mirror.items[i] = reopened.items[i]
=============================================================================
