------------------------------ MODULE Document ------------------------------
(* The document in the editor: the pages (ProjectManager.ts,                 *)
(* PageController.ts, pageSlice.ts, PagePanel.tsx), the scene of the active  *)
(* one (SceneGraph.ts) and the transactions on it with their undo histories  *)
(* (SceneEditor.ts, CommandHistory.ts, groupOps.ts, reorder.ts, tree.ts and  *)
(* sceneSlice.ts).  The active page's shapes live twice, in the scene and in *)
(* the page's stored scene, which autosave brings up to date; every page has *)
(* a history of its own that is kept while another page is shown.            *)
(*                                                                           *)
(* A shape is its id, its zIndex, its look (all other properties) and, for a *)
(* group, its children.  Geometry, bindings and rendering are left out, and  *)
(* so are edits inside a group but for the look of a child.                  *)
EXTENDS Naturals, SequencesExt, FiniteSetsExt

CONSTANTS
    Page,           \* ids of pages
    None,
    MaxIds,         \* bound: ids of shapes
    MaxZ,           \* bound: zIndex
    MaxOrder,       \* bound: PageMeta.order
    Opened,         \* how many shapes the project has when it is opened
    MaxEdits        \* bound: commands made

VARIABLES
    order,          \* PageMeta.order of every page, 0 for a page that is not there
    active,         \* activePageId
    stored,         \* pageScenes
    scene,          \* the scene shown: shapes in the order of the Map
    undo, redo,     \* the stacks of every page
    selected,       \* Selection.multiIds, the primary shape first
    drag,           \* pendingEdit
    ids, edits,     \* ids given out, commands made
    lapses          \* history: what has parted the scene from its history

shown == <<scene, selected, drag>>
stacks == <<undo, redo>>
vars == <<order, active, stored, shown, stacks, ids, edits, lapses>>

Pages == {p \in Page : order[p] > 0}
First == CHOOSE p \in Pages : \A q \in Pages : order[p] <= order[q]

-----------------------------------------------------------------------------
(* SceneGraph                                                                *)

\* getAll: by zIndex, shapes of one zIndex in the order of the Map.
GetAll(s) == FlattenSeq([z \in 1..(MaxZ + 1) |-> SelectSeq(s, LAMBDA x : x.z = z - 1)])

Index(s, id) == SelectInSeq(s, LAMBDA x : x.id = id)
Get(s, id)   == s[Index(s, id)]
Without(s, id) == SelectSeq(s, LAMBDA x : x.id # id)
Ids(s) == {s[i].id : i \in DOMAIN s}

\* Faulty variant: the position is not restored.
InsertLast(s, x, i) == Append(GetAll(s), x)

\* insertAt(shape, index), the index counted from 0
InsertShape(s, x, i) ==
    LET all == GetAll(s) IN InsertAt(all, Min({i, Len(all)}) + 1, x)

Plain(id, z) == [id |-> id, z |-> z, look |-> 0, children |-> <<>>]

-----------------------------------------------------------------------------
(* Commands                                                                  *)

\* A command is a batch of items, and the order of a reorder.
Item(id, before, after, i) == [id |-> id, before |-> before, after |-> after, index |-> i]

Replaced(s, x) == [i \in DOMAIN s |-> IF s[i].id = x.id THEN x ELSE s[i]]

\* applySiblingOrder at the top level: every zIndex is the position.
Ordered(s, names) ==
    LET there == SelectSeq(names, LAMBDA id : id \in Ids(s))
    IN  [i \in 1..Len(there) |-> [Get(s, there[i]) EXCEPT !.z = i - 1]]

\* applyUndo and applyRedo of one item: from and to are its snapshots.
Apply(s, item, from, to) ==
    CASE to = None   -> Without(s, item.id)
      [] from = None -> InsertShape(Without(s, item.id), to, item.index)
      [] OTHER       -> Replaced(s, to)

Undone(s, c) ==
    IF c.before # <<>> THEN Ordered(s, c.before)
    ELSE FoldLeft(LAMBDA t, item : Apply(t, item, item.after, item.before), s, c.items)

Redone(s, c) ==
    IF c.after # <<>> THEN Ordered(s, c.after)
    ELSE FoldLeft(LAMBDA t, item : Apply(t, item, item.before, item.after), s, c.items)

\* push, pushBatch
Push(c) ==
    /\ undo' = [undo EXCEPT ![active] = Append(@, c)]
    /\ redo' = [redo EXCEPT ![active] = <<>>]

\* The pointer has moved a shape: no command records it yet, and none will if the
\* drag is given up; what is typed meanwhile is recorded before it.
Moved == drag # None /\ drag.id \in Ids(scene) /\ Get(scene, drag.id) # drag.before
GivenUp == IF Moved THEN {"drag"} ELSE {}

\* A command with what is seen before and after it, for the properties.
Recorded(c, was, is) ==
    [items |-> c.items, before |-> c.before, after |-> c.after, was |-> was, is |-> is]

\* An edit of the scene and its command.
EditThat(s, c, lapse) ==
    /\ edits < MaxEdits /\ edits' = edits + 1
    /\ scene' = s
    /\ Push(Recorded(c, GetAll(scene), GetAll(s)))
    /\ lapses' = lapses \cup lapse \cup GivenUp
    /\ UNCHANGED <<order, active, stored>>

Edit(s, c) == EditThat(s, c, {})

Batch(items)    == [items |-> items, before |-> <<>>, after |-> <<>>]
Reordering(b, a) == [items |-> <<>>, before |-> b, after |-> a]

-----------------------------------------------------------------------------
(* Edits                                                                     *)

\* addShape, pasteClipboard, addShapes with one shape: the zIndex is 0, or that
\* of the shape copied.
AddShape(z) ==
    /\ ids < MaxIds /\ ids' = ids + 1
    /\ z \in {0} \cup {scene[i].z : i \in DOMAIN scene}
    /\ LET x == Plain(ids', z)
           s == Append(scene, x)
       IN  Edit(s, Batch(<<Item(ids', None, x, Index(GetAll(s), ids') - 1)>>))
    /\ UNCHANGED <<selected, drag>>

\* deleteSelected
DeleteShape(id) ==
    /\ selected # <<>> /\ Head(selected) = id /\ selected' = <<>>
    /\ Edit(Without(scene, id),
            Batch(<<Item(id, Get(scene, id), None, Index(GetAll(scene), id) - 1)>>))
    /\ drag' = IF drag # None /\ drag.id = id THEN None ELSE drag
    /\ UNCHANGED ids

\* updateShapeAt: of a shape, or of a child of a group.
Looks(x) ==
    {[x EXCEPT !.look = 1 - @]} \cup {[x EXCEPT !.children[k] = 1 - @] : k \in DOMAIN x.children}

UpdateShape(id) ==
    /\ drag = None /\ id \in Ids(scene)
    /\ \E x \in Looks(Get(scene, id)) :
         Edit(Replaced(scene, x), Batch(<<Item(id, Get(scene, id), x, 0)>>))
    /\ UNCHANGED <<selected, drag, ids>>

\* group: the children are in the order of the selection.  Undo puts them back one
\* by one, at the positions they had together: that is right for two shapes, the
\* upper one first.
PutBack(at) == Len(at) = 2 /\ at[1] > at[2]

Group ==
    /\ Len(selected) >= 2 /\ ids < MaxIds /\ ids' = ids + 1
    /\ LET all  == GetAll(scene)
           kids == [k \in 1..Len(selected) |-> Get(scene, selected[k])]
           at   == [k \in 1..Len(selected) |-> Index(all, selected[k]) - 1]
           low  == Min({at[k] : k \in DOMAIN at})
           g    == [id |-> ids', z |-> Max({kids[k].z : k \in DOMAIN kids}), look |-> 0,
                    children |-> [k \in DOMAIN kids |-> kids[k].look]]
           rest == SelectSeq(scene, LAMBDA x : x.id \notin Range(selected))
           gone == [k \in 1..Len(selected) |-> Item(selected[k], kids[k], None, at[k])]
       IN  /\ \A k \in DOMAIN kids : kids[k].children = <<>>       \* bound: one level
           /\ EditThat(InsertShape(rest, g, low), Batch(Append(gone, Item(ids', None, g, low))),
                       IF PutBack(at) THEN {} ELSE {"group"})
    /\ selected' = <<ids'>> /\ UNCHANGED drag

\* ungroup: the children come last in the Map, above the group's zIndex.
Ungroup(id) ==
    /\ selected # <<>> /\ Head(selected) = id
    /\ LET all == GetAll(scene)
           g   == Get(scene, id)
           n   == Len(g.children)
           new == [k \in 1..n |-> [Plain(ids + k, g.z + k - 1) EXCEPT !.look = g.children[k]]]
           at  == Len(all) - 1
       IN  /\ n \in 1..(MaxIds - ids) /\ ids' = ids + n /\ g.z + n <= MaxZ
           /\ Edit(Without(scene, id) \o new,
                   Batch(<<Item(id, g, None, Index(all, id) - 1)>>
                         \o [k \in 1..n |-> Item(ids + k, None, new[k], at + k - 1)]))
           /\ selected' = <<ids + 1>>
    /\ UNCHANGED drag

\* reorder, by dragging in the ShapeTree: to a position of the order shown.
Reorder(id, to) ==
    /\ drag = None /\ selected = <<id>> /\ to \in 1..Len(scene)
    /\ LET names == [i \in DOMAIN scene |-> GetAll(scene)[i].id]
           moved == InsertAt(SelectSeq(names, LAMBDA n : n # id), to, id)
       IN  moved # names /\ Edit(Ordered(scene, moved), Reordering(names, moved))
    /\ UNCHANGED <<selected, drag, ids>>

\* beginShapeEdit, the moves of the pointer, endShapeEdit: the shape hit is selected,
\* a handle is hit of a shape that is.
BeginDrag(id) ==
    /\ id \in Ids(scene) /\ drag = None
    /\ \/ selected' = <<id>>
       \/ id \in Range(selected) /\ UNCHANGED selected
    /\ drag' = [id |-> id, before |-> Get(scene, id), index |-> Index(GetAll(scene), id) - 1]
    /\ UNCHANGED <<order, active, stored, scene, stacks, ids, edits, lapses>>

DragMoves ==
    /\ drag # None /\ drag.id \in Ids(scene)
    /\ Get(scene, drag.id) = drag.before
    /\ scene' = Replaced(scene, [drag.before EXCEPT !.look = 1 - @])
    /\ UNCHANGED <<order, active, stored, selected, drag, stacks, ids, edits, lapses>>

EndDrag ==
    /\ drag # None /\ drag' = None
    /\ IF drag.id \notin Ids(scene) \/ Get(scene, drag.id) = drag.before
       THEN UNCHANGED <<order, active, stored, scene, stacks, edits>>
       ELSE /\ edits < MaxEdits /\ edits' = edits + 1
            /\ Push(Recorded(Batch(<<Item(drag.id, drag.before, Get(scene, drag.id), drag.index)>>),
                             GetAll(Replaced(scene, drag.before)), GetAll(scene)))
            /\ UNCHANGED <<order, active, stored, scene>>
    /\ UNCHANGED <<selected, ids, lapses>>

\* undo, redo: applyEffects selects what a command of one shape was about, keeps
\* the selection for a reorder and clears it for a batch.
\* Faulty variant: whether the shape is there is not asked.
SelectedAnyway(c, s) ==
    IF c.items = <<>> THEN selected
    ELSE IF Len(c.items) = 1 THEN <<c.items[1].id>> ELSE <<>>

Selected(c, s) ==
    IF c.items = <<>> THEN selected
    ELSE IF Len(c.items) = 1 /\ c.items[1].id \in Ids(s) THEN <<c.items[1].id>> ELSE <<>>

Inexact(s, was) == IF GetAll(s) = was THEN {} ELSE {"zIndex"}

Undo ==
    /\ undo[active] # <<>> /\ drag' = None
    /\ LET c == Last(undo[active]) IN
       /\ scene' = Undone(scene, c)
       /\ undo' = [undo EXCEPT ![active] = Front(@)]
       /\ redo' = [redo EXCEPT ![active] = Append(@, c)]
       /\ selected' = Selected(c, scene')
       /\ lapses' = lapses \cup GivenUp \cup (IF c.items = <<>> THEN Inexact(scene', c.was) ELSE {})
    /\ UNCHANGED <<order, active, stored, ids, edits>>

Redo ==
    /\ redo[active] # <<>> /\ drag' = None
    /\ LET c == Last(redo[active]) IN
       /\ scene' = Redone(scene, c)
       /\ redo' = [redo EXCEPT ![active] = Front(@)]
       /\ undo' = [undo EXCEPT ![active] = Append(@, c)]
       /\ selected' = Selected(c, scene')
       /\ lapses' = lapses \cup GivenUp
    /\ UNCHANGED <<order, active, stored, ids, edits>>

\* The marquee selects from the top.
TopFirst(want) ==
    {names \in [1..Cardinality(want) -> want] :
        \A i, j \in DOMAIN names :
            i < j => Index(GetAll(scene), names[i]) > Index(GetAll(scene), names[j])}

\* selectShape, selectShapes; nothing selected cancels the drag.
Select(want) ==
    /\ drag # None => want = {}               \* the pointer is busy, Escape is not
    /\ want \subseteq Ids(scene)
    /\ \E names \in TopFirst(want) : names # selected /\ selected' = names
    /\ drag' = IF want = {} THEN None ELSE drag
    /\ lapses' = IF want = {} THEN lapses \cup GivenUp ELSE lapses
    /\ UNCHANGED <<order, active, stored, scene, stacks, ids, edits>>

-----------------------------------------------------------------------------
(* Pages                                                                     *)

\* syncScene
Synced(st) == [st EXCEPT ![active] = GetAll(scene)]

\* Autosave, saveProject and exportScene bring the stored scene up to date.
Sync ==
    /\ stored[active] # GetAll(scene) /\ stored' = Synced(stored)
    /\ UNCHANGED <<order, active, shown, stacks, ids, edits, lapses>>

\* swapToActive with the histories preserved, and the autosave at its end.
SwapTo(p, st) ==
    /\ active' = p /\ scene' = st[p] /\ stored' = st
    /\ selected' = <<>> /\ drag' = None

Reloads(p) == p = active /\ stored[p] # GetAll(scene)

Left(p) == IF p = active THEN stored ELSE Synced(stored)

\* switchPage: the page shown is synchronised unless it is the one asked for.
SwitchPage(p) ==
    /\ p \in Pages /\ drag = None
    /\ SwapTo(p, Left(p))
    /\ lapses' = lapses \cup (IF Reloads(p) THEN {"reload"} ELSE {})
    /\ UNCHANGED <<order, stacks, ids, edits>>

\* addPage, createPage
AddPage(p) ==
    /\ p \notin Pages /\ drag = None /\ \A q \in Page : order[q] < MaxOrder
    /\ order' = [order EXCEPT ![p] = 1 + Max({order[q] : q \in Page})]
    /\ SwapTo(p, [Synced(stored) EXCEPT ![p] = <<>>])
    /\ undo' = [undo EXCEPT ![p] = <<>>] /\ redo' = [redo EXCEPT ![p] = <<>>]
    /\ UNCHANGED <<ids, edits, lapses>>

\* deletePage, then switchPage to the first page left.
DeletePage(p) ==
    /\ p \in Pages /\ Cardinality(Pages) > 1 /\ drag = None
    /\ order' = [order EXCEPT ![p] = 0]
    /\ LET left == Pages \ {p}
           to   == CHOOSE q \in left : \A r \in left : order[q] <= order[r]
       IN  /\ SwapTo(to, IF p = active THEN stored ELSE Left(to))
           /\ lapses' = lapses \cup (IF Reloads(to) THEN {"reload"} ELSE {})
    /\ undo' = [undo EXCEPT ![p] = <<>>] /\ redo' = [redo EXCEPT ![p] = <<>>]
    /\ UNCHANGED <<ids, edits>>

Shifted(r, old, new) ==
    IF old < order[r] /\ order[r] <= new THEN order[r] - 1
    ELSE IF new <= order[r] /\ order[r] < old THEN order[r] + 1
    ELSE order[r]

\* movePage as handleMove calls it, to the order of the neighbour q.
MovePage(p, q) ==
    /\ p \in Pages /\ q \in Pages /\ p # q
    /\ ~ \E r \in Pages : Min({order[p], order[q]}) < order[r] /\ order[r] < Max({order[p], order[q]})
    /\ order' = [r \in Page |-> IF r = p THEN order[q] ELSE Shifted(r, order[p], order[q])]
    /\ UNCHANGED <<active, stored, shown, stacks, ids, edits, lapses>>

Init ==
    /\ active \in Page /\ order = [p \in Page |-> IF p = active THEN 1 ELSE 0]
    /\ \E n \in Opened : scene = [i \in 1..n |-> Plain(i, 0)] /\ ids = n
    /\ stored = [p \in Page |-> IF p = active THEN scene ELSE <<>>]
    /\ undo = [p \in Page |-> <<>>] /\ redo = [p \in Page |-> <<>>]
    /\ selected = <<>> /\ drag = None /\ edits = 0 /\ lapses = {}

(* What the parts of the editor offer.                                       *)

\* EditorCanvas: a press hits a shape or its handle, or a tool makes a shape; the
\* release ends the drag or selects what the marquee holds.
Press   == \E id \in 1..MaxIds : BeginDrag(id)
Release == EndDrag \/ \E want \in SUBSET (1..MaxIds) \ {{}} : Select(want)
KeyDown == Undo \/ Redo \/ Select({})

\* The buttons of the Toolbar, its keys and those of the canvas for the same.
Toolbar ==
    \/ Group
    \/ \E id \in 1..MaxIds : Ungroup(id) \/ DeleteShape(id)
    \/ \E z \in 0..MaxZ : AddShape(z)

ShapeTree == \E id \in 1..MaxIds : UpdateShape(id) \/ \E to \in 1..MaxIds : Reorder(id, to)

PagePanel ==
    \E p \in Page : SwitchPage(p) \/ AddPage(p) \/ DeletePage(p) \/ \E q \in Page : MovePage(p, q)

Next == Press \/ DragMoves \/ Release \/ KeyDown \/ Toolbar \/ ShapeTree \/ PagePanel \/ Sync

Spec == Init /\ [][Next]_vars

\* Bound: how far behaviours are followed; what the history is for is gone then.
Followed == lapses = {}

-----------------------------------------------------------------------------
TypeOK ==
    /\ active \in Pages /\ order \in [Page -> Nat]
    /\ selected \in Seq(1..MaxIds)
    /\ ids \in 0..MaxIds /\ edits \in 0..MaxEdits
    /\ lapses \subseteq {"group", "drag", "zIndex", "reload"}

\* What is seen of a scene: all but the zIndex itself.
Look(s) == [i \in DOMAIN s |-> [id |-> s[i].id, look |-> s[i].look, children |-> s[i].children]]
Content(p) == IF p = active THEN GetAll(scene) ELSE stored[p]

\* 撤销 and 重做 (CommandHistory.ts, PageController.ts): on every page, however
\* pages were switched, added, deleted and saved in between, undoing the last
\* command gives what was seen before it and redoing the next one what was seen
\* after it; as long as two shapes were grouped at a time, the upper one selected first,
\* no drag was given up, no reordering undone and the page shown not loaded again
\* before autosave.
Fits(p) ==
    LET s == Content(p) IN
    /\ undo[p] # <<>> =>
         LET c == Last(undo[p]) IN
         Look(s) = Look(c.is) /\ Look(GetAll(Undone(s, c))) = Look(c.was)
    /\ redo[p] # <<>> =>
         LET c == Last(redo[p]) IN
         Look(s) = Look(c.was) /\ Look(GetAll(Redone(s, c))) = Look(c.is)

HistoryFits == lapses = {} /\ ~Moved => \A p \in Pages : Fits(p)

\* What is selected is in the scene, whatever undo, redo, grouping and pages do.
SelectionThere == Range(selected) \subseteq Ids(scene)
=============================================================================
