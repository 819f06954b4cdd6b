------------------------------ MODULE Bindings ------------------------------
(* Bindings of shapes to a variable: BindingEngine, and what SceneEditor,    *)
(* PageController and the panels do to its index.  A bound shape follows its *)
(* variable at once or by a smooth transition; the shapes it is bound in are *)
(* edited, grouped, copied and undone meanwhile, and their page is left and  *)
(* entered again.  One variable, one bound property, one page with shapes.   *)
EXTENDS Naturals, FiniteSets

CONSTANTS
    Shape,      \* bound: the shapes the page has, or gets by pasting
    None,       \* no value, binding, transition, command or clipboard
    MaxValue,   \* bound: values of the variable
    MaxEdits    \* bound: commands pushed

VARIABLES
    value,      \* VariableManager: the variable's value
    shapes,     \* of each shape: whether it is in the page, in a group, what its
                \* property shows, and its binding
    index,      \* BindingEngine.index: the paths it finds bound shapes at
    moving,     \* BindingEngine.transitions: where each smooth transition ends
    open,       \* the page is the active one
    last,       \* CommandHistory: the last command of the page, and whether undone
    clip,       \* the clipboard
    edits,      \* commands pushed
    excused     \* history: shapes that need not show the variable's value

vars == <<value, shapes, index, moving, open, last, clip, edits, excused>>

Value == 0 .. MaxValue
Binding == {"smooth", "direct"}

\* A range mapping that turns the variable's scale around (applyValueMapping).
Mapped(v) == MaxValue - v

\* What a transition shows before it ends: a number that is no value's.
Between == MaxValue + 1

Absent == [there |-> FALSE, grouped |-> FALSE, shown |-> 0, binding |-> None]

Bound(s) == shapes[s].there /\ shapes[s].binding # None

Init ==
    /\ value = None
    /\ \E s \in Shape : shapes = [t \in Shape |-> IF t = s THEN [Absent EXCEPT !.there = TRUE]
                                                  ELSE Absent]
    /\ index = {} /\ moving = [s \in Shape |-> None]
    /\ open = TRUE /\ last = None /\ clip = None /\ edits = 0 /\ excused = {}

-----------------------------------------------------------------------------
(* BindingEngine.                                                            *)

Record(s, sh) == [shape |-> s, grouped |-> sh.grouped]

\* The records of s and of a group it is in are made anew (indexSubtree).
Indexed(s, sh) ==
    {r \in index : r.shape # s} \cup (IF sh.there /\ sh.binding # None THEN {Record(s, sh)} ELSE {})

\* Faulty variant: a transition under way goes on when a value is set at once.
ApplyOverTransition(sh, m, v) ==
    IF v = None \/ sh.binding = None \/ ~sh.there THEN [shape |-> sh, moving |-> m]
    ELSE IF sh.binding = "smooth"
         THEN [shape |-> sh, moving |-> IF sh.shown = Mapped(v) THEN None ELSE Mapped(v)]
         ELSE [shape |-> [sh EXCEPT !.shown = Mapped(v)], moving |-> m]

\* applyBinding: of a shape and its transition m, what becomes of them.
Apply(sh, m, v) ==
    IF v = None \/ sh.binding = None \/ ~sh.there THEN [shape |-> sh, moving |-> m]
    ELSE IF sh.binding = "smooth"
         THEN [shape |-> sh, moving |-> IF sh.shown = Mapped(v) THEN None ELSE Mapped(v)]
         ELSE [shape |-> [sh EXCEPT !.shown = Mapped(v)], moving |-> None]

\* reindexPath: s, which has become sh, is found at its path and shows the value.
Reindex(s, sh) ==
    LET a == Apply(sh, moving[s], value)
    IN  /\ index' = Indexed(s, sh)
        /\ shapes' = [shapes EXCEPT ![s] = a.shape]
        /\ moving' = [moving EXCEPT ![s] = a.moving]
        /\ excused' = excused \ {s}

\* The callback of subscribeAll: a record whose path leads nowhere is passed over.
SetVariable(v) ==
    LET found == {s \in Shape : Record(s, shapes[s]) \in index}
        a(s) == IF s \in found THEN Apply(shapes[s], moving[s], v)
                ELSE [shape |-> shapes[s], moving |-> moving[s]]
    IN  /\ v # value /\ value' = v
        /\ shapes' = [s \in Shape |-> a(s).shape]
        /\ moving' = [s \in Shape |-> a(s).moving]
        /\ excused' = excused \ found
        /\ UNCHANGED <<index, open, last, clip, edits>>

\* tick: only shapes at the top of the active page are found by their id.
Tick(s, ended) ==
    /\ moving[s] # None
    /\ shapes' = IF open /\ shapes[s].there /\ ~shapes[s].grouped
                 THEN [shapes EXCEPT ![s].shown = IF ended THEN moving[s] ELSE Between]
                 ELSE shapes
    /\ moving' = IF ended THEN [moving EXCEPT ![s] = None] ELSE moving
    /\ UNCHANGED <<value, index, open, last, clip, excused, edits>>

-----------------------------------------------------------------------------
(* SceneEditor.                                                              *)

Editable(s) == open /\ shapes[s].there
Push(s, sh) ==
    /\ edits < MaxEdits /\ edits' = edits + 1
    /\ last' = [shape |-> s, before |-> shapes[s], after |-> sh, undone |-> FALSE]

\* updateShapeAt with bindings, from BindingPanel
SetBinding(s, b) ==
    LET sh == [shapes[s] EXCEPT !.binding = b]
    IN  /\ Editable(s) /\ b # shapes[s].binding
        /\ Reindex(s, sh) /\ Push(s, sh)
        /\ UNCHANGED <<value, open, clip>>

\* updateShapeAt without bindings, from PropertyPanel: the index is not concerned.
SetProperty(s, x) ==
    LET sh == [shapes[s] EXCEPT !.shown = x]
    IN  /\ Editable(s) /\ x # shapes[s].shown
        /\ shapes' = [shapes EXCEPT ![s] = sh] /\ Push(s, sh)
        /\ excused' = excused \cup {s}
        /\ UNCHANGED <<value, index, moving, open, clip>>

\* deleteShape
DeleteShape(s) ==
    /\ Editable(s) /\ ~shapes[s].grouped
    /\ Reindex(s, Absent) /\ Push(s, Absent)
    /\ UNCHANGED <<value, open, clip>>

\* group and ungroup: s and a shape without bindings are put into a group, or out of
\* it.  The shape keeps its id at another path.
Group(s, grouped) ==
    LET sh == [shapes[s] EXCEPT !.grouped = grouped]
    IN  /\ Editable(s) /\ grouped # shapes[s].grouped
        /\ Reindex(s, sh) /\ Push(s, sh)
        /\ UNCHANGED <<value, open, clip>>

\* undo and redo: the snapshot of the command is put back, then applyEffects.
UndoRedo ==
    /\ open /\ last # None
    /\ Reindex(last.shape, IF last.undone THEN last.after ELSE last.before)
    /\ last' = [last EXCEPT !.undone = ~@]
    /\ UNCHANGED <<value, open, clip, edits>>

\* copySelected: shapes in groups cannot be copied.
CopySelected(s) ==
    /\ Editable(s) /\ ~shapes[s].grouped
    /\ clip' = shapes[s]
    /\ UNCHANGED <<value, shapes, index, moving, open, last, excused, edits>>

\* pasteClipboard: addShape under a new id, and the copy is not indexed.
PasteClipboard(s) ==
    /\ open /\ clip # None
    /\ ~shapes[s].there /\ moving[s] = None /\ (last # None => last.shape # s)
    /\ shapes' = [shapes EXCEPT ![s] = clip] /\ Push(s, clip)
    /\ excused' = excused \cup {s}
    /\ UNCHANGED <<value, index, moving, open, clip>>

-----------------------------------------------------------------------------
(* PageController.                                                           *)

\* switchPage to a page without bound shapes; the shapes keep what they show.
LeavePage ==
    /\ open /\ open' = FALSE /\ index' = {}
    /\ UNCHANGED <<value, shapes, moving, last, clip, excused, edits>>

\* swapToActive: rebuildIndex, which does not apply what the variable has become.
EnterPage ==
    /\ ~open /\ open' = TRUE
    /\ index' = {Record(s, shapes[s]) : s \in {t \in Shape : Bound(t)}}
    /\ excused' = {s \in Shape : /\ value # None
                                 /\ shapes[s].shown # Mapped(value) \/ moving[s] # None}
    /\ UNCHANGED <<value, shapes, moving, last, clip, edits>>

-----------------------------------------------------------------------------
BindingPanel(s) ==
    \/ \E b \in Binding \cup {None} : SetBinding(s, b)
    \/ \E v \in Value : Bound(s) /\ SetVariable(v)      \* 手动测试

Canvas(s) ==
    \/ DeleteShape(s)
    \/ \E grouped \in BOOLEAN : Group(s, grouped)
    \/ CopySelected(s)
    \/ PasteClipboard(s)

PropertyPanel(s) == \E x \in Value : SetProperty(s, x)

Next ==
    \/ \E v \in Value : SetVariable(v)
    \/ \E s \in Shape, ended \in BOOLEAN : Tick(s, ended)
    \/ \E s \in Shape : BindingPanel(s) \/ PropertyPanel(s) \/ Canvas(s)
    \/ UndoRedo
    \/ LeavePage
    \/ EnterPage

Spec == Init /\ [][Next]_vars

-----------------------------------------------------------------------------
ShapeType == [there : BOOLEAN, grouped : BOOLEAN, shown : Value \cup {Between},
              binding : Binding \cup {None}]

TypeOK ==
    /\ value \in Value \cup {None}
    /\ shapes \in [Shape -> ShapeType]
    /\ index \subseteq [shape : Shape, grouped : BOOLEAN]
    /\ moving \in [Shape -> Value \cup {None}]
    /\ open \in BOOLEAN /\ edits \in 0 .. MaxEdits
    /\ last = None \/ last \in [shape : Shape, before : ShapeType, after : ShapeType,
                                undone : BOOLEAN]
    /\ clip = None \/ clip \in ShapeType
    /\ excused \subseteq Shape

\* A bound shape on the active page shows the value of its variable whenever no
\* transition is under way, except a shape whose property was set by hand, that was
\* pasted, or whose page was entered, since the variable or its binding last changed,
\* and a shape in a group with a smooth binding, which the transitions do not find.
ShowsVariable ==
    \A s \in Shape \ excused :
        (open /\ Bound(s) /\ value # None /\ moving[s] = None)
        => \/ shapes[s].shown = Mapped(value)
           \/ shapes[s].grouped /\ shapes[s].binding = "smooth"
=============================================================================
