------------------------------- MODULE Console -------------------------------
(* The management console of the IO backend, io-backend/web-ui: its pages,   *)
(* the hooks usePolling, useCrudTable and useModalForm they share, and the   *)
(* requests of api/client.ts.  One operator works in one browser tab; the    *)
(* answers to his requests come in any order or not at all, and the pages    *)
(* apply them each in its own way.  The backend is an actor that keeps, for  *)
(* each view of its data, the version of the rows.                           *)
EXTENDS Naturals, FiniteSets

CONSTANTS
    View,           \* what a page is narrowed to: a plugin, or a filter
    None,           \* nothing selected, shown or edited
    Call,           \* bound: requests under way at the same time
    MaxVersion      \* bound: changes of the rows of a view

VARIABLES
    page,           \* the route shown
    selected,       \* pluginId, selected, or the filters of the page
    shown,          \* the rows rendered: of which view, in which version
    loading,        \* useCrudTable.loading: the rows cannot be clicked
    modal,          \* useModalForm or the form of RedundancyConfig: the row in it, ver
                    \* None if none was loaded, and saving; None if there is no form
    calls,          \* requests under way
    server,         \* environment: of each view, the version of its rows
    fresh,          \* history: an answer has come since the selection
    doubt,          \* history: why the rows may be old: requests overlapped, a load
                    \* or a save was reported to fail, or somebody else made a change
    overwritten     \* history: how rows were written that were not shown as they were,
                    \* without such a reason: over a newer version, or never loaded

screen == <<page, selected, shown, loading, modal>>
history == <<fresh, doubt, overwritten>>
vars == <<screen, calls, server, history>>

-----------------------------------------------------------------------------
(* The pages: how each gets its rows, whether it is narrowed to a view, and  *)
(* what the buttons of a row do.                                             *)

Page(load, narrowed, ops) == [load |-> load, narrowed |-> narrowed, ops |-> ops]

Dashboard         == Page("poll", FALSE, {})
RedundancyMonitor == Page("poll", FALSE, {})
Monitor           == Page("poll", TRUE, {})
AlarmMonitor      == Page("interval", TRUE, {"ack"})
Plugins           == Page("table", FALSE, {"edit", "toggle", "remove"})
AlarmRules        == Page("table", FALSE, {"edit", "toggle", "remove"})
Points            == Page("table", TRUE, {"edit", "remove"})
RedundancyConfig  == Page("form", FALSE, {"edit"})

Routes == {Dashboard, RedundancyMonitor, Monitor, AlarmMonitor, Plugins, AlarmRules, Points,
           RedundancyConfig}

\* A page that is not narrowed has one view.
Whole == CHOOSE v \in View : TRUE
First(p) == IF p.narrowed /\ p.load # "interval" THEN None ELSE Whole

Idle == [kind |-> "idle", reply |-> "none"]
Sent(kind, v) == [kind |-> kind, reply |-> "none", view |-> v, ver |-> 0]

\* A write: ver is the version of the row that was in the form or in the table.
Write(kind, v, ver) == [Sent(kind, v) EXCEPT !.ver = ver]

UnderWay(k) == {c \in Call : k[c] # Idle}
Doubtful(k) == page.ops # {} /\ (doubt \/ UnderWay(k) # {})

\* A request leaves while those in k are under way.
Ask(c, m, k) == k[c] = Idle /\ calls' = [k EXCEPT ![c] = m] /\ doubt' = Doubtful(k)

Init ==
    /\ page = Dashboard /\ selected = Whole
    /\ shown = None /\ loading = TRUE /\ modal = None
    /\ \E c \in Call : calls = [d \in Call |-> IF d = c THEN Sent("load", Whole) ELSE Idle]
    /\ server = [v \in View |-> 0]
    /\ fresh = FALSE /\ doubt = FALSE /\ overwritten = {}

-----------------------------------------------------------------------------
(* Loading.                                                                  *)

\* What is left under way when a page is unmounted: writes no answer is awaited of.
Left == [c \in Call |-> IF /\ calls[c].kind \in {"save", "toggle", "remove", "left"}
                          /\ calls[c].reply = "none"
                       THEN Sent("left", calls[c].view) ELSE Idle]

\* The form of RedundancyConfig is there from the start, with nothing in it.
Blank == [view |-> Whole, ver |-> None, saving |-> FALSE]

\* Another route: the new page asks for its rows unless nothing is selected yet.
\* The dialogs of the tables cover the menu.
Navigate(p, c) ==
    /\ p # page /\ (modal = None \/ page.load = "form")
    /\ page' = p /\ selected' = First(p) /\ shown' = None
    /\ modal' = IF p.load = "form" THEN Blank ELSE None
    /\ loading' = (First(p) # None)
    /\ IF First(p) = None THEN calls' = Left
       ELSE Left[c] = Idle /\ calls' = [Left EXCEPT ![c] = Sent("load", Whole)]
    /\ fresh' = FALSE /\ doubt' = (p.ops # {} /\ UnderWay(Left) # {})
    /\ UNCHANGED <<server, overwritten>>

\* Faulty variant: answers asked for before the selection are taken.
StoppedNever(k) == k

\* The cleanup of usePolling's effect: the answers to all it has asked are dropped.
Stopped(k) == [c \in Call |-> Idle]

\* Another plugin or another filter, and the effect that depends on it.
Select(v, c) ==
    /\ page.narrowed /\ v # selected /\ modal = None
    /\ selected' = v /\ fresh' = FALSE
    /\ loading' = (loading \/ page.load = "table")
    /\ Ask(c, Sent("load", v), IF page.load = "poll" THEN Stopped(calls) ELSE calls)
    /\ UNCHANGED <<page, shown, modal, server, overwritten>>

\* The interval of usePolling or of AlarmMonitor.
Tick(c) ==
    /\ page.load \in {"poll", "interval"} /\ selected # None
    /\ Ask(c, Sent("load", selected), calls)
    /\ UNCHANGED <<screen, server, fresh, overwritten>>

\* The rows of m are rendered.  They are what the backend has if nothing else is
\* under way, no form is open but the one they are put in, and they still are in
\* the version answered.
Rendered(c, m) ==
    /\ shown' = [view |-> m.view, ver |-> m.ver]
    /\ fresh' = (page.load = "poll")
    /\ doubt' = (doubt /\ ~(UnderWay(calls) = {c}
                         /\ (modal = None \/ page.load = "form")
                         /\ m.ver = server[m.view]))

\* The form after a load: closed, or filled with what was loaded.
FormLoaded(m) ==
    IF m.kind = "reload" THEN None
    ELSE IF page.load = "form" /\ m.reply = "ok"
         THEN [view |-> m.view, ver |-> m.ver, saving |-> modal.saving]
    ELSE modal

\* A load that failed is shown, but by RedundancyConfig, which awaits no failure.
Loaded(c) ==
    LET m == calls[c]
    IN  /\ m.kind \in {"load", "reload"} /\ m.reply # "none"
        /\ \/ m.reply = "ok" /\ Rendered(c, m)
           \/ /\ m.reply = "lost"
              /\ shown' = IF page = Points THEN None ELSE shown   \* clearOnError
              /\ doubt' = (doubt \/ (page.ops # {} /\ page.load # "form"))
              /\ UNCHANGED fresh
        /\ loading' = FALSE /\ modal' = FormLoaded(m)
        /\ calls' = [calls EXCEPT ![c] = Idle]
        /\ UNCHANGED <<page, selected, server, overwritten>>

-----------------------------------------------------------------------------
(* Writing.                                                                  *)

Clickable == shown # None /\ ~(loading /\ page.load = "table") /\ modal = None

\* A form that is closed while it is saved leaves the next one saving.
Saving == \E c \in Call : calls[c].kind \in {"save", "reload"}

\* openEdit: the form holds the row as shown.
OpenEdit ==
    /\ "edit" \in page.ops /\ page.load # "form" /\ Clickable
    /\ modal' = [view |-> shown.view, ver |-> shown.ver, saving |-> Saving]
    /\ doubt' = Doubtful(calls)
    /\ UNCHANGED <<page, selected, shown, loading, calls, server, fresh, overwritten>>

\* save, in RedundancyConfig also of a form that was never loaded
Save(c) ==
    /\ modal # None /\ ~modal.saving
    /\ modal' = [modal EXCEPT !.saving = TRUE]
    /\ Ask(c, Write("save", modal.view, modal.ver), calls)
    /\ UNCHANGED <<page, selected, shown, loading, server, fresh, overwritten>>

\* 取消, also while it is saved
Close ==
    /\ modal # None /\ page.load # "form" /\ modal' = None
    /\ UNCHANGED <<page, selected, shown, loading, calls, server, history>>

\* toggleEnabled, handleToggle: the whole row is sent as shown but for the flag;
\* doAck and remove send no more than the id.
Toggle(c) ==
    /\ "toggle" \in page.ops /\ Clickable
    /\ Ask(c, Write("toggle", shown.view, shown.ver), calls)
    /\ UNCHANGED <<screen, server, fresh, overwritten>>

Remove(c) ==
    /\ page.ops \cap {"remove", "ack"} # {} /\ Clickable
    /\ Ask(c, Sent("remove", shown.view), calls)
    /\ UNCHANGED <<screen, server, fresh, overwritten>>

\* Faulty variant: a switch that failed is not followed by a load.
ReloadsWhenDone(m) == m.reply = "ok"

\* After which answers the rows are loaded again: a toggle, also one that failed.
Reloads(m) == m.kind = "toggle" \/ m.reply = "ok"

\* The form after a save that no load follows: it could not be saved and stays
\* open, or it is the one of RedundancyConfig and holds what was saved.
FormSaved(m) ==
    IF modal = None THEN None
    ELSE IF m.reply = "ok" /\ modal.ver # None
         THEN [view |-> m.view, ver |-> m.ver, saving |-> FALSE]
    ELSE [modal EXCEPT !.saving = FALSE]

\* The answer to a write: a dialog that was saved is closed, whichever row it shows
\* by then, after the load that follows.
Written(c) ==
    LET m == calls[c]
    IN  /\ m.kind \in {"save", "toggle", "remove"} /\ m.reply # "none"
        /\ LET loads == Reloads(m) /\ page.load # "form"
               next  == Sent(IF m.kind = "save" THEN "reload" ELSE "load", selected)
           IN  /\ calls' = [calls EXCEPT ![c] = IF loads THEN next ELSE Idle]
               /\ loading' = (loading \/ loads)
               /\ modal' = IF m.kind = "save" /\ ~loads THEN FormSaved(m) ELSE modal
               /\ shown' = IF page.load = "form" /\ m.reply = "ok"
                           THEN [view |-> m.view, ver |-> m.ver] ELSE shown
               /\ doubt' = (doubt \/ (m.kind # "toggle" /\ m.reply = "lost"))
        /\ UNCHANGED <<page, selected, server, fresh, overwritten>>

-----------------------------------------------------------------------------
(* The backend and the network.                                              *)

\* How a write of a whole row is blind: nothing was loaded in the form and what
\* its fields do not give is set to the default, or the row is newer.
Blind(m) == IF m.kind = "remove" \/ doubt THEN {}
            ELSE IF m.ver = None THEN {"blank"}
            ELSE IF m.ver # server[m.view] THEN {"stale"} ELSE {}

\* A load is answered with the rows; a write of a whole row replaces it.
Handle(c) ==
    LET m == calls[c]
    IN  /\ m # Idle /\ m.reply = "none"
        /\ \/ /\ m.kind \in {"load", "reload"}
              /\ calls' = [calls EXCEPT ![c].reply = "ok", ![c].ver = server[m.view]]
              /\ UNCHANGED <<server, overwritten>>
           \/ /\ m.kind = "left" /\ server[m.view] < MaxVersion
              /\ server' = [server EXCEPT ![m.view] = @ + 1]
              /\ calls' = [calls EXCEPT ![c] = Idle]
              /\ UNCHANGED overwritten
           \/ /\ m.kind \in {"save", "toggle", "remove"} /\ server[m.view] < MaxVersion
              /\ server' = [server EXCEPT ![m.view] = @ + 1]
              /\ calls' = [calls EXCEPT ![c].reply = "ok", ![c].ver = server'[m.view]]
              /\ overwritten' = overwritten \cup Blind(m)
        /\ UNCHANGED <<screen, fresh, doubt>>

\* The request or its answer is lost.
Lose(c) ==
    /\ calls[c] # Idle /\ calls[c].reply # "lost"
    /\ calls' = [calls EXCEPT ![c] = IF @.kind = "left" THEN Idle
                                     ELSE [@ EXCEPT !.reply = "lost", !.ver = 0]]
    /\ UNCHANGED <<screen, server, history>>

\* Environment: another operator, or the plant.
Change(v) ==
    /\ server[v] < MaxVersion
    /\ server' = [server EXCEPT ![v] = @ + 1]
    /\ doubt' = (page.ops # {})
    /\ UNCHANGED <<screen, calls, fresh, overwritten>>

Next ==
    \/ \E c \in Call : \/ Tick(c) \/ Handle(c) \/ Lose(c) \/ Loaded(c) \/ Written(c)
                       \/ Save(c) \/ Toggle(c) \/ Remove(c)
                       \/ \E p \in Routes : Navigate(p, c)
                       \/ \E v \in View : Select(v, c)
    \/ OpenEdit \/ Close
    \/ \E v \in View : Change(v)

Spec == Init /\ [][Next]_vars

-----------------------------------------------------------------------------
Versions == 0..MaxVersion

TypeOK ==
    /\ page \in Routes /\ selected \in View \cup {None} /\ loading \in BOOLEAN
    /\ shown \in [view : View, ver : Versions] \cup {None}
    /\ modal \in [view : View, ver : Versions \cup {None}, saving : BOOLEAN] \cup {None}
    /\ server \in [View -> Versions]
    /\ {fresh, doubt} \subseteq BOOLEAN /\ overwritten \subseteq {"blank", "stale"}

\* On a page that polls, the rows are those of the plugin selected as soon as the
\* first answer has come, although requests for another one are still answered.
ShowsSelected == page.load = "poll" /\ fresh => shown.view = selected

\* An operator who waits for every answer and to whom no failure of a load or a
\* save is reported never writes a row he was shown over a newer version of it,
\* although rows carry no version and the answer to a switch may be lost after the
\* row was written.  Overlapping requests and other operators are outside it.
NoBlindWrite == "stale" \notin overwritten

\* Without the exception of rows he was not shown it does not hold: the form of
\* RedundancyConfig is there before its load is answered and stays when that load
\* fails, which nobody is told.
NeverBlind == overwritten = {}
=============================================================================
