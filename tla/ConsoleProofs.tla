---------------------------- MODULE ConsoleProofs ----------------------------
(* What Console promises for every number of views, rows and requests under  *)
(* way: the rows of a page that polls are those selected, and no row that    *)
(* was shown is written over a newer version of it.                          *)
EXTENDS Console, TLAPS

\* What the constants have to be: a page has a view, None is none and no form.
Constants ==
    /\ View # {} /\ None \notin View /\ MaxVersion \in Nat
    /\ None \notin [view : View, ver : (0..MaxVersion) \cup {None}, saving : BOOLEAN]

CallRecord == [kind : {"load", "reload", "save", "toggle", "remove", "left"},
               reply : {"none", "ok", "lost"}, view : View, ver : Versions \cup {None}]

FormRecord == [view : View, ver : Versions \cup {None}, saving : BOOLEAN]

\* The kinds of requests there are on a page, and what they are about.
KindsFit ==
    /\ calls \in [Call -> CallRecord \cup {Idle}]
    /\ \A c \in Call :
          /\ page.ops = {} => calls[c].kind \in {"idle", "load", "left"}
          /\ page.load = "form" => calls[c].kind \in {"idle", "load", "save", "left"}
          /\ selected = None => calls[c].kind \in {"idle", "left"}
          /\ page.load = "poll" /\ calls[c].kind = "load" => calls[c].view = selected
          /\ calls[c].reply = "ok" => calls[c].ver \in Versions
    /\ selected = None => shown = None /\ modal = None
    /\ modal # None => "edit" \in page.ops
    /\ page.load = "form" => modal # None

\* What is in a form, on its way or about to be shown while nothing is in doubt.
Current(m) == m.ver = server[m.view]

Quiet ==
    /\ \A c, d \in Call : calls[c] # Idle /\ calls[d] # Idle => c = d
    /\ \A c \in Call : calls[c].kind # "left"
    /\ shown # None /\ page.load # "form" => Current(shown) \/ \E c \in Call : calls[c] # Idle
    /\ modal # None => \/ modal.saving \/ modal.ver = None
                       \/ Current(modal) /\ \A c \in Call : calls[c] = Idle
    /\ \A c \in Call :
          /\ calls[c].kind \in {"load", "reload", "save"} /\ calls[c].reply = "ok" =>
                Current(calls[c])
          /\ calls[c].kind \in {"save", "toggle"} /\ calls[c].reply = "none" =>
                calls[c].ver = None \/ Current(calls[c])

ConsoleInv == /\ TypeOK /\ KindsFit /\ ShowsSelected
              /\ page.ops # {} /\ ~doubt => Quiet
              /\ NoBlindWrite

-----------------------------------------------------------------------------
(* Pages and calls.                                                          *)

LEMMA RouteFacts ==
    \A p \in Routes :
        /\ p.load \in {"poll", "interval", "table", "form"} /\ p.narrowed \in BOOLEAN
        /\ p.load = "poll" => p.ops = {}
        /\ p.load = "interval" => p.ops = {"ack"}
        /\ p.load = "form" => p.ops = {"edit"} /\ ~p.narrowed
        /\ "toggle" \in p.ops => p.load = "table"
        /\ "edit" \in p.ops => p.load \in {"table", "form"}
<1> DEFINE Fits(p) == /\ p.load \in {"poll", "interval", "table", "form"}
                      /\ p.narrowed \in BOOLEAN
                      /\ p.load = "poll" => p.ops = {}
                      /\ p.load = "interval" => p.ops = {"ack"}
                      /\ p.load = "form" => p.ops = {"edit"} /\ ~p.narrowed
                      /\ "toggle" \in p.ops => p.load = "table"
                      /\ "edit" \in p.ops => p.load \in {"table", "form"}
<1>1. Fits(Dashboard) /\ Fits(RedundancyMonitor) /\ Fits(Monitor)
      BY DEF Dashboard, RedundancyMonitor, Monitor, Page
<1>2. Fits(AlarmMonitor)
      BY DEF AlarmMonitor, Page
<1>3. Fits(Plugins) /\ Fits(AlarmRules) /\ Fits(Points)
      BY DEF Plugins, AlarmRules, Points, Page
<1>4. Fits(RedundancyConfig)
      BY DEF RedundancyConfig, Page
<1> HIDE DEF Fits
<1>5. \A p \in Routes : Fits(p)
      BY <1>1, <1>2, <1>3, <1>4 DEF Routes
<1> QED
    BY <1>5 DEF Fits

LEMMA WholeView == ASSUME Constants PROVE Whole \in View /\ Whole # None
BY DEF Constants, Whole

LEMMA IdleFacts ==
    /\ Idle.kind = "idle" /\ Idle.reply = "none"
    /\ \A m \in CallRecord : m # Idle /\ m.kind # "idle"
<1>1. Idle.kind = "idle" /\ Idle.reply = "none"
      BY DEF Idle
<1>2. \A m \in CallRecord : m.kind # "idle"
      BY DEF CallRecord
<1> QED
    BY <1>1, <1>2

LEMMA SentFits ==
    ASSUME Constants, NEW v \in View,
           NEW kind \in {"load", "reload", "save", "toggle", "remove", "left"},
           NEW n \in Versions \cup {None}
    PROVE  /\ Sent(kind, v) \in CallRecord /\ Sent(kind, v).kind = kind
           /\ Sent(kind, v).view = v /\ Sent(kind, v).reply = "none"
           /\ Write(kind, v, n) \in CallRecord /\ Write(kind, v, n).kind = kind
           /\ Write(kind, v, n).view = v /\ Write(kind, v, n).reply = "none"
           /\ Write(kind, v, n).ver = n
<1> DEFINE s == Sent(kind, v)
<1>1. s \in CallRecord /\ s.kind = kind /\ s.view = v /\ s.reply = "none"
      BY DEF Sent, CallRecord, Versions, Constants
<1> HIDE DEF s
<1>2. Write(kind, v, n) = [s EXCEPT !.ver = n]
      BY DEF Write, s
<1>3. LET w == [s EXCEPT !.ver = n]
      IN  w \in CallRecord /\ w.kind = kind /\ w.view = v /\ w.reply = "none" /\ w.ver = n
      BY <1>1 DEF CallRecord
<1> QED
    BY <1>1, <1>2, <1>3 DEF s

LEMMA OneCall ==
    ASSUME NEW k \in [Call -> CallRecord \cup {Idle}], NEW c \in Call,
           NEW g \in CallRecord \cup {Idle}, calls' = [k EXCEPT ![c] = g]
    PROVE  /\ calls' \in [Call -> CallRecord \cup {Idle}]
           /\ calls'[c] = g /\ \A d \in Call : d # c => calls'[d] = k[d]
OBVIOUS

\* What is asked for while nothing else is under way, and nothing in doubt.
LEMMA NothingElse ==
    ASSUME NEW k, ~Doubtful(k), page.ops # {}
    PROVE  ~doubt /\ \A c \in Call : k[c] = Idle
BY DEF Doubtful, UnderWay

-----------------------------------------------------------------------------
(* Loading.                                                                  *)

LEMMA NoneNoForm == ASSUME Constants PROVE None \notin FormRecord
BY DEF Constants, FormRecord, Versions

\* The form that is there from the start.
LEMMA BlankForm ==
    ASSUME Constants
    PROVE  Blank \in FormRecord /\ Blank.ver = None /\ ~Blank.saving /\ Blank # None
<1>1. Blank \in FormRecord /\ Blank.ver = None /\ ~Blank.saving
      BY WholeView DEF Blank, FormRecord
<1> QED
    BY <1>1, NoneNoForm

LEMMA LeftFits ==
    ASSUME Constants, ConsoleInv
    PROVE  /\ Left \in [Call -> CallRecord \cup {Idle}]
           /\ \A c \in Call : Left[c].kind \in {"idle", "left"} /\ Left[c].reply = "none"
<1>1. ASSUME NEW c \in Call
      PROVE  /\ Left[c] \in CallRecord \cup {Idle}
             /\ Left[c].kind \in {"idle", "left"} /\ Left[c].reply = "none"
  <2> DEFINE stays == /\ calls[c].kind \in {"save", "toggle", "remove", "left"}
                      /\ calls[c].reply = "none"
  <2>1. calls[c] \in CallRecord \cup {Idle}
        BY DEF ConsoleInv, KindsFit
  <2>2. Left[c] = IF stays THEN Sent("left", calls[c].view) ELSE Idle
        BY DEF Left
  <2>3. CASE stays
    <3>1. calls[c] \in CallRecord
          BY <2>1, <2>3, IdleFacts
    <3>2. PICK v \in View : v = calls[c].view
          BY <3>1 DEF CallRecord
    <3>3. /\ Sent("left", v) \in CallRecord /\ Sent("left", v).kind = "left"
          /\ Sent("left", v).reply = "none"
          BY SentFits DEF Versions, Constants
    <3> QED
        BY <2>2, <2>3, <3>2, <3>3
  <2>4. CASE ~stays
        BY <2>2, <2>4, IdleFacts
  <2> QED
      BY <2>3, <2>4
<1> QED
    BY <1>1 DEF Left

LEMMA NavigateInv ==
    ASSUME Constants, ConsoleInv, NEW c \in Call, NEW p \in Routes, Navigate(p, c)
    PROVE  ConsoleInv'
<1>1. /\ page' = p /\ selected' = First(p) /\ shown' = None
      /\ modal' = (IF p.load = "form" THEN Blank ELSE None)
      /\ loading' = (First(p) # None) /\ fresh' = FALSE
      /\ doubt' = (p.ops # {} /\ UnderWay(Left) # {})
      /\ UNCHANGED <<server, overwritten>>
      BY DEF Navigate
<1>2. First(p) = None \/ (First(p) = Whole /\ Whole \in View /\ Whole # None)
      BY WholeView DEF First
<1>3. /\ Left \in [Call -> CallRecord \cup {Idle}]
      /\ \A d \in Call : Left[d].kind \in {"idle", "left"}
      BY LeftFits
<1>4. PICK g \in CallRecord \cup {Idle} :
        /\ calls' \in [Call -> CallRecord \cup {Idle}]
        /\ calls'[c] = g /\ \A d \in Call : d # c => calls'[d] = Left[d]
        /\ \/ g = Left[c]
           \/ First(p) = Whole /\ g.kind = "load" /\ g.view = Whole /\ g.reply = "none"
  <2>1. CASE First(p) = None
        BY <1>3, <2>1 DEF Navigate
  <2>2. CASE First(p) # None
    <3>1. calls' = [Left EXCEPT ![c] = Sent("load", Whole)]
          BY <2>2 DEF Navigate
    <3>2. PICK v \in View : v = Whole
          BY <1>2, <2>2
    <3>3. PICK g : g = Sent("load", v)
          OBVIOUS
    <3>4. g \in CallRecord /\ g.kind = "load" /\ g.view = v /\ g.reply = "none"
          BY <3>3, SentFits DEF Versions, Constants
    <3>5. calls' = [Left EXCEPT ![c] = g]
          BY <3>1, <3>2, <3>3
    <3> QED
        BY <1>2, <1>3, <2>2, <3>2, <3>4, <3>5, OneCall
  <2> QED
      BY <2>1, <2>2
<1>5. \A d \in Call : \/ calls'[d].kind \in {"idle", "left"}
                      \/ /\ First(p) = Whole /\ calls'[d].kind = "load"
                         /\ calls'[d].view = Whole /\ calls'[d].reply = "none"
      BY <1>3, <1>4
<1>6. KindsFit'
  <2>1. ASSUME NEW d \in Call
        PROVE  /\ calls'[d].kind \in {"idle", "load", "left"}
               /\ selected' = None => calls'[d].kind \in {"idle", "left"}
               /\ calls'[d].kind = "load" => calls'[d].view = selected'
               /\ calls'[d].reply # "ok"
    <3>1. CASE calls'[d].kind \in {"idle", "left"}
          BY <1>3, <1>4, <3>1, LeftFits
    <3>2. CASE calls'[d].kind \notin {"idle", "left"}
          BY <1>1, <1>5, <3>2, WholeView
    <3> QED
        BY <3>1, <3>2
  <2>2. /\ selected' = None => modal' = None
        /\ modal' # None => "edit" \in page'.ops
        /\ page'.load = "form" => modal' # None
        BY <1>1, RouteFacts, WholeView, BlankForm DEF First
  <2> QED
      BY <1>1, <1>4, <2>1, <2>2 DEF KindsFit
<1>7. TypeOK'
  <2>1. modal' \in FormRecord \cup {None}
        BY <1>1, BlankForm
  <2> QED
      BY <1>1, <1>2, <2>1 DEF ConsoleInv, TypeOK, FormRecord
<1>8. ShowsSelected' /\ NoBlindWrite'
      BY <1>1 DEF ConsoleInv, ShowsSelected, NoBlindWrite
<1>9. page'.ops # {} /\ ~doubt' => Quiet'
  <2>1. SUFFICES ASSUME p.ops # {}, UnderWay(Left) = {}
                 PROVE  Quiet'
        BY <1>1
  <2>2. \A d \in Call : Left[d] = Idle
        BY <2>1 DEF UnderWay
  <2>3. /\ \A d \in Call : d # c => calls'[d] = Idle
        /\ calls'[c].kind \in {"idle", "load"} /\ calls'[c].reply = "none"
        BY <1>4, <2>2, IdleFacts
  <2>4. \A d \in Call : calls'[d].kind \in {"idle", "load"} /\ calls'[d].reply = "none"
        BY <2>3, IdleFacts
  <2>5. modal' # None => modal'.ver = None
        BY <1>1, BlankForm
  <2> QED
      BY <1>1, <2>3, <2>4, <2>5 DEF Quiet
<1> QED
    BY <1>6, <1>7, <1>8, <1>9 DEF ConsoleInv

\* A request leaves while those in k are under way.
LEMMA AskInv ==
    ASSUME Constants, ConsoleInv, NEW c \in Call,
           NEW k \in [Call -> CallRecord \cup {Idle}],
           \A d \in Call : k[d] = calls[d] \/ k[d] = Idle,
           NEW g \in CallRecord, Ask(c, g, k), g.reply = "none",
           UNCHANGED <<page, shown, server, overwritten>>,
           selected' \in View, loading' \in BOOLEAN, fresh' \in BOOLEAN,
           page.load = "poll" =>
               /\ g.view = selected'
               /\ selected' = selected \/ (~fresh' /\ \A d \in Call : k[d] = Idle),
           selected' = selected => (fresh' => fresh),
           page.ops = {} => g.kind = "load",
           page.load = "form" => g.kind \in {"load", "save"},
           g.kind # "left",
           modal' \in FormRecord \cup {None},
           modal' # None <=> modal # None,
           (\A d \in Call : k[d] = Idle) /\ page.ops # {} /\ ~doubt =>
               /\ modal' # None => modal'.saving \/ modal'.ver = None
               /\ g.kind \in {"save", "toggle"} => g.ver = None \/ Current(g)
    PROVE  ConsoleInv'
<1>1. /\ k[c] = Idle /\ calls' = [k EXCEPT ![c] = g] /\ doubt' = Doubtful(k)
      BY DEF Ask
<1>2. /\ calls' \in [Call -> CallRecord \cup {Idle}]
      /\ calls'[c] = g /\ \A d \in Call : d # c => calls'[d] = k[d]
      BY <1>1, OneCall
<1>3. page \in Routes /\ server \in [View -> Versions] /\ doubt \in BOOLEAN
      BY DEF ConsoleInv, TypeOK
<1>4. doubt' \in BOOLEAN
      BY <1>1, <1>3 DEF Doubtful
<1>5. TypeOK'
      BY <1>3, <1>4 DEF ConsoleInv, TypeOK, FormRecord
<1>6. KindsFit'
  <2>1. ASSUME NEW d \in Call
        PROVE  /\ page.ops = {} => calls'[d].kind \in {"idle", "load", "left"}
               /\ page.load = "form" => calls'[d].kind \in {"idle", "load", "save", "left"}
               /\ page.load = "poll" /\ calls'[d].kind = "load" => calls'[d].view = selected'
               /\ calls'[d].reply = "ok" => calls'[d].ver \in Versions
    <3>1. CASE d = c
          BY <1>2, <3>1
    <3>2. CASE d # c
      <4>1. calls'[d] = calls[d] \/ calls'[d] = Idle
            BY <1>2, <3>2
      <4>2. CASE calls'[d] = Idle
            BY <4>2, IdleFacts
      <4>3. CASE calls'[d] = calls[d] /\ calls'[d] # Idle
        <5>1. page.load = "poll" => selected' = selected
              BY <1>2, <3>2, <4>3
        <5> QED
            BY <4>3, <5>1 DEF ConsoleInv, KindsFit
      <4> QED
          BY <4>1, <4>2, <4>3
    <3> QED
        BY <3>1, <3>2
  <2>2. selected' # None
        BY DEF Constants
  <2> QED
      BY <1>2, <2>1, <2>2 DEF ConsoleInv, KindsFit
<1>7. ShowsSelected'
      BY DEF ConsoleInv, ShowsSelected
<1>8. page'.ops # {} /\ ~doubt' => Quiet'
  <2>1. SUFFICES ASSUME page.ops # {}, ~Doubtful(k)
                 PROVE  Quiet'
        BY <1>1
  <2>2. ~doubt /\ \A d \in Call : k[d] = Idle
        BY <2>1, NothingElse
  <2>3. /\ calls'[c] = g /\ g # Idle /\ \A d \in Call : d # c => calls'[d] = Idle
        BY <1>2, <2>2, IdleFacts
  <2>4. modal' # None => modal'.saving \/ modal'.ver = None
        BY <2>1, <2>2
  <2>5. ASSUME NEW d \in Call
        PROVE  /\ calls'[d].kind # "left"
               /\ calls'[d].kind \in {"load", "reload", "save"} => calls'[d].reply # "ok"
               /\ calls'[d].kind \in {"save", "toggle"} =>
                      calls'[d].ver = None \/ Current(calls'[d])
    <3>1. CASE d = c
          BY <2>1, <2>2, <2>3, <3>1
    <3>2. CASE d # c
          BY <2>3, <3>2, IdleFacts
    <3> QED
        BY <3>1, <3>2
  <2>6. \A d \in Call : calls'[d].kind \in {"save", "toggle"} =>
                            calls'[d].ver = None \/ calls'[d].ver = server'[calls'[d].view]
        BY <2>5 DEF Current
  <2> QED
      BY <2>3, <2>4, <2>5, <2>6 DEF Quiet, Current
<1>9. NoBlindWrite'
      BY DEF ConsoleInv, NoBlindWrite
<1> QED
    BY <1>5, <1>6, <1>7, <1>8, <1>9 DEF ConsoleInv

LEMMA SelectInv ==
    ASSUME Constants, ConsoleInv, NEW c \in Call, NEW v \in View, Select(v, c)
    PROVE  ConsoleInv'
<1> DEFINE k == IF page.load = "poll" THEN Stopped(calls) ELSE calls
<1>1. /\ selected' = v /\ fresh' = FALSE /\ modal = None /\ v # selected
      /\ loading' = (loading \/ page.load = "table") /\ Ask(c, Sent("load", v), k)
      /\ UNCHANGED <<page, shown, modal, server, overwritten>>
      BY DEF Select
<1>2. /\ k \in [Call -> CallRecord \cup {Idle}]
      /\ \A d \in Call : k[d] = calls[d] \/ k[d] = Idle
      /\ page.load = "poll" => \A d \in Call : k[d] = Idle
      BY DEF Stopped, ConsoleInv, KindsFit
<1>3. PICK g : g = Sent("load", v)
      OBVIOUS
<1>4. g \in CallRecord /\ g.kind = "load" /\ g.view = v /\ g.reply = "none"
      BY <1>3, SentFits DEF Versions, Constants
<1>5. Ask(c, g, k)
      BY <1>1, <1>3
<1> HIDE DEF k
<1>6. loading' \in BOOLEAN
      BY <1>1 DEF ConsoleInv, TypeOK
<1> QED
    BY <1>1, <1>2, <1>4, <1>5, <1>6, AskInv

LEMMA TickInv ==
    ASSUME Constants, ConsoleInv, NEW c \in Call, Tick(c)
    PROVE  ConsoleInv'
<1>1. /\ page.load \in {"poll", "interval"} /\ selected # None
      /\ Ask(c, Sent("load", selected), calls)
      /\ UNCHANGED <<page, selected, shown, loading, modal, server, fresh, overwritten>>
      BY DEF Tick, screen
<1>2. PICK v \in View : v = selected
      BY <1>1 DEF ConsoleInv, TypeOK
<1>3. PICK g : g = Sent("load", v)
      OBVIOUS
<1>4. g \in CallRecord /\ g.kind = "load" /\ g.view = v /\ g.reply = "none"
      BY <1>3, SentFits DEF Versions, Constants
<1>5. Ask(c, g, calls)
      BY <1>1, <1>2, <1>3
<1>6. calls \in [Call -> CallRecord \cup {Idle}]
      BY DEF ConsoleInv, KindsFit
<1>7. modal = None
  <2>1. page \in Routes
        BY DEF ConsoleInv, TypeOK
  <2> QED
      BY <1>1, <2>1, RouteFacts DEF ConsoleInv, KindsFit
<1>8. loading \in BOOLEAN /\ fresh \in BOOLEAN
      BY DEF ConsoleInv, TypeOK
<1> QED
    BY <1>1, <1>2, <1>4, <1>5, <1>6, <1>7, <1>8, AskInv

LEMMA SaveInv ==
    ASSUME Constants, ConsoleInv, NEW c \in Call, Save(c)
    PROVE  ConsoleInv'
<1>1. /\ modal # None /\ ~modal.saving
      /\ modal' = [modal EXCEPT !.saving = TRUE]
      /\ Ask(c, Write("save", modal.view, modal.ver), calls)
      /\ UNCHANGED <<page, selected, shown, loading, server, fresh, overwritten>>
      BY DEF Save
<1>2. modal \in FormRecord
      BY <1>1 DEF ConsoleInv, TypeOK, FormRecord
<1>3. PICK v \in View, n \in Versions \cup {None} : v = modal.view /\ n = modal.ver
      BY <1>2 DEF FormRecord
<1>4. PICK g : g = Write("save", v, n)
      OBVIOUS
<1>5. g \in CallRecord /\ g.kind = "save" /\ g.view = v /\ g.reply = "none" /\ g.ver = n
      BY <1>4, SentFits
<1>6. Ask(c, g, calls)
      BY <1>1, <1>3, <1>4
<1>7. modal' \in FormRecord /\ modal'.saving /\ modal' # None
      BY <1>1, <1>2 DEF FormRecord, Constants, Versions
<1>8. /\ selected \in View /\ "edit" \in page.ops /\ page \in Routes
      /\ loading \in BOOLEAN /\ fresh \in BOOLEAN
      /\ calls \in [Call -> CallRecord \cup {Idle}]
      BY <1>1 DEF ConsoleInv, KindsFit, TypeOK
<1>9. page.load # "poll"
      BY <1>8, RouteFacts
<1>10. page.ops # {} /\ ~doubt => g.ver = None \/ Current(g)
       BY <1>1, <1>3, <1>5 DEF ConsoleInv, Quiet, Current
<1> QED
    BY <1>1, <1>5, <1>6, <1>7, <1>8, <1>9, <1>10, AskInv

LEMMA RowInv ==
    ASSUME Constants, ConsoleInv, NEW c \in Call, Toggle(c) \/ Remove(c)
    PROVE  ConsoleInv'
<1>1. /\ shown # None /\ modal = None
      /\ UNCHANGED <<page, selected, shown, loading, modal, server, fresh, overwritten>>
      BY DEF Toggle, Remove, Clickable, screen
<1>2. PICK v \in View, n \in Versions : v = shown.view /\ n = shown.ver
      BY <1>1 DEF ConsoleInv, TypeOK
<1>3. /\ selected \in View /\ page \in Routes
      /\ loading \in BOOLEAN /\ fresh \in BOOLEAN
      /\ calls \in [Call -> CallRecord \cup {Idle}]
      BY <1>1 DEF ConsoleInv, KindsFit, TypeOK
<1>4. page.load \notin {"poll", "form"} /\ page.ops # {}
      BY <1>3, RouteFacts DEF Toggle, Remove
<1>5. PICK g \in CallRecord :
        /\ g.kind \in {"toggle", "remove"} /\ g.reply = "none" /\ Ask(c, g, calls)
        /\ g.kind = "toggle" => g.view = shown.view /\ g.ver = shown.ver
  <2>1. CASE Toggle(c)
    <3>1. PICK g : g = Write("toggle", v, n)
          OBVIOUS
    <3>2. g \in CallRecord /\ g.kind = "toggle" /\ g.view = v /\ g.reply = "none" /\ g.ver = n
          BY <3>1, SentFits
    <3>3. Ask(c, g, calls)
          BY <1>2, <2>1, <3>1 DEF Toggle
    <3> QED
        BY <1>2, <3>2, <3>3
  <2>2. CASE Remove(c)
    <3>1. PICK g : g = Sent("remove", v)
          OBVIOUS
    <3>2. g \in CallRecord /\ g.kind = "remove" /\ g.view = v /\ g.reply = "none"
          BY <3>1, SentFits
    <3>3. Ask(c, g, calls)
          BY <1>2, <2>2, <3>1 DEF Remove
    <3> QED
        BY <3>2, <3>3
  <2> QED
      BY <2>1, <2>2
<1>6. (\A d \in Call : calls[d] = Idle) /\ page.ops # {} /\ ~doubt =>
          (g.kind = "toggle" => Current(g))
      BY <1>1, <1>4, <1>5 DEF ConsoleInv, Quiet, Current
<1> QED
    BY <1>1, <1>3, <1>4, <1>5, <1>6, AskInv

-----------------------------------------------------------------------------
(* Answers.                                                                  *)

\* A request that stays what it is, or is none any more.
LEMMA KindsStay ==
    ASSUME ConsoleInv, NEW c \in Call, NEW g \in CallRecord \cup {Idle},
           calls' = [calls EXCEPT ![c] = g],
           g = Idle \/ (/\ g.kind = calls[c].kind /\ g.view = calls[c].view
                        /\ g.reply = "ok" => g.ver \in Versions),
           UNCHANGED <<page, selected>>,
           selected = None => shown' = None /\ modal' = None,
           modal' # None => modal # None,
           page.load = "form" => modal' # None
    PROVE  KindsFit'
<1>1. /\ calls \in [Call -> CallRecord \cup {Idle}]
      /\ calls' \in [Call -> CallRecord \cup {Idle}]
      /\ calls'[c] = g /\ \A d \in Call : d # c => calls'[d] = calls[d]
      BY OneCall DEF ConsoleInv, KindsFit
<1>2. ASSUME NEW d \in Call
      PROVE  /\ \/ calls'[d].kind = "idle"
                \/ calls'[d].kind = calls[d].kind /\ calls'[d].view = calls[d].view
             /\ calls'[d].reply = "ok" => calls'[d].ver \in Versions
      BY <1>1, IdleFacts DEF ConsoleInv, KindsFit
<1>3. \A d \in Call :
          /\ page.ops = {} => calls'[d].kind \in {"idle", "load", "left"}
          /\ page.load = "form" => calls'[d].kind \in {"idle", "load", "save", "left"}
          /\ selected = None => calls'[d].kind \in {"idle", "left"}
          /\ page.load = "poll" /\ calls'[d].kind = "load" => calls'[d].view = selected
          /\ calls'[d].reply = "ok" => calls'[d].ver \in Versions
      BY <1>2 DEF ConsoleInv, KindsFit
<1> QED
    BY <1>1, <1>3 DEF ConsoleInv, KindsFit

LEMMA LoadedInv ==
    ASSUME Constants, ConsoleInv, NEW c \in Call, Loaded(c)
    PROVE  ConsoleInv'
<1>1. PICK m : m = calls[c]
      OBVIOUS
<1>2. /\ m \in CallRecord /\ m.kind \in {"load", "reload"} /\ m # Idle
      BY <1>1, IdleFacts DEF Loaded, ConsoleInv, KindsFit
<1>3. /\ loading' = FALSE /\ modal' = FormLoaded(m)
      /\ calls' = [calls EXCEPT ![c] = Idle]
      /\ UNCHANGED <<page, selected, server, overwritten>>
      /\ \/ m.reply = "ok" /\ Rendered(c, m)
         \/ /\ m.reply = "lost" /\ shown' \in {None, shown}
            /\ doubt' = (doubt \/ (page.ops # {} /\ page.load # "form"))
            /\ fresh' = fresh
      BY <1>1 DEF Loaded
<1>4. /\ page \in Routes /\ doubt \in BOOLEAN /\ server \in [View -> Versions]
      /\ m.view \in View /\ (m.reply = "ok" => m.ver \in Versions)
      BY <1>1, <1>2 DEF ConsoleInv, TypeOK, CallRecord, KindsFit
<1>5. /\ shown' \in [view : View, ver : Versions] \cup {None}
      /\ fresh' \in BOOLEAN /\ doubt' \in BOOLEAN
  <2>1. fresh \in BOOLEAN /\ shown \in [view : View, ver : Versions] \cup {None}
        BY DEF ConsoleInv, TypeOK
  <2>2. CASE m.reply = "ok" /\ Rendered(c, m)
    <3>1. shown' = [view |-> m.view, ver |-> m.ver] /\ fresh' \in BOOLEAN
          BY <2>2 DEF Rendered
    <3>2. doubt' \in BOOLEAN
          BY <2>2, <1>4, Zenon DEF Rendered
    <3> QED
        BY <1>4, <2>2, <3>1, <3>2
  <2>3. CASE /\ shown' \in {None, shown} /\ fresh' = fresh
             /\ doubt' = (doubt \/ (page.ops # {} /\ page.load # "form"))
    <3>1. doubt' \in BOOLEAN
          BY <1>4, <2>3, Zenon
    <3> QED
        BY <2>1, <2>3, <3>1
  <2> QED
      BY <1>3, <2>2, <2>3
<1>12. /\ modal \in FormRecord \cup {None} /\ (page.load = "form" => modal # None)
       /\ (page.load = "form" => m.kind # "reload")
       BY <1>1, <1>2 DEF ConsoleInv, TypeOK, FormRecord, KindsFit
<1>13. \/ modal' = None /\ page.load # "form"
       \/ modal' = modal
       \/ /\ page.load = "form" /\ m.reply = "ok"
          /\ modal' = [view |-> m.view, ver |-> m.ver, saving |-> modal.saving]
       BY <1>3, <1>12 DEF FormLoaded
<1>14. /\ modal' \in FormRecord \cup {None}
       /\ (page.load = "form" => modal' # None) /\ (modal' # None => modal # None)
  <2>1. CASE modal' = None /\ page.load # "form"
        BY <2>1
  <2>2. CASE modal' = modal
        BY <1>12, <2>2
  <2>3. CASE /\ page.load = "form" /\ m.reply = "ok"
             /\ modal' = [view |-> m.view, ver |-> m.ver, saving |-> modal.saving]
    <3>1. modal \in FormRecord /\ m.ver \in Versions
          BY <1>4, <1>12, <2>3
    <3>2. modal' \in FormRecord
          BY <1>4, <1>12, <2>3, <3>1 DEF FormRecord
    <3> QED
        BY <1>12, <2>3, <3>2, NoneNoForm
  <2> QED
      BY <1>13, <2>1, <2>2, <2>3
<1>6. TypeOK'
      BY <1>3, <1>5, <1>14 DEF ConsoleInv, TypeOK, FormRecord
<1>7. selected # None
      BY <1>1, <1>2 DEF ConsoleInv, KindsFit
<1>8. KindsFit'
      BY <1>3, <1>7, <1>14, KindsStay
<1>9. ShowsSelected'
  <2>1. SUFFICES ASSUME page.load = "poll", fresh'
                 PROVE  shown'.view = selected
        BY <1>3 DEF ShowsSelected
  <2>2. page.ops = {}
        BY <1>4, <2>1, RouteFacts
  <2>3. m.kind = "load" /\ m.view = selected
        BY <1>1, <1>2, <2>1, <2>2 DEF ConsoleInv, KindsFit
  <2>4. CASE m.reply = "ok" /\ Rendered(c, m)
        BY <2>3, <2>4 DEF Rendered
  <2>5. CASE m.reply = "lost" /\ shown' \in {None, shown} /\ fresh' = fresh
    <3>1. page # Points
      <4>1. Points.load = "table"
            BY DEF Points, Page
      <4> QED
          BY <2>1, <4>1
    <3>2. shown' = shown
          BY <1>1, <2>5, <3>1 DEF Loaded
    <3> QED
        BY <2>1, <2>5, <3>2 DEF ConsoleInv, ShowsSelected
  <2> QED
      BY <1>3, <2>4, <2>5
<1>10. page'.ops # {} /\ ~doubt' => Quiet'
  <2>1. SUFFICES ASSUME page.ops # {}, ~doubt'
                 PROVE  Quiet'
        BY <1>3
  <2>2. /\ calls'[c] = Idle /\ \A d \in Call : d # c => calls'[d] = calls[d]
        BY <1>3 DEF ConsoleInv, KindsFit
  <2>3. CASE m.reply = "lost" /\ doubt' = (doubt \/ (page.ops # {} /\ page.load # "form"))
    <3>1. ~doubt /\ page.load = "form" /\ Quiet
          BY <1>4, <2>1, <2>3 DEF ConsoleInv
    <3>2. modal' = modal
          BY <1>13, <2>3, <3>1
    <3>3. \A d \in Call : calls'[d] = Idle
          BY <1>1, <1>2, <2>2, <3>1 DEF Quiet
    <3>4. modal' # None => modal'.saving \/ modal'.ver = None
          BY <1>1, <1>2, <3>1, <3>2 DEF Quiet
    <3>5. page'.load = "form"
          BY <1>3, <3>1
    <3> QED
        BY <3>3, <3>4, <3>5, IdleFacts DEF Quiet
  <2>4. CASE m.reply = "ok" /\ Rendered(c, m)
    <3>1. /\ shown' = [view |-> m.view, ver |-> m.ver]
          /\ doubt' = (doubt /\ ~(UnderWay(calls) = {c}
                                  /\ (modal = None \/ page.load = "form")
                                  /\ m.ver = server[m.view]))
          BY <2>4 DEF Rendered
    <3>2. \/ ~doubt /\ Quiet
          \/ /\ UnderWay(calls) = {c} /\ m.ver = server[m.view]
             /\ modal = None \/ page.load = "form"
          BY <1>4, <2>1, <3>1 DEF ConsoleInv
    <3>3. /\ \A d \in Call : d # c => calls[d] = Idle
          /\ m.ver = server[m.view]
          /\ modal = None \/ page.load = "form" \/ modal.saving \/ modal.ver = None
      <4>1. CASE Quiet
            BY <1>1, <1>2, <2>4, <4>1 DEF Quiet, Current
      <4>2. CASE /\ UnderWay(calls) = {c} /\ m.ver = server[m.view]
                 /\ modal = None \/ page.load = "form"
            BY <4>2 DEF UnderWay
      <4> QED
          BY <3>2, <4>1, <4>2
    <3>4. \A d \in Call : calls'[d] = Idle
          BY <2>2, <3>3
    <3>5. shown'.ver = server'[shown'.view]
          BY <1>3, <3>1, <3>3
    <3>6. modal' # None => \/ modal'.saving \/ modal'.ver = None
                           \/ modal'.ver = server'[modal'.view]
      <4>1. CASE page.load = "form"
        <5>1. modal' = [view |-> m.view, ver |-> m.ver, saving |-> modal.saving]
              BY <1>3, <1>12, <2>4, <4>1 DEF FormLoaded
        <5> QED
            BY <1>3, <3>3, <5>1
      <4>2. CASE page.load # "form"
            BY <1>13, <1>14, <3>3, <4>2
      <4> QED
          BY <4>1, <4>2
    <3> QED
        BY <3>4, <3>5, <3>6, IdleFacts DEF Quiet, Current
  <2> QED
      BY <1>3, <2>3, <2>4
<1>11. NoBlindWrite'
       BY <1>3 DEF ConsoleInv, NoBlindWrite
<1> QED
    BY <1>6, <1>8, <1>9, <1>10, <1>11 DEF ConsoleInv

LEMMA OpenEditInv ==
    ASSUME Constants, ConsoleInv, OpenEdit
    PROVE  ConsoleInv'
<1>1. /\ "edit" \in page.ops /\ shown # None /\ page.load # "form"
      /\ modal' = [view |-> shown.view, ver |-> shown.ver, saving |-> Saving]
      /\ doubt' = Doubtful(calls)
      /\ UNCHANGED <<page, selected, shown, loading, calls, server, fresh, overwritten>>
      BY DEF OpenEdit, Clickable
<1>2. shown \in [view : View, ver : Versions] /\ doubt \in BOOLEAN
      BY <1>1 DEF ConsoleInv, TypeOK
<1>3. Saving \in BOOLEAN
      BY DEF Saving
<1>4. modal' \in FormRecord
      BY <1>1, <1>2, <1>3 DEF FormRecord
<1>5. doubt' \in BOOLEAN
      BY <1>1, <1>2 DEF Doubtful
<1>6. TypeOK'
      BY <1>1, <1>4, <1>5 DEF ConsoleInv, TypeOK, FormRecord
<1>7. KindsFit' /\ ShowsSelected' /\ NoBlindWrite'
      BY <1>1 DEF ConsoleInv, KindsFit, ShowsSelected, NoBlindWrite
<1>8. page'.ops # {} /\ ~doubt' => Quiet'
  <2>1. SUFFICES ASSUME page.ops # {}, ~Doubtful(calls)
                 PROVE  Quiet'
        BY <1>1
  <2>2. ~doubt /\ \A c \in Call : calls[c] = Idle
        BY <2>1, NothingElse
  <2>3. Quiet
        BY <2>1, <2>2 DEF ConsoleInv
  <2>4. shown.ver = server[shown.view]
        BY <1>1, <2>2, <2>3 DEF Quiet, Current
  <2>5. modal'.ver = server'[modal'.view] /\ \A c \in Call : calls'[c] = Idle
        BY <1>1, <2>2, <2>4
  <2>6. shown' # None => shown'.ver = server'[shown'.view]
        BY <1>1, <2>4
  <2> QED
      BY <2>5, <2>6, IdleFacts DEF Quiet, Current
<1> QED
    BY <1>6, <1>7, <1>8 DEF ConsoleInv

LEMMA CloseInv ==
    ASSUME Constants, ConsoleInv, Close
    PROVE  ConsoleInv'
<1>1. /\ modal' = None /\ page.load # "form"
      /\ UNCHANGED <<page, selected, shown, loading, calls, server, fresh, doubt, overwritten>>
      BY DEF Close, history
<1>2. TypeOK'
      BY <1>1 DEF ConsoleInv, TypeOK
<1>3. KindsFit' /\ ShowsSelected' /\ NoBlindWrite'
      BY <1>1 DEF ConsoleInv, KindsFit, ShowsSelected, NoBlindWrite
<1>4. Quiet => Quiet'
      BY <1>1 DEF Quiet, Current
<1> QED
    BY <1>1, <1>2, <1>3, <1>4 DEF ConsoleInv

LEMMA ChangeInv ==
    ASSUME Constants, ConsoleInv, NEW v \in View, Change(v)
    PROVE  ConsoleInv'
<1>1. /\ server[v] < MaxVersion /\ server' = [server EXCEPT ![v] = @ + 1]
      /\ doubt' = (page.ops # {})
      /\ UNCHANGED <<page, selected, shown, loading, modal, calls, fresh, overwritten>>
      BY DEF Change, screen
<1>2. server' \in [View -> Versions] /\ doubt' \in BOOLEAN
  <2>1. server \in [View -> Versions] /\ server[v] + 1 \in Versions
        BY <1>1 DEF ConsoleInv, TypeOK, Versions, Constants
  <2> QED
      BY <1>1, <2>1
<1>3. TypeOK'
      BY <1>1, <1>2 DEF ConsoleInv, TypeOK
<1>4. KindsFit' /\ ShowsSelected' /\ NoBlindWrite'
      BY <1>1 DEF ConsoleInv, KindsFit, ShowsSelected, NoBlindWrite
<1> QED
    BY <1>1, <1>3, <1>4 DEF ConsoleInv

-----------------------------------------------------------------------------
(* The backend and the network.                                              *)

\* An answer that carries a version.
LEMMA AnsweredFits ==
    ASSUME ConsoleInv, NEW c \in Call, calls[c] \in CallRecord, NEW n \in Versions,
           calls' = [calls EXCEPT ![c].reply = "ok", ![c].ver = n]
    PROVE  \E g \in CallRecord :
             /\ calls' = [calls EXCEPT ![c] = g]
             /\ g.kind = calls[c].kind /\ g.view = calls[c].view
             /\ g.reply = "ok" /\ g.ver = n
<1> DEFINE m == calls[c]
           a == [m EXCEPT !.reply = "ok"]
           b == [a EXCEPT !.ver = n]
           k == [calls EXCEPT ![c] = a]
<1>1. calls \in [Call -> CallRecord \cup {Idle}]
      BY DEF ConsoleInv, KindsFit
<1>2. k = [calls EXCEPT ![c].reply = "ok"]
      BY <1>1
<1>3. k[c] = a /\ k \in [Call -> CallRecord \cup {Idle, a}]
      BY <1>1
<1>4. [k EXCEPT ![c] = b] = [calls EXCEPT ![c] = b]
      BY <1>1
<1>5. a \in CallRecord /\ a.kind = m.kind /\ a.view = m.view /\ a.reply = "ok"
      BY DEF CallRecord
<1>6. calls' = [k EXCEPT ![c].ver = n]
      BY <1>2
<1>7. calls' = [k EXCEPT ![c] = [k[c] EXCEPT !.ver = n]]
      BY <1>3, <1>6
<1>8. calls' = [k EXCEPT ![c] = b]
      BY <1>3, <1>7
<1> HIDE DEF a, k
<1>9. b \in CallRecord /\ b.kind = m.kind /\ b.view = m.view /\ b.reply = "ok" /\ b.ver = n
      BY <1>5 DEF CallRecord
<1> HIDE DEF b
<1> QED
    BY <1>4, <1>8, <1>9

\* The server handles the only request, or there is a doubt.
LEMMA HandleInv ==
    ASSUME Constants, ConsoleInv, NEW c \in Call, Handle(c)
    PROVE  ConsoleInv'
<1>1. PICK m : m = calls[c]
      OBVIOUS
<1>2. /\ m \in CallRecord /\ m.reply = "none" /\ m # Idle
      /\ UNCHANGED <<page, selected, shown, loading, modal, fresh, doubt>>
      BY <1>1 DEF Handle, ConsoleInv, KindsFit, screen
<1>3. /\ m.view \in View /\ server \in [View -> Versions] /\ server[m.view] \in Versions
      BY <1>2 DEF CallRecord, ConsoleInv, TypeOK
<1>4. CASE m.kind \in {"load", "reload"}
  <2>1. /\ calls' = [calls EXCEPT ![c].reply = "ok", ![c].ver = server[m.view]]
        /\ UNCHANGED <<server, overwritten>>
        BY <1>1, <1>4 DEF Handle
  <2>2. PICK g \in CallRecord :
          /\ calls' = [calls EXCEPT ![c] = g] /\ g.kind = m.kind /\ g.view = m.view
          /\ g.reply = "ok" /\ g.ver = server[m.view]
    <3>1. PICK n \in Versions : n = server[m.view]
          BY <1>3
    <3>2. calls' = [calls EXCEPT ![c].reply = "ok", ![c].ver = n]
          BY <2>1, <3>1
    <3>3. calls[c] \in CallRecord
          BY <1>1, <1>2
    <3>4. \E g \in CallRecord :
             /\ calls' = [calls EXCEPT ![c] = g]
             /\ g.kind = calls[c].kind /\ g.view = calls[c].view
             /\ g.reply = "ok" /\ g.ver = n
          BY <3>2, <3>3, AnsweredFits, Zenon
    <3> QED
        BY <1>1, <3>1, <3>4, Zenon
  <2>3. KindsFit'
        BY <1>1, <1>2, <1>3, <2>2, KindsStay DEF ConsoleInv, KindsFit
  <2>4. TypeOK' /\ ShowsSelected' /\ NoBlindWrite'
        BY <1>2, <2>1 DEF ConsoleInv, TypeOK, ShowsSelected, NoBlindWrite
  <2>5. Quiet => Quiet'
    <3>1. SUFFICES ASSUME Quiet
                   PROVE  Quiet'
          OBVIOUS
    <3>2. /\ calls'[c] = g /\ g # Idle /\ \A d \in Call : d # c => calls'[d] = calls[d]
          BY <2>2, IdleFacts DEF ConsoleInv, KindsFit
    <3>3. \A d \in Call : d # c => calls[d] = Idle
          BY <1>1, <1>2, <3>1 DEF Quiet
    <3>4. \A d \in Call : d # c => calls'[d] = Idle
          BY <3>2, <3>3
    <3>5. \A d \in Call : calls'[d].kind \in {"load", "reload", "save"}
                          /\ calls'[d].reply = "ok" => calls'[d].ver = server'[calls'[d].view]
          BY <2>1, <2>2, <3>2, <3>4, IdleFacts
    <3>6. \A d \in Call : calls'[d].kind \notin {"left", "save", "toggle"}
          BY <1>4, <2>2, <3>2, <3>4, IdleFacts
    <3>7. modal # None => modal.saving \/ modal.ver = None
          BY <1>1, <1>2, <3>1 DEF Quiet
    <3> QED
        BY <1>2, <3>2, <3>4, <3>5, <3>6, <3>7 DEF Quiet, Current
  <2> QED
      BY <1>2, <2>3, <2>4, <2>5 DEF ConsoleInv
<1>5. CASE m.kind = "left"
  <2>1. /\ server[m.view] < MaxVersion /\ server' = [server EXCEPT ![m.view] = @ + 1]
        /\ calls' = [calls EXCEPT ![c] = Idle] /\ overwritten' = overwritten
        BY <1>1, <1>5 DEF Handle
  <2>2. server' \in [View -> Versions]
        BY <1>3, <2>1 DEF Versions, Constants
  <2>3. TypeOK' /\ ShowsSelected' /\ NoBlindWrite'
        BY <1>2, <2>1, <2>2 DEF ConsoleInv, TypeOK, ShowsSelected, NoBlindWrite
  <2>4. KindsFit'
        BY <1>2, <2>1, KindsStay DEF ConsoleInv, KindsFit
  <2>5. ~Quiet
        BY <1>1, <1>5 DEF Quiet
  <2> QED
      BY <1>2, <2>3, <2>4, <2>5 DEF ConsoleInv
<1>6. CASE m.kind \in {"save", "toggle", "remove"}
  <2>1. /\ server[m.view] < MaxVersion /\ server' = [server EXCEPT ![m.view] = @ + 1]
        /\ calls' = [calls EXCEPT ![c].reply = "ok", ![c].ver = server'[m.view]]
        /\ overwritten' = overwritten \cup Blind(m)
        BY <1>1, <1>6 DEF Handle
  <2>2. server' \in [View -> Versions] /\ server'[m.view] \in Versions
        BY <1>3, <2>1 DEF Versions, Constants
  <2>3. PICK g \in CallRecord :
          /\ calls' = [calls EXCEPT ![c] = g] /\ g.kind = m.kind /\ g.view = m.view
          /\ g.reply = "ok" /\ g.ver = server'[m.view]
    <3>1. PICK n \in Versions : n = server'[m.view]
          BY <2>2
    <3>2. calls' = [calls EXCEPT ![c].reply = "ok", ![c].ver = n]
          BY <2>1, <3>1
    <3>3. calls[c] \in CallRecord
          BY <1>1, <1>2
    <3>4. \E g \in CallRecord :
             /\ calls' = [calls EXCEPT ![c] = g]
             /\ g.kind = calls[c].kind /\ g.view = calls[c].view
             /\ g.reply = "ok" /\ g.ver = n
          BY <3>2, <3>3, AnsweredFits, Zenon
    <3> QED
        BY <1>1, <3>1, <3>4, Zenon
  <2>4. KindsFit'
        BY <1>1, <1>2, <2>2, <2>3, KindsStay DEF ConsoleInv, KindsFit
  <2>5. page.ops # {}
        BY <1>1, <1>6 DEF ConsoleInv, KindsFit
  <2>6. ~doubt /\ m.kind # "remove" => m.ver = None \/ m.ver = server[m.view]
        BY <1>1, <1>2, <1>6, <2>5 DEF ConsoleInv, Quiet, Current
  <2>7. NoBlindWrite' /\ overwritten' \subseteq {"blank", "stale"}
        BY <2>1, <2>6 DEF ConsoleInv, NoBlindWrite, Blind, TypeOK
  <2>8. TypeOK' /\ ShowsSelected'
        BY <1>2, <2>2, <2>7 DEF ConsoleInv, TypeOK, ShowsSelected
  <2>9. Quiet => Quiet'
    <3>1. SUFFICES ASSUME Quiet
                   PROVE  Quiet'
          OBVIOUS
    <3>2. /\ calls'[c] = g /\ g # Idle /\ \A d \in Call : d # c => calls'[d] = calls[d]
          BY <2>3, IdleFacts DEF ConsoleInv, KindsFit
    <3>3. \A d \in Call : d # c => calls[d] = Idle
          BY <1>1, <1>2, <3>1 DEF Quiet
    <3>4. \A d \in Call : d # c => calls'[d] = Idle
          BY <3>2, <3>3
    <3>5. \A d \in Call : calls'[d].kind \in {"load", "reload", "save"}
                          /\ calls'[d].reply = "ok" => calls'[d].ver = server'[calls'[d].view]
          BY <2>3, <3>2, <3>4, IdleFacts
    <3>6. \A d \in Call : /\ calls'[d].kind # "left"
                          /\ calls'[d].kind \in {"save", "toggle"} => calls'[d].reply # "none"
          BY <1>6, <2>3, <3>2, <3>4, IdleFacts
    <3>7. modal # None => modal.saving \/ modal.ver = None
          BY <1>1, <1>2, <3>1 DEF Quiet
    <3> QED
        BY <1>2, <3>2, <3>4, <3>5, <3>6, <3>7 DEF Quiet, Current
  <2> QED
      BY <1>2, <2>4, <2>7, <2>8, <2>9 DEF ConsoleInv
<1> QED
    BY <1>1, <1>4, <1>5, <1>6 DEF Handle

LEMMA LoseInv ==
    ASSUME Constants, ConsoleInv, NEW c \in Call, Lose(c)
    PROVE  ConsoleInv'
<1>1. PICK m : m = calls[c]
      OBVIOUS
<1>2. /\ m \in CallRecord /\ m # Idle
      /\ UNCHANGED <<page, selected, shown, loading, modal, server, fresh, doubt, overwritten>>
      BY <1>1 DEF Lose, ConsoleInv, KindsFit, screen, history
<1>3. PICK g \in CallRecord \cup {Idle} :
        /\ calls' = [calls EXCEPT ![c] = g]
        /\ \/ g = Idle /\ m.kind = "left"
           \/ g # Idle /\ g.kind = m.kind /\ g.view = m.view /\ g.reply = "lost"
  <2>1. CASE m.kind = "left"
        BY <1>1, <2>1 DEF Lose
  <2>2. CASE m.kind # "left"
    <3> DEFINE b == [m EXCEPT !.reply = "lost"]
               a == [b EXCEPT !.ver = 0]
    <3>1. calls' = [calls EXCEPT ![c] = a]
          BY <1>1, <2>2, Zenon DEF Lose
    <3>2. b \in CallRecord /\ b.kind = m.kind /\ b.view = m.view /\ b.reply = "lost"
          BY <1>2 DEF CallRecord
    <3>3. 0 \in Versions \cup {None}
          BY DEF Versions, Constants
    <3> HIDE DEF b
    <3>4. a \in CallRecord /\ a.kind = m.kind /\ a.view = m.view /\ a.reply = "lost"
          BY <3>2, <3>3 DEF CallRecord
    <3> HIDE DEF a
    <3> QED
        BY <3>1, <3>4, IdleFacts
  <2> QED
      BY <2>1, <2>2
<1>4. KindsFit'
      BY <1>1, <1>2, <1>3, KindsStay DEF ConsoleInv, KindsFit
<1>5. TypeOK' /\ ShowsSelected' /\ NoBlindWrite'
      BY <1>2 DEF ConsoleInv, TypeOK, ShowsSelected, NoBlindWrite
<1>6. Quiet => Quiet'
  <2>1. SUFFICES ASSUME Quiet
                 PROVE  Quiet'
        OBVIOUS
  <2>2. g # Idle /\ g.kind = m.kind /\ g.reply = "lost" /\ g.kind # "left"
        BY <1>1, <1>3, <2>1 DEF Quiet
  <2>3. /\ calls'[c] = g /\ \A d \in Call : d # c => calls'[d] = calls[d]
        BY <1>3 DEF ConsoleInv, KindsFit
  <2>4. \A d \in Call : d # c => calls'[d] = Idle
        BY <1>1, <1>2, <2>1, <2>3 DEF Quiet
  <2>5. \A d \in Call : /\ calls'[d].kind # "left"
                        /\ calls'[d] = Idle \/ calls'[d].reply = "lost"
        BY <2>2, <2>3, <2>4, IdleFacts
  <2>6. modal # None => modal.saving \/ modal.ver = None
        BY <1>1, <1>2, <2>1 DEF Quiet
  <2> QED
      BY <1>2, <2>2, <2>3, <2>4, <2>5, <2>6, IdleFacts DEF Quiet, Current
<1> QED
    BY <1>2, <1>4, <1>5, <1>6 DEF ConsoleInv

\* After a write the rows are loaded again, or nothing is known of them.
LEMMA WrittenInv ==
    ASSUME Constants, ConsoleInv, NEW c \in Call, Written(c)
    PROVE  ConsoleInv'
<1>1. PICK m : m = calls[c]
      OBVIOUS
<1> DEFINE loads == Reloads(m) /\ page.load # "form"
           next == Sent(IF m.kind = "save" THEN "reload" ELSE "load", selected)
<1>2. /\ m \in CallRecord /\ m # Idle /\ m.kind \in {"save", "toggle", "remove"}
      /\ m.reply # "none" /\ UNCHANGED <<page, selected, server, fresh, overwritten>>
      BY <1>1, IdleFacts DEF Written, ConsoleInv, KindsFit
<1>3. /\ calls' = [calls EXCEPT ![c] = IF loads THEN next ELSE Idle]
      /\ loading' = (loading \/ loads)
      /\ modal' = (IF m.kind = "save" /\ ~loads THEN FormSaved(m) ELSE modal)
      /\ shown' = (IF page.load = "form" /\ m.reply = "ok"
                   THEN [view |-> m.view, ver |-> m.ver] ELSE shown)
      /\ doubt' = (doubt \/ (m.kind # "toggle" /\ m.reply = "lost"))
      BY <1>1 DEF Written
<1>4. /\ page \in Routes /\ m.view \in View /\ m.reply \in {"ok", "lost"}
      /\ m.reply = "ok" => m.ver \in Versions
      BY <1>1, <1>2 DEF ConsoleInv, TypeOK, CallRecord, KindsFit
<1>5. /\ selected \in View /\ page.ops # {} /\ page.load # "poll"
  <2>1. selected # None /\ page.ops # {}
        BY <1>1, <1>2 DEF ConsoleInv, KindsFit
  <2> QED
      BY <1>4, <2>1, RouteFacts DEF ConsoleInv, TypeOK
<1>6. PICK g \in CallRecord \cup {Idle} :
        /\ calls' = [calls EXCEPT ![c] = g]
        /\ \/ loads /\ g # Idle /\ g.kind \in {"load", "reload"} /\ g.reply = "none"
           \/ ~loads /\ g = Idle
  <2>1. CASE ~loads
        BY <1>3, <2>1
  <2>2. CASE loads
    <3>1. PICK v \in View, k \in {"load", "reload"} :
            /\ k = IF m.kind = "save" THEN "reload" ELSE "load"
            /\ v = selected
          BY <1>5
    <3>2. PICK a : a = Sent(k, v)
          OBVIOUS
    <3>4. a \in CallRecord /\ a.kind = k /\ a.view = v /\ a.reply = "none"
          BY <3>2, SentFits DEF Versions, Constants
    <3>5. calls' = [calls EXCEPT ![c] = a]
          BY <1>3, <2>2, <3>1, <3>2
    <3> QED
        BY <2>2, <3>4, <3>5, IdleFacts
  <2> QED
      BY <2>1, <2>2
<1>7. /\ calls' \in [Call -> CallRecord \cup {Idle}]
      /\ calls'[c] = g /\ \A d \in Call : d # c => calls'[d] = calls[d]
      BY <1>6, OneCall DEF ConsoleInv, KindsFit
<1> HIDE DEF next
<1>12. modal \in FormRecord \cup {None}
       BY DEF ConsoleInv, TypeOK, FormRecord
<1>13. /\ FormSaved(m) \in FormRecord \cup {None}
       /\ FormSaved(m) = None <=> modal = None
       /\ modal # None /\ m.reply = "ok" =>
              \/ FormSaved(m).ver = None
              \/ FormSaved(m).view = m.view /\ FormSaved(m).ver = m.ver
  <2>1. CASE modal = None
        BY <2>1 DEF FormSaved
  <2>2. CASE modal # None /\ m.reply = "ok" /\ modal.ver # None
    <3>1. FormSaved(m) = [view |-> m.view, ver |-> m.ver, saving |-> FALSE]
          BY <2>2 DEF FormSaved
    <3>2. FormSaved(m) \in FormRecord
          BY <1>4, <1>12, <2>2, <3>1 DEF FormRecord
    <3>3. FormSaved(m).view = m.view /\ FormSaved(m).ver = m.ver
          BY <3>1
    <3>4. FormSaved(m) # None
          BY <3>2, NoneNoForm
    <3> QED
        BY <2>2, <3>2, <3>3, <3>4
  <2>3. CASE modal # None /\ ~(m.reply = "ok" /\ modal.ver # None)
    <3>1. FormSaved(m) = [modal EXCEPT !.saving = FALSE]
          BY <2>3 DEF FormSaved
    <3>2. FormSaved(m) \in FormRecord /\ FormSaved(m).ver = modal.ver
          BY <1>12, <2>3, <3>1 DEF FormRecord
    <3> QED
        BY <2>3, <3>2, NoneNoForm
  <2> QED
      BY <2>1, <2>2, <2>3
<1>8. KindsFit'
  <2>1. loads => page.load # "form"
        OBVIOUS
  <2>2. ASSUME NEW d \in Call
        PROVE  /\ page.load = "form" => calls'[d].kind \in {"idle", "load", "save", "left"}
               /\ calls'[d].reply = "ok" => calls'[d].ver \in Versions
    <3>1. CASE d = c
          BY <1>6, <1>7, <2>1, <3>1, IdleFacts
    <3>2. CASE d # c
          BY <1>7, <3>2 DEF ConsoleInv, KindsFit
    <3> QED
        BY <3>1, <3>2
  <2>3. /\ modal' # None => modal # None
        /\ page.load = "form" => modal' # None
        BY <1>3, <1>13 DEF ConsoleInv, KindsFit
  <2>4. selected # None
        BY <1>5 DEF Constants
  <2> QED
      BY <1>2, <1>5, <1>7, <2>2, <2>3, <2>4 DEF ConsoleInv, KindsFit
<1>9. TypeOK'
  <2>1. /\ modal \in FormRecord \cup {None}
        /\ shown \in [view : View, ver : Versions] \cup {None}
        /\ loading \in BOOLEAN /\ doubt \in BOOLEAN
        BY DEF ConsoleInv, TypeOK, FormRecord
  <2>2. modal' \in FormRecord \cup {None}
        BY <1>3, <1>13, <2>1
  <2>3. shown' \in [view : View, ver : Versions] \cup {None}
        BY <1>3, <1>4, <2>1
  <2>4. loading' \in BOOLEAN /\ doubt' \in BOOLEAN
        BY <1>3, <2>1
  <2> QED
      BY <1>2, <2>2, <2>3, <2>4 DEF ConsoleInv, TypeOK, FormRecord
<1>10. ShowsSelected' /\ NoBlindWrite'
       BY <1>2, <1>5 DEF ConsoleInv, ShowsSelected, NoBlindWrite
<1>11. page'.ops # {} /\ ~doubt' => Quiet'
  <2>1. SUFFICES ASSUME ~doubt'
                 PROVE  Quiet'
        OBVIOUS
  <2>2. Quiet /\ ~(m.kind # "toggle" /\ m.reply = "lost")
        BY <1>3, <1>5, <2>1 DEF ConsoleInv
  <2>3. \A d \in Call : d # c => calls'[d] = Idle
        BY <1>1, <1>2, <1>7, <2>2 DEF Quiet
  <2>4. modal # None => modal.saving \/ modal.ver = None
        BY <1>1, <1>2, <2>2 DEF Quiet
  <2>5. CASE loads
    <3>1. /\ g # Idle /\ g.kind \in {"load", "reload"} /\ g.reply = "none"
          BY <1>6, <2>5
    <3>2. \A d \in Call : calls'[d].kind \in {"idle", "load", "reload"}
                          /\ calls'[d].reply = "none"
          BY <1>7, <2>3, <3>1, IdleFacts
    <3>3. modal' = modal
          BY <1>3, <2>5
    <3> QED
        BY <1>7, <2>3, <2>4, <3>1, <3>2, <3>3 DEF Quiet
  <2>6. CASE ~loads
    <3>1. \A d \in Call : calls'[d] = Idle
          BY <1>6, <1>7, <2>3, <2>6
    <3>2. page.load = "form"
          BY <1>4, <2>2, <2>6 DEF Reloads
    <3>3. m.kind = "save"
          BY <1>1, <1>2, <3>2 DEF ConsoleInv, KindsFit
    <3>4. page.load = "form" /\ m.reply = "ok"
          BY <1>4, <2>2, <3>2, <3>3
    <3>5. m.ver = server[m.view]
          BY <1>1, <2>2, <3>4, <3>3 DEF Quiet, Current
    <3>6. modal' = FormSaved(m) /\ modal # None
          BY <1>3, <2>6, <3>2, <3>3 DEF ConsoleInv, KindsFit
    <3>7. modal'.ver = None \/ modal'.ver = server'[modal'.view]
          BY <1>2, <1>13, <3>4, <3>5, <3>6
    <3>8. page'.load = "form"
          BY <1>2, <3>2
    <3> QED
        BY <3>1, <3>7, <3>8, IdleFacts DEF Quiet, Current
  <2> QED
      BY <2>5, <2>6
<1> QED
    BY <1>8, <1>9, <1>10, <1>11 DEF ConsoleInv

-----------------------------------------------------------------------------
LEMMA ConsoleInit == ASSUME Constants, Init PROVE ConsoleInv
<1>1. /\ page = Dashboard /\ selected = Whole /\ shown = None /\ loading = TRUE
      /\ modal = None /\ server = [v \in View |-> 0]
      /\ fresh = FALSE /\ doubt = FALSE /\ overwritten = {}
      BY DEF Init
<1>2. Dashboard \in Routes /\ page.ops = {} /\ page.load = "poll"
      BY <1>1 DEF Routes, Dashboard, Page
<1>3. PICK v \in View : v = Whole /\ v # None
      BY WholeView
<1>4. PICK g : g = Sent("load", v)
      OBVIOUS
<1>5. g \in CallRecord /\ g.kind = "load" /\ g.view = v /\ g.reply = "none"
      BY <1>4, SentFits DEF Versions, Constants
<1>6. PICK c \in Call : calls = [d \in Call |-> IF d = c THEN g ELSE Idle]
      BY <1>3, <1>4 DEF Init
<1>7. /\ calls \in [Call -> CallRecord \cup {Idle}]
      /\ \A d \in Call : \/ calls[d].kind = "idle"
                         \/ calls[d].kind = "load" /\ calls[d].view = selected
      /\ \A d \in Call : calls[d].reply = "none"
      BY <1>1, <1>3, <1>5, <1>6, IdleFacts
<1>8. KindsFit
      BY <1>1, <1>2, <1>3, <1>7 DEF KindsFit
<1>9. TypeOK
  <2>1. server \in [View -> Versions] /\ page \in Routes
        BY <1>1, <1>2 DEF Versions, Constants
  <2>2. {fresh, doubt} \subseteq BOOLEAN /\ overwritten \subseteq {"blank", "stale"}
        BY <1>1
  <2> QED
      BY <1>1, <1>3, <2>1, <2>2 DEF TypeOK
<1> QED
    BY <1>1, <1>2, <1>8, <1>9 DEF ConsoleInv, ShowsSelected, NoBlindWrite

LEMMA ConsoleStutters == ASSUME ConsoleInv, UNCHANGED vars PROVE ConsoleInv'
<1>1. UNCHANGED <<page, selected, shown, loading, modal, calls, server, fresh, doubt,
                  overwritten>>
      BY DEF vars, screen, history
<1>2. TypeOK' /\ KindsFit' /\ ShowsSelected' /\ NoBlindWrite'
      BY <1>1 DEF ConsoleInv, TypeOK, KindsFit, ShowsSelected, NoBlindWrite
<1>3. Quiet => Quiet'
      BY <1>1 DEF Quiet, Current
<1> QED
    BY <1>1, <1>2, <1>3 DEF ConsoleInv

LEMMA ConsoleStep == ASSUME Constants, ConsoleInv, [Next]_vars PROVE ConsoleInv'
<1>1. CASE UNCHANGED vars
      BY <1>1, ConsoleStutters
<1>2. ASSUME NEW c \in Call, Tick(c) \/ Save(c) \/ Toggle(c) \/ Remove(c)
      PROVE  ConsoleInv'
      BY <1>2, TickInv, SaveInv, RowInv
<1>3. ASSUME NEW c \in Call, Handle(c) \/ Lose(c) \/ Loaded(c) \/ Written(c)
      PROVE  ConsoleInv'
      BY <1>3, HandleInv, LoseInv, LoadedInv, WrittenInv
<1>4. ASSUME NEW c \in Call, NEW p \in Routes, Navigate(p, c)
      PROVE  ConsoleInv'
      BY <1>4, NavigateInv
<1>5. ASSUME NEW c \in Call, NEW v \in View, Select(v, c)
      PROVE  ConsoleInv'
      BY <1>5, SelectInv
<1>6. CASE OpenEdit \/ Close
      BY <1>6, OpenEditInv, CloseInv
<1>7. ASSUME NEW v \in View, Change(v)
      PROVE  ConsoleInv'
      BY <1>7, ChangeInv
<1> QED
    BY <1>1, <1>2, <1>3, <1>4, <1>5, <1>6, <1>7 DEF Next

LEMMA ConsoleHolds == ASSUME Constants PROVE Spec => []ConsoleInv
BY ConsoleInit, ConsoleStep, PTL DEF Spec
=============================================================================
