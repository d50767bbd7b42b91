------------------------------ MODULE Workspace ------------------------------
(***************************************************************************)
(* The windows of the desktop application and the panels in them           *)
(* (midas-app: app.rs, app/handlers.rs, layout/mod.rs).  Every handler of  *)
(* MidasApp::update is one action; the operating system, which opens a     *)
(* window when it likes or not at all, the watchdog for windows that do    *)
(* not open, and the pipelines behind session charts run beside it.        *)
(*                                                                         *)
(* A layout is the set of what its panes hold: which pane was split, and   *)
(* which pane has the focus, is left open.  A panel "other" is a           *)
(* watchlist, an order panel or an account panel; the handlers treat them  *)
(* alike.  Closing the main window ends the program and is left out.       *)
(***************************************************************************)
EXTENDS Naturals, FiniteSets, FiniteSetsExt, Functions

CONSTANTS
  \* The names are 1..MaxName, 1 is "Main"; at most MaxOpen windows are
  \* opened and MaxPanel panels are made in a behaviour.
  MaxName, MaxOpen, MaxPanel,
  \* Are windows renamed?  May the system take longer than the five seconds
  \* of WINDOW_ATTACH_TIMEOUT_SECS to open one?  The kinds of panels used.
  Renames, Stalls, Kinds

\* What an instance of this module gives its constants.
Assumptions ==
  /\ MaxName \in Nat \ {0} /\ MaxOpen \in Nat /\ MaxPanel \in Nat \ {0}
  /\ Renames \in BOOLEAN /\ Stalls \in BOOLEAN
  /\ Kinds \subseteq {"chart", "other", "session"}

Names == 1 .. MaxName
Ids == 0 .. MaxOpen
None == MaxOpen + 1
Panels == [kind : {"chart", "other", "session"}, id : 1 .. MaxPanel]
Placeholder == [kind |-> "none", id |-> 0]

VARIABLES
  windows,   \* the open windows by name: is it main, its iced id, its panes
  main,      \* main_window_key
  focused,   \* focused_window, a name or 0
  keyOf,     \* iced_id_to_key
  pending,   \* pending_window_opens: the name, and whether five seconds are over
  failing,   \* the WindowAttachFailed messages on their way
  os,        \* the system's windows: asked, open or closed; has the app been told?
  minted,    \* panel ids handed out
  data,      \* the panels in charts, watchlists, ... and session_chart_panels
  home,      \* panel_to_window
  building,  \* session charts whose pipeline is being built
  arriving,  \* session charts whose pipeline is up, the message on its way
  pumps      \* session charts whose pump task runs

shell == <<windows, main, focused, keyOf, pending, failing, os>>
panels == <<minted, data, home>>
sessions == <<building, arriving, pumps>>
vars == <<shell, panels, sessions>>

Open(k) == k \in DOMAIN windows
Charts(k) == {p \in windows[k].panes \ {Placeholder} : p.kind = "chart"}
Without(f, S) == Restrict(f, DOMAIN f \ S)
With(f, x, y) == [z \in DOMAIN f \cup {x} |-> IF z = x THEN y ELSE f[z]]
NextPanel(kind) == [kind |-> kind, id |-> minted + 1]

(***************************************************************************)
(* What the views assert: an open window the application has a name for    *)
(* has a state, and so has the main window.  When they find otherwise the  *)
(* program panics and nothing follows.                                     *)
(***************************************************************************)
ViewFindsWindow ==
  \A i \in DOMAIN os :
    os[i].is = "open" /\ i \in DOMAIN keyOf /\ keyOf[i] # main => Open(keyOf[i])

Alive == ViewFindsWindow /\ Open(main)

Init ==
  LET first == [kind |-> "chart", id |-> 1]
      second == [kind |-> "chart", id |-> 2]
      mainState == [isMain |-> TRUE, iced |-> 0, panes |-> {first}]
      mainOs == [key |-> 1, is |-> "open", told |-> TRUE]
  IN /\ main = 1 /\ focused = 0 /\ failing = {}
     /\ building = {} /\ arriving = {} /\ pumps = {}
     /\ \/ /\ windows = [k \in {1} |-> mainState]
           /\ keyOf = [i \in {0} |-> 1] /\ pending = [i \in {} |-> 0]
           /\ os = [i \in {0} |-> mainOs]
           /\ minted = 1 /\ data = {first} /\ home = [p \in {first} |-> 1]
        \/ \* a second window is restored from the configuration
           /\ MaxOpen > 0 /\ MaxName > 1 /\ MaxPanel > 1
           /\ windows = [k \in {1, 2} |->
                IF k = 1 THEN mainState
                         ELSE [isMain |-> FALSE, iced |-> None, panes |-> {second}]]
           /\ keyOf = [i \in {0, 1} |-> i + 1]
           /\ pending = [i \in {1} |-> [key |-> 2, old |-> FALSE]]
           /\ os = [i \in {0, 1} |->
                IF i = 0 THEN mainOs
                         ELSE [key |-> 2, is |-> "asked", told |-> FALSE]]
           /\ minted = 2 /\ data = {first, second}
           /\ home = [p \in data |-> p.id]

-----------------------------------------------------------------------------
(* Windows *)

\* window::open for name k, added to the windows ws: the state, the reverse
\* lookup under the id the task will have, and the pending entry.
Opens(ws, k, panes) ==
  LET i == Cardinality(DOMAIN os)
  IN /\ i \in Ids
     /\ windows' = With(ws, k, [isMain |-> FALSE, iced |-> None, panes |-> panes])
     /\ keyOf' = With(keyOf, i, k)
     /\ pending' = With(pending, i, [key |-> k, old |-> FALSE])
     /\ os' = With(os, i, [key |-> k, is |-> "asked", told |-> FALSE])

\* A name that is given must be free; the default is the first that is.
CreateWindow(k) ==
  /\ ~Open(k)
  /\ Opens(windows, k, {Placeholder})
  /\ UNCHANGED <<main, focused, failing, panels, sessions>>

\* Mutant: the chart moves and panel_to_window is not told.
StaysHome(p, k) == home

Moved(p, k) == With(home, p, k)

\* The chart leaves its window, which keeps a placeholder in its last pane.
OpenChartInNewWindow(p, k) ==
  /\ p \in data /\ p.kind = "chart" /\ ~Open(k)
  /\ LET from == IF p \in DOMAIN home THEN home[p] ELSE main
         left == windows[from].panes \ {p}
         rest == IF left = {} THEN {Placeholder} ELSE left
     IN Opens(IF Open(from) THEN [windows EXCEPT ![from].panes = rest] ELSE windows, k, {p})
  /\ home' = Moved(p, k)
  /\ UNCHANGED <<main, focused, failing, minted, data, sessions>>

\* The system opens the window; its open task resolves.
SystemOpens(i) ==
  /\ os[i].is = "asked"
  /\ os' = [os EXCEPT ![i].is = "open"]
  /\ UNCHANGED <<windows, main, focused, keyOf, pending, failing, panels, sessions>>

\* The message carries the name the window was opened under.
WindowAttached(i) ==
  LET k == os[i].key
  IN /\ os[i].is # "asked" /\ ~os[i].told
     /\ os' = [os EXCEPT ![i].told = TRUE]
     /\ pending' = Without(pending, {i})
     /\ windows' = IF Open(k) THEN [windows EXCEPT ![k].iced = i] ELSE windows
     /\ keyOf' = With(keyOf, i, k)
     /\ UNCHANGED <<main, focused, failing, panels, sessions>>

\* Mutant: the disposed window keeps the focus.
KeepsFocus(k) == focused

FocusWithout(k) == IF focused = k THEN 0 ELSE focused

\* dispose_window_state: nothing for a name without a state; otherwise the
\* panels in its layout go with the window.
Dispose(k) ==
  IF ~Open(k)
  THEN UNCHANGED <<windows, focused, keyOf, pending, data, home>>
  ELSE /\ windows' = Without(windows, {k})
       /\ keyOf' = Without(keyOf, {windows[k].iced})
       /\ pending' = Without(pending, {windows[k].iced})
       /\ data' = data \ windows[k].panes
       /\ home' = Without(home, windows[k].panes)
       /\ focused' = FocusWithout(k)

FiveSecondsPass(i) ==
  /\ Stalls /\ i \in DOMAIN pending /\ ~pending[i].old
  /\ pending' = [pending EXCEPT ![i].old = TRUE]
  /\ UNCHANGED <<windows, main, focused, keyOf, failing, os, panels, sessions>>

WindowAttachWatchdog ==
  LET stale == {pending[i].key : i \in {j \in DOMAIN pending : pending[j].old}}
  IN /\ stale # {}
     /\ failing' = failing \cup stale
     /\ UNCHANGED <<windows, main, focused, keyOf, pending, os, panels, sessions>>

WindowAttachFailed(k) ==
  /\ k \in failing
  /\ failing' = failing \ {k}
  /\ Dispose(k)
  /\ UNCHANGED <<main, os, minted, sessions>>

\* A window that is not the main one; the system closes what the handler asks.
WindowCloseRequested(i) ==
  /\ os[i].is = "open" /\ i \in DOMAIN keyOf
  /\ ~(Open(keyOf[i]) /\ windows[keyOf[i]].isMain)
  /\ Dispose(keyOf[i])
  /\ os' = [os EXCEPT ![i].is = "closed"]
  /\ UNCHANGED <<main, failing, minted, sessions>>

\* Also PaneFocused: a click in a pane of the window names it too.
WindowFocused(i) ==
  /\ os[i].is = "open" /\ i \in DOMAIN keyOf
  /\ focused' = keyOf[i]
  /\ UNCHANGED <<windows, main, keyOf, pending, failing, os, panels, sessions>>

WindowUnfocused(i) ==
  /\ os[i].is = "open" /\ i \in DOMAIN keyOf /\ focused = keyOf[i]
  /\ focused' = 0
  /\ UNCHANGED <<windows, main, keyOf, pending, failing, os, panels, sessions>>

MainAfter(from, to) == IF main = from THEN to ELSE main
FocusAfter(from, to) == IF focused = from THEN to ELSE focused
HomesAfter(from, to) == [p \in DOMAIN home |-> IF home[p] = from THEN to ELSE home[p]]

\* Every table follows but pending and the message of the open task; of
\* several ids under the old name, one.
RenameWindow(from, to) ==
  /\ Renames /\ Open(from) /\ ~Open(to)
  /\ windows' = With(Without(windows, {from}), to, windows[from])
  /\ main' = MainAfter(from, to)
  /\ focused' = FocusAfter(from, to)
  /\ LET named == {i \in DOMAIN keyOf : keyOf[i] = from}
     IN IF named = {} THEN keyOf' = keyOf
        ELSE \E i \in named : keyOf' = [keyOf EXCEPT ![i] = to]
  /\ home' = HomesAfter(from, to)
  /\ UNCHANGED <<pending, failing, os, minted, data, sessions>>

-----------------------------------------------------------------------------
(* Panels *)

TargetForAdd == IF focused = 0 THEN main ELSE focused

\* The first panel takes the place of the placeholder, a later one splits.
Seeded(panes, p) == IF panes = {Placeholder} THEN {p} ELSE panes \cup {p}

Adds(k, p) ==
  /\ Open(k)
  /\ windows' = [windows EXCEPT ![k].panes = Seeded(@, p)]
  /\ home' = With(home, p, k)
  /\ minted' = minted + 1
  /\ minted < MaxPanel

\* insert_chart, insert_watchlist and so on.
AddPanel(kind) ==
  /\ Adds(TargetForAdd, NextPanel(kind))
  /\ data' = data \cup {NextPanel(kind)}
  /\ UNCHANGED <<main, focused, keyOf, pending, failing, os, sessions>>

AddChart == AddPanel("chart")
AddWatchlist == AddPanel("other")
AddOrderPanel == AddPanel("other")
AddAccountPanel == AddPanel("other")

\* A split makes a chart, beside a placeholder too.
PaneSplit(k) ==
  LET p == NextPanel("chart")
  IN /\ minted < MaxPanel
     /\ windows' = [windows EXCEPT ![k].panes = @ \cup {p}]
     /\ home' = With(home, p, k)
     /\ data' = data \cup {p}
     /\ minted' = minted + 1
     /\ UNCHANGED <<main, focused, keyOf, pending, failing, os, sessions>>

\* remove_session_chart_panel: from whichever window home names, whose last
\* pane becomes a placeholder.
RemovesSession(p) ==
  /\ windows' =
       IF p \in DOMAIN home /\ Open(home[p]) /\ p \in windows[home[p]].panes
       THEN LET left == windows[home[p]].panes \ {p}
            IN [windows EXCEPT ![home[p]].panes = IF left = {} THEN {Placeholder} ELSE left]
       ELSE windows
  /\ home' = Without(home, {p})
  /\ data' = data \ {p}

\* The last pane is never closed.
MayClose(k) == Cardinality(windows[k].panes) > 1

PaneClose(k, x) ==
  /\ x \in windows[k].panes /\ MayClose(k)
  /\ windows' = [windows EXCEPT ![k].panes = @ \ {x}]
  /\ data' = data \ {x}
  /\ home' = Without(home, {x})
  /\ UNCHANGED <<main, focused, keyOf, pending, failing, os, minted, sessions>>

\* Finds the chart in the main window only.
CloseChart(p) == PaneClose(main, p)

\* A preset keeps one chart, or up to four, makes the others, and drops what
\* home gives the window of the kinds it knows.
Presets == {[keeps |-> 1, makes |-> 1], [keeps |-> 1, makes |-> 2], [keeps |-> 4, makes |-> 4]}

Displaced(k, panes) == {p \in DOMAIN home : home[p] = k /\ p.kind # "session"} \ panes

LayoutPreset(s) ==
  LET k == TargetForAdd
      kept == IF Cardinality(Charts(k)) < s.keeps THEN Cardinality(Charts(k)) ELSE s.keeps
      fresh == {[kind |-> "chart", id |-> minted + n] : n \in 1 .. (s.makes - kept)}
  IN /\ Open(k)
     /\ minted + Cardinality(fresh) <= MaxPanel
     /\ \E keep \in kSubset(kept, Charts(k)) :
          LET new == keep \cup fresh
          IN /\ windows' = [windows EXCEPT ![k].panes = new]
             /\ data' = (data \cup new) \ Displaced(k, new)
             /\ home' = [p \in (DOMAIN home \cup new) \ Displaced(k, new) |->
                           IF p \in new THEN k ELSE home[p]]
     /\ minted' = minted + Cardinality(fresh)
     /\ UNCHANGED <<main, focused, keyOf, pending, failing, os, sessions>>

-----------------------------------------------------------------------------
(* Session charts *)

\* The pane first, the pipeline behind it in a task of its own.
OpenSessionChart ==
  /\ Adds(TargetForAdd, NextPanel("session"))
  /\ building' = building \cup {NextPanel("session")}
  /\ UNCHANGED <<main, focused, keyOf, pending, failing, os, data, arriving, pumps>>

\* The task spawns the driver, whose pump runs at once, and sends it over.
PipelineUp(p) ==
  /\ p \in building
  /\ building' = building \ {p}
  /\ arriving' = arriving \cup {p}
  /\ pumps' = pumps \cup {p}
  /\ UNCHANGED <<shell, panels>>

\* The panel is installed; or its widget cannot be made and the pane closes.
SessionChartPaneReady(p) ==
  /\ p \in arriving
  /\ arriving' = arriving \ {p}
  /\ \/ data' = data \cup {p} /\ UNCHANGED <<windows, home>>
     \/ RemovesSession(p)
  /\ UNCHANGED <<main, focused, keyOf, pending, failing, os, minted, building, pumps>>

SessionChartOpenFailed(p) ==
  /\ p \in building
  /\ building' = building \ {p}
  /\ RemovesSession(p)
  /\ UNCHANGED <<main, focused, keyOf, pending, failing, os, minted, arriving, pumps>>

-----------------------------------------------------------------------------

Next ==
  /\ Alive
  /\ \/ \E k \in Names : \/ CreateWindow(k)
                         \/ WindowAttachFailed(k)
                         \/ \E p \in data : OpenChartInNewWindow(p, k)
                         \/ \E to \in Names : RenameWindow(k, to)
     \/ \E i \in DOMAIN os : \/ SystemOpens(i)
                             \/ WindowAttached(i)
                             \/ FiveSecondsPass(i)
                             \/ WindowCloseRequested(i)
                             \/ WindowFocused(i)
                             \/ WindowUnfocused(i)
     \/ WindowAttachWatchdog
     \/ "chart" \in Kinds /\ (AddChart \/ \E k \in DOMAIN windows : PaneSplit(k))
     \/ "other" \in Kinds /\ (AddWatchlist \/ AddOrderPanel \/ AddAccountPanel)
     \/ \E k \in DOMAIN windows : \E x \in windows[k].panes : PaneClose(k, x)
     \/ \E p \in Charts(main) : CloseChart(p)
     \/ \E s \in Presets : LayoutPreset(s)
     \/ "session" \in Kinds /\ OpenSessionChart
     \/ \E p \in building : PipelineUp(p) \/ SessionChartOpenFailed(p)
     \/ \E p \in arriving : SessionChartPaneReady(p)

Spec == Init /\ [][Next]_vars

-----------------------------------------------------------------------------
(* Properties *)

\* The types: every window has a pane, the tables are over names, window ids
\* and panels.
TypeOK ==
  /\ DOMAIN windows \subseteq Names /\ \A k \in DOMAIN windows :
       /\ windows[k].isMain \in BOOLEAN /\ windows[k].iced \in Ids \cup {None}
       /\ windows[k].panes # {} /\ windows[k].panes \subseteq Panels \cup {Placeholder}
  /\ main \in Names /\ focused \in Names \cup {0} /\ failing \subseteq Names
  /\ DOMAIN os \subseteq Ids
  /\ \A i \in DOMAIN os : os[i] \in
       [key : Names, is : {"asked", "open", "closed"}, told : BOOLEAN]
  /\ DOMAIN keyOf \subseteq DOMAIN os /\ Range(keyOf) \subseteq Names
  /\ DOMAIN pending \subseteq DOMAIN os
  /\ \A i \in DOMAIN pending : pending[i] \in [key : Names, old : BOOLEAN]
  /\ minted \in 1 .. MaxPanel /\ data \subseteq Panels
  /\ DOMAIN home \subseteq Panels /\ Range(home) \subseteq Names
  /\ building \cup arriving \cup pumps \subseteq Panels

PlacesOf(p) == {k \in DOMAIN windows : p \in windows[k].panes}

\* panel_to_window says where every chart, watchlist, order and account panel
\* is: exactly the panels with data have a window, and stand in its layout
\* and in no other, whatever was opened, moved, renamed, given a preset or
\* given up meanwhile (insert_chart, remove_chart and their like).
PanelsAreLinked ==
  \A p \in data \cup DOMAIN home \cup UNION {windows[k].panes : k \in DOMAIN windows} :
    p.kind \in {"none", "session"} \/
      (p \in data /\ p \in DOMAIN home /\ PlacesOf(p) = {home[p]})

\* The window an added panel or a preset goes to exists: the expect of
\* LayoutPreset never fires and no added panel is silently dropped, whichever
\* windows failed or were closed while they had the focus.
TargetPresent == Open(TargetForAdd)

\* A session chart's pane stands in the window home names, and while it shows
\* "Loading" a pipeline is on its way: no pane waits for one that failed.
LoadingEnds ==
  \A k \in DOMAIN windows : \A p \in windows[k].panes \ {Placeholder} :
    p.kind = "session" =>
      /\ p \in DOMAIN home /\ home[p] = k
      /\ p \in data \cup building \cup arriving

\* There is one main window and main_window_key names it: "main window must
\* always exist in windows map" (workspace_mut).
MainExists == {k \in DOMAIN windows : windows[k].isMain} = {main}

\* "WindowKey 1:1 iced window Id": a window with an id is the one the reverse
\* lookup gives for it, and an id whose open task was handled leads to the
\* window that has it.
KeysAndIdsAgree ==
  /\ \A k \in DOMAIN windows : windows[k].iced # None =>
       windows[k].iced \in DOMAIN keyOf /\ keyOf[windows[k].iced] = k
  /\ \A i \in DOMAIN keyOf : os[i].told =>
       Open(keyOf[i]) /\ windows[keyOf[i]].iced = i

\* The watchdog gives up windows that did not open, never one that is open
\* and attached ("no spurious eviction").
EvictsOnlyUnopened ==
  [][\A k \in failing \ failing' : Open(k) => windows[k].iced = None]_vars

\* "PanelId 1:1 WindowKey": a panel that has a home stands in the layout of
\* that window (LayoutPreset, for session charts).
SessionsArePlaced ==
  \A p \in DOMAIN home : p.kind = "session" => PlacesOf(p) = {home[p]}

\* "PanelId 1:1 panel data": a session chart with data has a window
\* (SessionChartPaneReady, when the pane was closed before).
SessionsAreHomed == \A p \in data : p.kind = "session" => p \in DOMAIN home

\* The pump of a session chart runs only while its driver lives, in the panel
\* or in the message that brings it (the drop of SessionChartDriver).
PumpsStop == pumps \subseteq data \cup arriving

=============================================================================
