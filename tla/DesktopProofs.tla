--------------------------- MODULE DesktopProofs ---------------------------
(***************************************************************************)
(* What the desktop application keeps: its windows, for any number of them *)
(* and of panels, with or without renames and a system that opens windows  *)
(* late; its order desk, for any number of clicks and symbols; and the     *)
(* bars of its session charts, for every ring, buffer and series of ticks. *)
(***************************************************************************)
EXTENDS Desktop, WellFoundedInduction, FiniteSetTheorems, SequenceTheorems, TLAPS

-----------------------------------------------------------------------------
(* The invariant of the windows *)

PaneSets == {P \in SUBSET (Panels \cup {Placeholder}) : P # {} /\ IsFiniteSet(P)}
WindowState == [isMain : BOOLEAN, iced : Ids \cup {None}, panes : PaneSets]
OsWindow == [key : Names, is : {"asked", "open", "closed"}, told : BOOLEAN]
PendingOpen == [key : Names, old : BOOLEAN]

WindowsTyped ==
  /\ windows \in [DOMAIN windows -> WindowState] /\ DOMAIN windows \subseteq Names
  /\ main \in Names /\ focused \in Names \cup {0} /\ failing \subseteq Names
  /\ os \in [DOMAIN os -> OsWindow] /\ DOMAIN os \subseteq Ids
  /\ keyOf \in [DOMAIN keyOf -> Names] /\ DOMAIN keyOf \subseteq DOMAIN os
  /\ pending \in [DOMAIN pending -> PendingOpen] /\ DOMAIN pending \subseteq DOMAIN os

PanelsTyped ==
  /\ minted \in 1 .. MaxPanel
  /\ data \subseteq Panels
  /\ home \in [DOMAIN home -> Names] /\ DOMAIN home \subseteq Panels
  /\ building \cup arriving \cup pumps \subseteq {p \in Panels : p.kind = "session"}

\* Panel p stands in the layout of window k.
In(p, k) == k \in DOMAIN windows /\ p \in windows[k].panes

\* Some table has the panel.
Seen(p) ==
  \/ p \in data \/ p \in DOMAIN home \/ p \in building \/ p \in arriving \/ p \in pumps
  \/ \E k : In(p, k)

\* Data, home and layout of a panel agree, once one of them knows it.
Linked(p) ==
  p \in data \/ p \in DOMAIN home \/ (\E k : In(p, k)) =>
    p \in data /\ p \in DOMAIN home /\ \A k : In(p, k) <=> k = home[p]

\* The pane of a session chart stands where home says, and something comes to it.
Loading(p) ==
  \A k : In(p, k) => /\ p \in DOMAIN home /\ home[p] = k
                     /\ p \in data \/ p \in building \/ p \in arriving

PanelOK(p) ==
  /\ Seen(p) => p.id <= minted
  /\ IF p.kind = "session" THEN Loading(p) ELSE Linked(p)

IInv == WindowsTyped /\ PanelsTyped /\ \A p \in Panels : PanelOK(p)

\* What is given to the main window lasts: nothing is evicted when the system is
\* in time, and the main window is not among the evicted if it keeps its name.
MainSafe ==
  /\ main \in DOMAIN windows /\ windows[main].isMain
  /\ Stalls \/ (failing = {} /\ \A i \in DOMAIN pending : ~pending[i].old)
  /\ Renames \/ (main \notin failing /\ \A i \in DOMAIN pending : pending[i].key # main)

-----------------------------------------------------------------------------
(* Tables and layouts *)

LEMMA WithOf ==
  ASSUME NEW S, NEW f, f \in [DOMAIN f -> S], NEW x, NEW y \in S
  PROVE  /\ DOMAIN With(f, x, y) = DOMAIN f \cup {x}
         /\ With(f, x, y) \in [DOMAIN With(f, x, y) -> S]
         /\ \A z \in DOMAIN f \cup {x} : With(f, x, y)[z] = IF z = x THEN y ELSE f[z]
  BY DEF With

LEMMA WithoutOf ==
  ASSUME NEW S, NEW f, f \in [DOMAIN f -> S], NEW T
  PROVE  /\ DOMAIN Without(f, T) = DOMAIN f \ T
         /\ Without(f, T) \in [DOMAIN Without(f, T) -> S]
         /\ \A z \in DOMAIN f \ T : Without(f, T)[z] = f[z]
  BY DEF Without, Restrict

LEMMA PaneSetsChange ==
  ASSUME NEW P \in PaneSets, NEW p
  PROVE  /\ p \in Panels => P \cup {p} \in PaneSets
         /\ p \in Panels => Seeded(P, p) \in PaneSets
         /\ p \in Panels => {p} \in PaneSets
         /\ {Placeholder} \in PaneSets
         /\ P \ {p} # {} => P \ {p} \in PaneSets
  <1>1. IsFiniteSet(P \cup {p}) /\ IsFiniteSet(P \ {p})
    <2>1. IsFiniteSet(P)
      BY DEF PaneSets
    <2> QED
      BY <2>1, FS_AddElement, FS_RemoveElement, Zenon
  <1>2. IsFiniteSet({p}) /\ IsFiniteSet({Placeholder})
    BY FS_Singleton, Zenon
  <1> QED
    BY <1>1, <1>2 DEF PaneSets, Seeded

\* A layout changes, and nothing else of the windows.
LEMMA PanesSet ==
  ASSUME WindowsTyped, NEW k \in DOMAIN windows, NEW P \in PaneSets,
         windows' = [windows EXCEPT ![k].panes = P]
  PROVE  /\ DOMAIN windows' = DOMAIN windows
         /\ windows' \in [DOMAIN windows' -> WindowState]
         /\ \A j, q : In(q, j)' <=> IF j = k THEN q \in P ELSE In(q, j)
         /\ \A j \in DOMAIN windows : windows'[j].isMain = windows[j].isMain
  <1>1. /\ windows' = [j \in DOMAIN windows |->
                         IF j = k THEN [windows[k] EXCEPT !.panes = P] ELSE windows[j]]
        /\ windows \in [DOMAIN windows -> WindowState]
    BY DEF WindowsTyped
  <1>2. [windows[k] EXCEPT !.panes = P] \in WindowState
    BY <1>1 DEF WindowState
  <1>3. DOMAIN windows' = DOMAIN windows /\ windows' \in [DOMAIN windows' -> WindowState]
    BY <1>1, <1>2
  <1>4. windows'[k].panes = P /\ windows'[k].isMain = windows[k].isMain
    BY <1>1 DEF WindowState
  <1>5. \A j \in DOMAIN windows : j # k => windows'[j] = windows[j]
    BY <1>1
  <1> QED
    BY <1>3, <1>4, <1>5 DEF In

LEMMA WindowAdded ==
  ASSUME NEW ws, ws \in [DOMAIN ws -> WindowState], NEW k, NEW P \in PaneSets,
         windows' = With(ws, k, [isMain |-> FALSE, iced |-> None, panes |-> P])
  PROVE  /\ DOMAIN windows' = DOMAIN ws \cup {k}
         /\ windows' \in [DOMAIN windows' -> WindowState]
         /\ \A j, q : In(q, j)' <=> IF j = k THEN q \in P
                                    ELSE j \in DOMAIN ws /\ q \in ws[j].panes
         /\ \A j \in DOMAIN ws \ {k} : windows'[j] = ws[j]
  <1> DEFINE w == [isMain |-> FALSE, iced |-> None, panes |-> P]
  <1>1. w \in WindowState
    BY DEF WindowState
  <1>2. w.panes = P
    OBVIOUS
  <1> HIDE DEF w
  <1>3. windows' = With(ws, k, w)
    BY DEF w
  <1>4. /\ DOMAIN windows' = DOMAIN ws \cup {k}
        /\ windows' \in [DOMAIN windows' -> WindowState]
        /\ \A j \in DOMAIN ws \cup {k} : windows'[j] = IF j = k THEN w ELSE ws[j]
    BY <1>1, <1>3 DEF With
  <1>5. \A j, q : In(q, j)' <=> IF j = k THEN q \in P
                               ELSE j \in DOMAIN ws /\ q \in ws[j].panes
    BY <1>2, <1>4 DEF In
  <1> QED
    BY <1>4, <1>5

LEMMA WindowGone ==
  ASSUME WindowsTyped, NEW k, windows' = Without(windows, {k})
  PROVE  /\ DOMAIN windows' = DOMAIN windows \ {k}
         /\ windows' \in [DOMAIN windows' -> WindowState]
         /\ \A j, q : In(q, j)' <=> j # k /\ In(q, j)
         /\ \A j \in DOMAIN windows \ {k} : windows'[j] = windows[j]
  <1>1. windows \in [DOMAIN windows -> WindowState]
    BY DEF WindowsTyped
  <1>2. /\ DOMAIN windows' = DOMAIN windows \ {k}
        /\ windows' \in [DOMAIN windows' -> WindowState]
        /\ \A j \in DOMAIN windows \ {k} : windows'[j] = windows[j]
    BY <1>1, WithoutOf
  <1>3. \A j, q : In(q, j)' <=> j # k /\ In(q, j)
    BY <1>2 DEF In
  <1> QED
    BY <1>2, <1>3

-----------------------------------------------------------------------------
(* Steps of the windows *)

LEMMA PanelsSame ==
  ASSUME \A p \in Panels : PanelOK(p), UNCHANGED <<panels, sessions>>,
         \A j, q : q \in Panels => (In(q, j)' <=> In(q, j))
  PROVE  \A p \in Panels : PanelOK(p)'
  <1>1. UNCHANGED <<minted, data, home, building, arriving, pumps>>
    BY DEF panels, sessions
  <1> SUFFICES ASSUME NEW p \in Panels PROVE PanelOK(p)'
    OBVIOUS
  <1>2. PanelOK(p) /\ \A j : In(p, j)' <=> In(p, j)
    OBVIOUS
  <1> QED
    BY <1>1, <1>2 DEF PanelOK, Seen, Linked, Loading

LEMMA NoPlaceholderPanel == Placeholder \notin Panels
  BY DEF Placeholder, Panels

\* Window k is added to the windows ws with the layout P.
Opened(ws, k, P) ==
  /\ DOMAIN windows' = DOMAIN ws \cup {k}
  /\ \A j, q : In(q, j)' <=> IF j = k THEN q \in P
                             ELSE j \in DOMAIN ws /\ q \in ws[j].panes
  /\ \A j \in DOMAIN ws \ {k} : windows'[j] = ws[j]
  /\ \A i \in DOMAIN pending' :
       \/ pending'[i] = [key |-> k, old |-> FALSE]
       \/ i \in DOMAIN pending /\ pending'[i] = pending[i]

LEMMA OpensEffect ==
  ASSUME WindowsTyped, NEW ws, ws \in [DOMAIN ws -> WindowState], DOMAIN ws \subseteq Names,
         NEW k \in Names, NEW P \in PaneSets, Opens(ws, k, P), UNCHANGED <<main, focused, failing>>
  PROVE  WindowsTyped' /\ Opened(ws, k, P)
  <1> DEFINE i == Cardinality(DOMAIN os)
             o == [key |-> k, is |-> "asked", told |-> FALSE]
             w == [key |-> k, old |-> FALSE]
  <1>1. /\ i \in Ids
        /\ windows' = With(ws, k, [isMain |-> FALSE, iced |-> None, panes |-> P])
        /\ keyOf' = With(keyOf, i, k)
        /\ pending' = With(pending, i, w)
        /\ os' = With(os, i, o)
    BY DEF Opens
  <1>2. o \in OsWindow /\ w \in PendingOpen
    BY DEF OsWindow, PendingOpen
  <1> HIDE DEF i, o, w
  <1>3. /\ DOMAIN windows' = DOMAIN ws \cup {k}
        /\ windows' \in [DOMAIN windows' -> WindowState]
        /\ \A j, q : In(q, j)' <=> IF j = k THEN q \in P
                                   ELSE j \in DOMAIN ws /\ q \in ws[j].panes
        /\ \A j \in DOMAIN ws \ {k} : windows'[j] = ws[j]
    BY <1>1, WindowAdded
  <1>4. /\ keyOf' \in [DOMAIN keyOf' -> Names] /\ DOMAIN keyOf' = DOMAIN keyOf \cup {i}
        /\ pending' \in [DOMAIN pending' -> PendingOpen]
        /\ DOMAIN pending' = DOMAIN pending \cup {i}
        /\ \A n \in DOMAIN pending' :
             \/ pending'[n] = w
             \/ n \in DOMAIN pending /\ pending'[n] = pending[n]
        /\ os' \in [DOMAIN os' -> OsWindow] /\ DOMAIN os' = DOMAIN os \cup {i}
    BY <1>1, <1>2 DEF With, WindowsTyped
  <1>5. WindowsTyped'
    BY <1>1, <1>3, <1>4 DEF WindowsTyped
  <1> QED
    BY <1>3, <1>4, <1>5 DEF w, Opened

LEMMA CreateWindowOK ==
  ASSUME IInv, NEW k \in Names, CreateWindow(k)
  PROVE  IInv'
  <1>1. WindowsTyped /\ PanelsTyped /\ \A p \in Panels : PanelOK(p)
    BY DEF IInv
  <1>2. {Placeholder} \in PaneSets
    BY FS_Singleton DEF PaneSets
  <1>3. /\ k \notin DOMAIN windows /\ Opens(windows, k, {Placeholder})
        /\ UNCHANGED <<main, focused, failing>> /\ UNCHANGED <<panels, sessions>>
    BY DEF CreateWindow, Open
  <1>4. WindowsTyped' /\ Opened(windows, k, {Placeholder})
    <2>1. windows \in [DOMAIN windows -> WindowState] /\ DOMAIN windows \subseteq Names
      BY <1>1 DEF WindowsTyped
    <2> QED
      BY <1>1, <1>2, <1>3, <2>1, OpensEffect
  <1>5. \A j, q : q \in Panels => (In(q, j)' <=> In(q, j))
    BY <1>3, <1>4, NoPlaceholderPanel DEF In, Opened
  <1>6. PanelsTyped'
    BY <1>1, <1>3 DEF PanelsTyped, panels, sessions
  <1> QED
    BY <1>1, <1>3, <1>4, <1>5, <1>6, PanelsSame DEF IInv

LEMMA OpenChartOK ==
  ASSUME IInv, NEW p \in data, NEW k \in Names, OpenChartInNewWindow(p, k), Open(main)
  PROVE  IInv'
  <1>1. WindowsTyped /\ PanelsTyped /\ \A q \in Panels : PanelOK(q)
    BY DEF IInv
  <1>2. p \in Panels /\ p.kind = "chart" /\ k \notin DOMAIN windows
    BY <1>1 DEF OpenChartInNewWindow, PanelsTyped, Open
  <1>3. p \in DOMAIN home /\ \A j : In(p, j) <=> j = home[p]
    BY <1>1, <1>2 DEF PanelOK, Linked
  <1> DEFINE from == home[p]
             left == windows[from].panes \ {p}
             rest == IF left = {} THEN {Placeholder} ELSE left
             ws == [windows EXCEPT ![from].panes = rest]
  <1>4. from \in DOMAIN windows /\ from # k
    BY <1>2, <1>3 DEF In
  <1>5. /\ Opens(ws, k, {p}) /\ home' = With(home, p, k)
        /\ UNCHANGED <<main, focused, failing>>
        /\ UNCHANGED <<minted, data, building, arriving, pumps>>
    BY <1>3, <1>4 DEF OpenChartInNewWindow, Open, Moved, sessions
  <1>6. rest \in PaneSets /\ {p} \in PaneSets
    <2>1. windows[from].panes \in PaneSets
      BY <1>1, <1>4 DEF WindowsTyped, WindowState
    <2> QED
      BY <2>1, <1>2, PaneSetsChange
  <1>7. \A q \in Panels : q \in rest <=> q \in windows[from].panes /\ q # p
    BY NoPlaceholderPanel
  <1> HIDE DEF left, rest
  <1>8. /\ DOMAIN ws = DOMAIN windows /\ ws \in [DOMAIN ws -> WindowState]
        /\ \A j \in DOMAIN windows : ws[j].panes = IF j = from THEN rest ELSE windows[j].panes
    <2>1. /\ ws = [j \in DOMAIN windows |->
                     IF j = from THEN [windows[from] EXCEPT !.panes = rest] ELSE windows[j]]
          /\ windows \in [DOMAIN windows -> WindowState]
      BY <1>1 DEF WindowsTyped
    <2>2. /\ [windows[from] EXCEPT !.panes = rest] \in WindowState
          /\ [windows[from] EXCEPT !.panes = rest].panes = rest
      BY <2>1, <1>4, <1>6 DEF WindowState
    <2> QED
      BY <2>1, <2>2
  <1> HIDE DEF ws
  <1>9. WindowsTyped' /\ Opened(ws, k, {p})
    <2>1. DOMAIN ws \subseteq Names
      BY <1>1, <1>8 DEF WindowsTyped
    <2> QED
      BY <1>1, <1>5, <1>6, <1>8, <2>1, OpensEffect
  <1>10. \A j : In(p, j)' <=> j = k
    BY <1>2, <1>3, <1>7, <1>8, <1>9 DEF In, Opened
  <1>11. \A j, q : q \in Panels /\ q # p => (In(q, j)' <=> In(q, j))
    BY <1>2, <1>3, <1>7, <1>8, <1>9 DEF In, Opened
  <1> HIDE DEF from
  <1>12. /\ DOMAIN home' = DOMAIN home /\ home' \in [DOMAIN home' -> Names]
         /\ home'[p] = k /\ \A q \in DOMAIN home : q # p => home'[q] = home[q]
    BY <1>1, <1>3, <1>5 DEF With, PanelsTyped
  <1>13. PanelsTyped'
    BY <1>1, <1>5, <1>12 DEF PanelsTyped
  <1>14. ASSUME NEW q \in Panels PROVE PanelOK(q)'
    <2>1. CASE q = p
      BY <2>1, <1>1, <1>2, <1>3, <1>5, <1>10, <1>12 DEF PanelOK, Seen, Linked
    <2>2. CASE q # p
      <3>1. PanelOK(q) /\ \A j : In(q, j)' <=> In(q, j)
        BY <2>2, <1>1, <1>11
      <3>2. /\ q \in DOMAIN home' <=> q \in DOMAIN home
            /\ q \in DOMAIN home => home'[q] = home[q]
        BY <2>2, <1>12
      <3> QED
        BY <3>1, <3>2, <1>5 DEF PanelOK, Seen, Linked, Loading
    <2> QED
      BY <2>1, <2>2
  <1> QED
    BY <1>9, <1>13, <1>14 DEF IInv

\* The system, the watchdog and the focus: the panels stay where they are.
LEMMA ShellOK ==
  ASSUME IInv,
         \/ \E i \in DOMAIN os : \/ SystemOpens(i) \/ WindowAttached(i) \/ FiveSecondsPass(i)
                                 \/ WindowFocused(i) \/ WindowUnfocused(i)
         \/ WindowAttachWatchdog
  PROVE  IInv'
  <1>1. WindowsTyped /\ PanelsTyped /\ \A p \in Panels : PanelOK(p)
    BY DEF IInv
  <1>2. /\ UNCHANGED <<panels, sessions>>
        /\ DOMAIN windows' = DOMAIN windows /\ windows' \in [DOMAIN windows' -> WindowState]
        /\ \A j \in DOMAIN windows : windows'[j].panes = windows[j].panes
    <2>1. ASSUME NEW i \in DOMAIN os, WindowAttached(i)
          PROVE  /\ DOMAIN windows' = DOMAIN windows
                 /\ windows' \in [DOMAIN windows' -> WindowState]
                 /\ \A j \in DOMAIN windows : windows'[j].panes = windows[j].panes
      <3> DEFINE k == os[i].key
      <3>1. windows' = IF k \in DOMAIN windows THEN [windows EXCEPT ![k].iced = i] ELSE windows
        BY <2>1 DEF WindowAttached, Open
      <3>2. i \in Ids /\ windows \in [DOMAIN windows -> WindowState]
        BY <1>1 DEF WindowsTyped
      <3> HIDE DEF k
      <3>3. k \in DOMAIN windows => /\ [windows[k] EXCEPT !.iced = i] \in WindowState
                                    /\ [windows[k] EXCEPT !.iced = i].panes = windows[k].panes
        BY <3>2 DEF WindowState
      <3>4. windows' = IF k \in DOMAIN windows
                       THEN [j \in DOMAIN windows |->
                               IF j = k THEN [windows[k] EXCEPT !.iced = i] ELSE windows[j]]
                       ELSE windows
        BY <3>1, <3>2
      <3> QED
        BY <3>2, <3>3, <3>4
    <2> QED
      BY <1>1, <2>1
      DEF SystemOpens, FiveSecondsPass, WindowFocused, WindowUnfocused,
          WindowAttachWatchdog, WindowAttached, WindowsTyped
  <1>3. \A j, q : In(q, j)' <=> In(q, j)
    BY <1>2 DEF In
  <1>4. WindowsTyped'
    <2>1. ASSUME NEW i \in DOMAIN os, SystemOpens(i) PROVE WindowsTyped'
      <3>1. os' \in [DOMAIN os -> OsWindow]
        BY <1>1, <2>1 DEF SystemOpens, WindowsTyped, OsWindow
      <3> QED
        BY <1>1, <1>2, <2>1, <3>1 DEF SystemOpens, WindowsTyped
    <2>2. ASSUME NEW i \in DOMAIN os, WindowAttached(i) PROVE WindowsTyped'
      <3>1. os' \in [DOMAIN os -> OsWindow] /\ os[i].key \in Names
        BY <1>1, <2>2 DEF WindowAttached, WindowsTyped, OsWindow
      <3>2. /\ pending' \in [DOMAIN pending' -> PendingOpen] /\ DOMAIN pending' \subseteq DOMAIN os
            /\ keyOf' \in [DOMAIN keyOf' -> Names] /\ DOMAIN keyOf' \subseteq DOMAIN os
        BY <1>1, <2>2, <3>1 DEF WindowAttached, WindowsTyped, With, Without, Restrict
      <3> QED
        BY <1>1, <1>2, <2>2, <3>1, <3>2 DEF WindowAttached, WindowsTyped
    <2>3. ASSUME NEW i \in DOMAIN os, FiveSecondsPass(i) PROVE WindowsTyped'
      <3>1. pending' \in [DOMAIN pending -> PendingOpen]
        BY <1>1, <2>3 DEF FiveSecondsPass, WindowsTyped, PendingOpen
      <3> QED
        BY <1>1, <1>2, <2>3, <3>1 DEF FiveSecondsPass, WindowsTyped
    <2>4. ASSUME NEW i \in DOMAIN os, WindowFocused(i) \/ WindowUnfocused(i)
          PROVE  WindowsTyped'
      BY <1>1, <1>2, <2>4 DEF WindowFocused, WindowUnfocused, WindowsTyped
    <2>5. ASSUME WindowAttachWatchdog PROVE WindowsTyped'
      <3>1. \A i \in DOMAIN pending : pending[i].key \in Names
        BY <1>1 DEF WindowsTyped, PendingOpen
      <3> QED
        BY <1>1, <1>2, <2>5, <3>1 DEF WindowAttachWatchdog, WindowsTyped
    <2> QED
      BY <2>1, <2>2, <2>3, <2>4, <2>5
  <1>5. PanelsTyped'
    BY <1>1, <1>2 DEF PanelsTyped, panels, sessions
  <1> QED
    BY <1>1, <1>2, <1>3, <1>4, <1>5, PanelsSame DEF IInv

\* dispose_window_state: the panels of the window go with it.
LEMMA DisposeOK ==
  ASSUME IInv, NEW k \in Names, Dispose(k), UNCHANGED <<main, minted, sessions>>,
         failing' \subseteq failing, os' \in [DOMAIN os -> OsWindow], Open(main)
  PROVE  IInv'
  <1>1. WindowsTyped /\ PanelsTyped /\ \A p \in Panels : PanelOK(p)
    BY DEF IInv
  <1>2. UNCHANGED <<minted, building, arriving, pumps>> /\ DOMAIN os' = DOMAIN os
    BY DEF sessions
  <1>3. CASE k \notin DOMAIN windows
    <2>1. UNCHANGED <<windows, focused, keyOf, pending, data, home>>
      BY <1>3 DEF Dispose, Open
    <2>2. \A j, q : In(q, j)' <=> In(q, j)
      BY <2>1 DEF In
    <2>3. WindowsTyped' /\ PanelsTyped'
      BY <1>1, <1>2, <2>1 DEF WindowsTyped, PanelsTyped
    <2>4. UNCHANGED <<panels, sessions>>
      BY <2>1 DEF panels
    <2> QED
      BY <1>1, <2>2, <2>3, <2>4, PanelsSame DEF IInv
  <1>4. CASE k \in DOMAIN windows
    <2> DEFINE gone == windows[k].panes
    <2>1. /\ windows' = Without(windows, {k})
          /\ keyOf' = Without(keyOf, {windows[k].iced})
          /\ pending' = Without(pending, {windows[k].iced})
          /\ data' = data \ gone
          /\ home' = Without(home, gone)
          /\ focused' = FocusWithout(k)
      BY <1>4 DEF Dispose, Open
    <2> HIDE DEF gone
    <2>2. /\ DOMAIN windows' = DOMAIN windows \ {k}
          /\ windows' \in [DOMAIN windows' -> WindowState]
          /\ \A j, q : In(q, j)' <=> j # k /\ In(q, j)
      BY <1>1, <2>1, WindowGone
    <2>3. /\ DOMAIN home' = DOMAIN home \ gone /\ home' \in [DOMAIN home' -> Names]
          /\ \A p \in DOMAIN home \ gone : home'[p] = home[p]
      BY <1>1, <2>1 DEF PanelsTyped, Without, Restrict
    <2>4. WindowsTyped'
      <3>1. /\ keyOf' \in [DOMAIN keyOf' -> Names] /\ DOMAIN keyOf' \subseteq DOMAIN os
            /\ pending' \in [DOMAIN pending' -> PendingOpen] /\ DOMAIN pending' \subseteq DOMAIN os
        BY <1>1, <2>1 DEF WindowsTyped, Without, Restrict
      <3> QED
        BY <1>1, <1>2, <2>1, <2>2, <3>1 DEF WindowsTyped, FocusWithout
    <2>5. PanelsTyped'
      BY <1>1, <1>2, <2>1, <2>3 DEF PanelsTyped
    <2>6. ASSUME NEW p \in Panels PROVE PanelOK(p)'
      <3>1. PanelOK(p) /\ (p \in gone <=> In(p, k))
        BY <1>1, <1>4 DEF In, gone
      <3>2. \A j : In(p, j)' <=> j # k /\ In(p, j)
        BY <2>2
      <3>3. /\ p \in DOMAIN home' <=> p \in DOMAIN home /\ ~In(p, k)
            /\ p \in DOMAIN home' => home'[p] = home[p]
            /\ p \in data' <=> p \in data /\ ~In(p, k)
        BY <2>1, <2>3, <3>1
      <3>4. (Seen(p) => p.id <= minted)'
        BY <1>2, <3>1, <3>2, <3>3 DEF PanelOK, Seen
      <3>5. CASE p.kind = "session"
        <4>1. Loading(p)
          BY <3>1, <3>5 DEF PanelOK
        <4>2. Loading(p)'
          BY <4>1, <1>2, <3>2, <3>3 DEF Loading
        <4> QED
          BY <4>2, <3>4, <3>5 DEF PanelOK
      <3>6. CASE p.kind # "session"
        <4>1. Linked(p)
          BY <3>1, <3>6 DEF PanelOK
        <4>2. Linked(p)'
          BY <4>1, <3>2, <3>3 DEF Linked
        <4> QED
          BY <4>2, <3>4, <3>6 DEF PanelOK
      <3> QED
        BY <3>5, <3>6
    <2> QED
      BY <2>4, <2>5, <2>6 DEF IInv
  <1> QED
    BY <1>3, <1>4

\* Every table follows a rename.
LEMMA RenameWindowOK ==
  ASSUME IInv, NEW from \in Names, NEW to \in Names, RenameWindow(from, to)
  PROVE  IInv'
  <1>1. WindowsTyped /\ PanelsTyped /\ \A p \in Panels : PanelOK(p)
    BY DEF IInv
  <1>2. from \in DOMAIN windows /\ to \notin DOMAIN windows /\ from # to
    BY DEF RenameWindow, Open
  <1>3. /\ windows' = With(Without(windows, {from}), to, windows[from])
        /\ home' = HomesAfter(from, to)
        /\ main' = MainAfter(from, to) /\ focused' = FocusAfter(from, to)
        /\ UNCHANGED <<pending, failing, os, minted, data, building, arriving, pumps>>
    BY DEF RenameWindow, sessions
  <1>4. /\ DOMAIN windows' = (DOMAIN windows \ {from}) \cup {to}
        /\ windows' \in [DOMAIN windows' -> WindowState]
        /\ windows'[to] = windows[from]
        /\ \A j \in DOMAIN windows \ {from} : windows'[j] = windows[j]
    BY <1>1, <1>2, <1>3 DEF With, Without, Restrict, WindowsTyped
  <1>5. \A j, q : In(q, j)' <=> IF j = to THEN In(q, from) ELSE j # from /\ In(q, j)
    BY <1>2, <1>4 DEF In
  <1>6. /\ DOMAIN home' = DOMAIN home /\ home' \in [DOMAIN home' -> Names]
        /\ \A p \in DOMAIN home : home'[p] = IF home[p] = from THEN to ELSE home[p]
    BY <1>1, <1>3 DEF HomesAfter, PanelsTyped
  <1>7. keyOf' \in [DOMAIN keyOf' -> Names] /\ DOMAIN keyOf' = DOMAIN keyOf
    BY <1>1 DEF RenameWindow, WindowsTyped
  <1>8. WindowsTyped'
    BY <1>1, <1>3, <1>4, <1>7 DEF WindowsTyped, MainAfter, FocusAfter
  <1>9. PanelsTyped'
    BY <1>1, <1>3, <1>6 DEF PanelsTyped
  <1>10. ASSUME NEW p \in Panels PROVE PanelOK(p)'
    <2>1. /\ PanelOK(p) /\ ~In(p, to)
          /\ \A j : In(p, j)' <=> IF j = to THEN In(p, from) ELSE j # from /\ In(p, j)
      BY <1>1, <1>2, <1>5 DEF In
    <2>2. (Seen(p) => p.id <= minted)'
      BY <2>1, <1>3, <1>6 DEF PanelOK, Seen
    <2>3. CASE p.kind = "session"
      BY <2>1, <2>2, <2>3, <1>3, <1>6 DEF PanelOK, Loading
    <2>4. CASE p.kind # "session"
      <3>1. Linked(p)
        BY <2>1, <2>4 DEF PanelOK
      <3>2. Linked(p)'
        BY <3>1, <2>1, <1>2, <1>3, <1>6 DEF Linked
      <3> QED
        BY <3>2, <2>2, <2>4 DEF PanelOK
    <2> QED
      BY <2>3, <2>4
  <1> QED
    BY <1>8, <1>9, <1>10 DEF IInv

-----------------------------------------------------------------------------
(* Steps of the panels *)

\* A new panel is put into a window.
LEMMA PanelAdded ==
  ASSUME IInv, NEW k \in DOMAIN windows, NEW kind \in {"chart", "other", "session"},
         NEW p, p = NextPanel(kind), minted < MaxPanel, MaxPanel \in Nat,
         NEW P \in PaneSets, windows' = [windows EXCEPT ![k].panes = P],
         \A q \in Panels : q \in P <=> q \in windows[k].panes \/ q = p,
         home' = With(home, p, k), minted' = minted + 1,
         IF kind = "session" THEN building' = building \cup {p} /\ UNCHANGED data
         ELSE data' = data \cup {p} /\ UNCHANGED building,
         UNCHANGED <<main, focused, keyOf, pending, failing, os, arriving, pumps>>
  PROVE  IInv'
  <1>1. WindowsTyped /\ PanelsTyped /\ \A q \in Panels : PanelOK(q)
    BY DEF IInv
  <1>2. /\ DOMAIN windows' = DOMAIN windows
        /\ windows' \in [DOMAIN windows' -> WindowState]
        /\ \A j, q : In(q, j)' <=> IF j = k THEN q \in P ELSE In(q, j)
    BY <1>1, PanesSet
  <1>3. k \in Names /\ minted \in Nat /\ minted + 1 \in 1 .. MaxPanel
    BY <1>1 DEF WindowsTyped, PanelsTyped
  <1>4. p \in Panels /\ p.kind = kind /\ p.id = minted + 1
    BY <1>3 DEF NextPanel, Panels
  <1>5. ~Seen(p)
    <2>1. Seen(p) => p.id <= minted
      BY <1>1, <1>4 DEF PanelOK
    <2> QED
      BY <2>1, <1>3, <1>4
  <1>6. /\ DOMAIN home' = DOMAIN home \cup {p} /\ home' \in [DOMAIN home' -> Names]
        /\ home'[p] = k /\ \A q \in DOMAIN home : q # p => home'[q] = home[q]
    BY <1>1, <1>3 DEF With, PanelsTyped
  <1>7. WindowsTyped'
    BY <1>1, <1>2 DEF WindowsTyped
  <1>8. PanelsTyped'
    BY <1>1, <1>3, <1>4, <1>6 DEF PanelsTyped
  <1>9. ASSUME NEW q \in Panels PROVE PanelOK(q)'
    <2>1. CASE q = p
      <3>1. \A j : In(p, j)' <=> j = k
        BY <1>2, <1>4, <1>5 DEF Seen
      <3>2. (Seen(p) => p.id <= minted)'
        BY <1>3, <1>4
      <3>3. (IF p.kind = "session" THEN Loading(p) ELSE Linked(p))'
        BY <3>1, <1>4, <1>6 DEF Loading, Linked
      <3> QED
        BY <2>1, <3>2, <3>3 DEF PanelOK
    <2>2. CASE q # p
      <3>1. PanelOK(q) /\ \A j : In(q, j)' <=> In(q, j)
        BY <2>2, <1>1, <1>2 DEF In
      <3>2. /\ q \in DOMAIN home' <=> q \in DOMAIN home
            /\ q \in DOMAIN home => home'[q] = home[q]
            /\ q \in data' <=> q \in data
            /\ q \in building' <=> q \in building
        BY <2>2, <1>6
      <3>3. Seen(q)' => Seen(q)
        BY <3>1, <3>2 DEF Seen
      <3>4. (Seen(q) => q.id <= minted)'
        BY <3>1, <3>3, <1>3 DEF PanelOK, Panels
      <3>5. (IF q.kind = "session" THEN Loading(q) ELSE Linked(q))'
        BY <3>1, <3>2 DEF PanelOK, Loading, Linked
      <3> QED
        BY <3>4, <3>5 DEF PanelOK
    <2> QED
      BY <2>1, <2>2
  <1> QED
    BY <1>7, <1>8, <1>9 DEF IInv

LEMMA AddPanelOK ==
  ASSUME IInv, MaxPanel \in Nat, NEW kind \in {"chart", "other"}, AddPanel(kind)
  PROVE  IInv'
  <1> DEFINE k == TargetForAdd
             p == NextPanel(kind)
             P == Seeded(windows[k].panes, p)
  <1>1. /\ k \in DOMAIN windows /\ minted < MaxPanel /\ minted' = minted + 1
        /\ windows' = [windows EXCEPT ![k].panes = P]
        /\ home' = With(home, p, k) /\ data' = data \cup {p}
        /\ UNCHANGED <<main, focused, keyOf, pending, failing, os, building, arriving, pumps>>
    BY DEF AddPanel, Adds, Open, sessions
  <1>2. p \in Panels /\ windows[k].panes \in PaneSets
    BY <1>1 DEF IInv, WindowsTyped, PanelsTyped, WindowState, NextPanel, Panels
  <1>3. P \in PaneSets
    BY <1>2, PaneSetsChange
  <1>4. \A q \in Panels : q \in P <=> q \in windows[k].panes \/ q = p
    BY NoPlaceholderPanel DEF Seeded
  <1> HIDE DEF k, P
  <1> QED
    BY <1>1, <1>3, <1>4, PanelAdded

LEMMA OpenSessionChartOK ==
  ASSUME IInv, MaxPanel \in Nat, OpenSessionChart
  PROVE  IInv'
  <1> DEFINE k == TargetForAdd
             p == NextPanel("session")
             P == Seeded(windows[k].panes, p)
  <1>1. /\ k \in DOMAIN windows /\ minted < MaxPanel /\ minted' = minted + 1
        /\ windows' = [windows EXCEPT ![k].panes = P]
        /\ home' = With(home, p, k) /\ building' = building \cup {p}
        /\ UNCHANGED <<main, focused, keyOf, pending, failing, os, data, arriving, pumps>>
    BY DEF OpenSessionChart, Adds, Open
  <1>2. p \in Panels /\ windows[k].panes \in PaneSets
    BY <1>1 DEF IInv, WindowsTyped, PanelsTyped, WindowState, NextPanel, Panels
  <1>3. P \in PaneSets
    BY <1>2, PaneSetsChange
  <1>4. \A q \in Panels : q \in P <=> q \in windows[k].panes \/ q = p
    BY NoPlaceholderPanel DEF Seeded
  <1> HIDE DEF k, P
  <1> QED
    BY <1>1, <1>3, <1>4, PanelAdded

LEMMA PaneSplitOK ==
  ASSUME IInv, MaxPanel \in Nat, NEW k \in DOMAIN windows, PaneSplit(k)
  PROVE  IInv'
  <1> DEFINE p == NextPanel("chart")
             P == windows[k].panes \cup {p}
  <1>1. /\ minted < MaxPanel /\ minted' = minted + 1
        /\ windows' = [windows EXCEPT ![k].panes = P]
        /\ home' = With(home, p, k) /\ data' = data \cup {p}
        /\ UNCHANGED <<main, focused, keyOf, pending, failing, os, building, arriving, pumps>>
    BY DEF PaneSplit, sessions
  <1>2. p \in Panels /\ windows[k].panes \in PaneSets
    BY <1>1 DEF IInv, WindowsTyped, PanelsTyped, WindowState, NextPanel, Panels
  <1>3. P \in PaneSets
    BY <1>2, PaneSetsChange
  <1>4. \A q \in Panels : q \in P <=> q \in windows[k].panes \/ q = p
    OBVIOUS
  <1> HIDE DEF P
  <1> QED
    BY <1>1, <1>3, <1>4, PanelAdded

\* A panel leaves its layout and the tables.
LEMMA PanelRemoved ==
  ASSUME IInv, NEW p \in Panels, WindowsTyped',
         \A j, q : q \in Panels => (In(q, j)' <=> q # p /\ In(q, j)),
         home' = Without(home, {p}), data' = data \ {p}, UNCHANGED <<minted, pumps>>,
         building' \cup {p} = building \cup {p}, building' \subseteq building,
         arriving' \cup {p} = arriving \cup {p}, arriving' \subseteq arriving
  PROVE  IInv'
  <1>1. WindowsTyped /\ PanelsTyped /\ \A q \in Panels : PanelOK(q)
    BY DEF IInv
  <1>2. /\ DOMAIN home' = DOMAIN home \ {p} /\ home' \in [DOMAIN home' -> Names]
        /\ \A q \in DOMAIN home \ {p} : home'[q] = home[q]
    BY <1>1 DEF PanelsTyped, Without, Restrict
  <1>3. PanelsTyped'
    BY <1>1, <1>2 DEF PanelsTyped
  <1>4. ASSUME NEW q \in Panels PROVE PanelOK(q)'
    <2>1. PanelOK(q) /\ \A j : In(q, j)' <=> q # p /\ In(q, j)
      BY <1>1
    <2>2. /\ q \in DOMAIN home' <=> q \in DOMAIN home /\ q # p
          /\ q \in DOMAIN home' => home'[q] = home[q]
          /\ q \in data' <=> q \in data /\ q # p
          /\ q # p => (q \in building' <=> q \in building) /\ (q \in arriving' <=> q \in arriving)
      BY <1>2
    <2>3. (Seen(q) => q.id <= minted)'
      BY <2>1, <2>2 DEF PanelOK, Seen
    <2>4. (IF q.kind = "session" THEN Loading(q) ELSE Linked(q))'
      BY <2>1, <2>2 DEF PanelOK, Loading, Linked
    <2> QED
      BY <2>3, <2>4 DEF PanelOK
  <1> QED
    BY <1>3, <1>4 DEF IInv

LEMMA PaneCloseOK ==
  ASSUME IInv, NEW k \in DOMAIN windows, NEW x \in windows[k].panes, PaneClose(k, x)
  PROVE  IInv'
  <1> DEFINE P == windows[k].panes \ {x}
  <1>1. WindowsTyped /\ PanelsTyped /\ \A q \in Panels : PanelOK(q)
    BY DEF IInv
  <1>2. /\ windows' = [windows EXCEPT ![k].panes = P]
        /\ data' = data \ {x} /\ home' = Without(home, {x})
        /\ UNCHANGED <<main, focused, keyOf, pending, failing, os, minted>>
        /\ UNCHANGED <<building, arriving, pumps>>
        /\ Cardinality(windows[k].panes) > 1
    BY DEF PaneClose, MayClose, sessions
  <1>3. windows[k].panes \in PaneSets
    BY <1>1 DEF WindowsTyped, WindowState
  <1>4. P \in PaneSets
    <2>1. P # {}
      <3> SUFFICES ASSUME P = {} PROVE FALSE
        OBVIOUS
      <3>1. windows[k].panes = {x}
        OBVIOUS
      <3>2. Cardinality({x}) = 1
        BY FS_Singleton, Zenon
      <3> QED
        BY <1>2, <3>1, <3>2
    <2> QED
      BY <1>3, <2>1, PaneSetsChange
  <1> HIDE DEF P
  <1>5. /\ DOMAIN windows' = DOMAIN windows
        /\ windows' \in [DOMAIN windows' -> WindowState]
        /\ \A j, q : In(q, j)' <=> IF j = k THEN q \in P ELSE In(q, j)
    BY <1>1, <1>2, <1>4, PanesSet
  <1>6. WindowsTyped'
    BY <1>1, <1>2, <1>5 DEF WindowsTyped
  <1>7. x \in Panels \/ x = Placeholder
    BY <1>3 DEF PaneSets
  <1>8. CASE x \in Panels
    <2>1. \A j : In(x, j) => j = k
      <3>1. In(x, k) /\ PanelOK(x)
        BY <1>1, <1>8 DEF In
      <3> QED
        BY <3>1 DEF PanelOK, Loading, Linked
    <2>2. \A j, q : q \in Panels => (In(q, j)' <=> q # x /\ In(q, j))
      BY <1>5, <2>1 DEF In, P
    <2> QED
      BY <1>2, <1>6, <1>8, <2>2, PanelRemoved
  <1>9. CASE x = Placeholder
    <2>1. x \notin Panels
      BY <1>9, NoPlaceholderPanel
    <2>2. UNCHANGED <<panels, sessions>>
      <3>1. home' = home
        BY <1>1, <1>2, <2>1 DEF PanelsTyped, Without, Restrict
      <3>2. data' = data
        BY <1>1, <1>2, <2>1 DEF PanelsTyped
      <3> QED
        BY <1>2, <3>1, <3>2 DEF panels, sessions
    <2>3. \A j, q : q \in Panels => (In(q, j)' <=> In(q, j))
      BY <1>5, <2>1 DEF In, P
    <2>4. PanelsTyped'
      BY <1>1, <2>2 DEF PanelsTyped, panels, sessions
    <2> QED
      BY <1>1, <1>6, <2>2, <2>3, <2>4, PanelsSame DEF IInv
  <1> QED
    BY <1>7, <1>8, <1>9

LEMMA RemovesSessionOK ==
  ASSUME IInv, NEW p \in Panels, p.kind = "session", RemovesSession(p),
         UNCHANGED <<main, focused, keyOf, pending, failing, os, minted, pumps>>,
         building' \cup {p} = building \cup {p}, building' \subseteq building,
         arriving' \cup {p} = arriving \cup {p}, arriving' \subseteq arriving
  PROVE  IInv'
  <1>1. WindowsTyped /\ PanelsTyped /\ \A q \in Panels : PanelOK(q)
    BY DEF IInv
  <1>2. \A j : In(p, j) => p \in DOMAIN home /\ home[p] = j
    BY <1>1 DEF PanelOK, Loading
  <1>3. /\ WindowsTyped'
        /\ \A j, q : q \in Panels => (In(q, j)' <=> q # p /\ In(q, j))
    <2>1. CASE p \in DOMAIN home /\ In(p, home[p])
      <3> DEFINE k == home[p]
                 left == windows[k].panes \ {p}
                 rest == IF left = {} THEN {Placeholder} ELSE left
      <3>1. k \in DOMAIN windows /\ windows' = [windows EXCEPT ![k].panes = rest]
        BY <2>1 DEF RemovesSession, In, Open
      <3>2. rest \in PaneSets
        <4>1. windows[k].panes \in PaneSets
          BY <1>1, <3>1 DEF WindowsTyped, WindowState
        <4> QED
          BY <4>1, PaneSetsChange
      <3>3. \A q \in Panels : q \in rest <=> q \in windows[k].panes /\ q # p
        BY NoPlaceholderPanel
      <3> HIDE DEF rest
      <3>4. /\ DOMAIN windows' = DOMAIN windows
            /\ windows' \in [DOMAIN windows' -> WindowState]
            /\ \A j, q : In(q, j)' <=> IF j = k THEN q \in rest ELSE In(q, j)
        BY <1>1, <3>1, <3>2, PanesSet
      <3>5. \A j, q : q \in Panels => (In(q, j)' <=> q # p /\ In(q, j))
        BY <1>2, <3>1, <3>3, <3>4 DEF In
      <3>6. WindowsTyped'
        BY <1>1, <3>4 DEF WindowsTyped
      <3> QED
        BY <3>5, <3>6
    <2>2. CASE ~(p \in DOMAIN home /\ In(p, home[p]))
      <3>1. windows' = windows
        BY <2>2 DEF RemovesSession, In, Open
      <3>2. \A j : ~In(p, j)
        BY <1>2, <2>2
      <3>3. \A j, q : q \in Panels => (In(q, j)' <=> q # p /\ In(q, j))
        BY <3>1, <3>2 DEF In
      <3>4. WindowsTyped'
        BY <1>1, <3>1 DEF WindowsTyped
      <3> QED
        BY <3>3, <3>4
    <2> QED
      BY <2>1, <2>2
  <1>4. home' = Without(home, {p}) /\ data' = data \ {p}
    BY DEF RemovesSession
  <1> QED
    BY <1>3, <1>4, PanelRemoved

\* The charts a preset makes are as many as it says, all new.
LEMMA FreshCharts ==
  ASSUME NEW m \in Nat, NEW n \in Nat
  PROVE  LET fresh == {[kind |-> "chart", id |-> m + i] : i \in 1 .. n}
         IN IsFiniteSet(fresh) /\ Cardinality(fresh) = n
  <1> DEFINE fresh == {[kind |-> "chart", id |-> m + i] : i \in 1 .. n}
             f == [i \in 1 .. n |-> [kind |-> "chart", id |-> m + i]]
  <1>1. f \in Bijection(1 .. n, fresh)
    <2>1. f \in [1 .. n -> fresh]
      OBVIOUS
    <2>2. \A a, b \in 1 .. n : f[a] = f[b] => a = b
      <3> SUFFICES ASSUME NEW a \in 1 .. n, NEW b \in 1 .. n, f[a] = f[b] PROVE a = b
        OBVIOUS
      <3>1. f[a].id = m + a /\ f[b].id = m + b
        OBVIOUS
      <3> QED
        BY <3>1
    <2>3. \A t \in fresh : \E a \in 1 .. n : f[a] = t
      OBVIOUS
    <2> QED
      BY <2>1, <2>2, <2>3 DEF Bijection, Injection, Surjection, IsInjective
  <1>2. ExistsBijection(1 .. n, fresh)
    BY <1>1 DEF ExistsBijection
  <1>3. IsFiniteSet(1 .. n) /\ Cardinality(1 .. n) = n
    BY FS_Interval
  <1> HIDE DEF fresh
  <1>4. IsFiniteSet(fresh) /\ Cardinality(fresh) = n
    BY <1>2, <1>3, FS_Bijection, Zenon
  <1> QED
    BY <1>4 DEF fresh

\* The layout a preset leaves: some charts of the window, and the new ones.
LEMMA PresetLayout ==
  ASSUME IInv, MaxPanel \in Nat, NEW s \in Presets, LayoutPreset(s)
  PROVE  LET k == TargetForAdd
         IN \E keep \in SUBSET Charts(k), n \in Nat :
              LET fresh == {[kind |-> "chart", id |-> minted + i] : i \in 1 .. n}
                  new == keep \cup fresh
              IN /\ k \in DOMAIN windows /\ new \in PaneSets
                 /\ minted' = minted + n /\ minted + n <= MaxPanel
                 /\ windows' = [windows EXCEPT ![k].panes = new]
                 /\ data' = (data \cup new) \ Displaced(k, new)
                 /\ home' = [p \in (DOMAIN home \cup new) \ Displaced(k, new) |->
                               IF p \in new THEN k ELSE home[p]]
  <1> DEFINE k == TargetForAdd
             kept == IF Cardinality(Charts(k)) < s.keeps THEN Cardinality(Charts(k)) ELSE s.keeps
             n == s.makes - kept
             fresh == {[kind |-> "chart", id |-> minted + i] : i \in 1 .. n}
  <1>1. k \in DOMAIN windows /\ minted \in Nat
    BY DEF LayoutPreset, Open, IInv, PanelsTyped
  <1>2. windows[k].panes \in PaneSets
    BY <1>1 DEF IInv, WindowsTyped, WindowState
  <1>3. Charts(k) \subseteq windows[k].panes /\ Charts(k) \subseteq Panels
    BY <1>2 DEF Charts, PaneSets
  <1>4. IsFiniteSet(Charts(k))
    <2>1. IsFiniteSet(windows[k].panes)
      BY <1>2 DEF PaneSets
    <2> QED
      BY <1>3, <2>1, FS_Subset, Zenon
  <1>5. Cardinality(Charts(k)) \in Nat
    BY <1>4, FS_CardinalityType, Zenon
  <1>6. kept \in Nat /\ n \in Nat /\ (kept = 0 => n > 0)
    BY <1>5 DEF Presets
  <1>7. IsFiniteSet(fresh) /\ Cardinality(fresh) = n
    BY <1>1, <1>6, FreshCharts
  <1>8. PICK keep \in kSubset(kept, Charts(k)) :
          LET new == keep \cup fresh
          IN /\ windows' = [windows EXCEPT ![k].panes = new]
             /\ data' = (data \cup new) \ Displaced(k, new)
             /\ home' = [p \in (DOMAIN home \cup new) \ Displaced(k, new) |->
                           IF p \in new THEN k ELSE home[p]]
    BY DEF LayoutPreset
  <1>9. keep \in SUBSET Charts(k) /\ Cardinality(keep) = kept
    BY DEF kSubset
  <1>10. minted' = minted + n /\ minted + n <= MaxPanel
    BY <1>7 DEF LayoutPreset
  <1> DEFINE new == keep \cup fresh
  <1>11. new \in PaneSets
    <2>1. fresh \subseteq Panels
      BY <1>1, <1>6, <1>10 DEF Panels
    <2>2. IsFiniteSet(keep)
      BY <1>4, <1>9, FS_Subset, Zenon
    <2>3. IsFiniteSet(new)
      BY <1>7, <2>2, FS_Union, Zenon
    <2>4. new # {}
      <3>1. CASE kept = 0
        <4>1. 1 \in 1 .. n
          BY <1>6, <3>1
        <4> QED
          BY <4>1
      <3>2. CASE kept # 0
        <4>1. Cardinality({}) = 0
          BY FS_EmptySet, Zenon
        <4> QED
          BY <1>9, <3>2, <4>1
      <3> QED
        BY <3>1, <3>2
    <2> QED
      BY <1>3, <1>9, <2>1, <2>3, <2>4 DEF PaneSets
  <1> HIDE DEF k, kept, n
  <1>12. \E m \in Nat :
           LET fr == {[kind |-> "chart", id |-> minted + i] : i \in 1 .. m}
           IN fr = fresh /\ minted' = minted + m /\ minted + m <= MaxPanel
    BY <1>6, <1>10
  <1> QED
    BY <1>1, <1>6, <1>8, <1>9, <1>10, <1>11 DEF k

LEMMA LayoutPresetOK ==
  ASSUME IInv, MaxPanel \in Nat, NEW s \in Presets, LayoutPreset(s)
  PROVE  IInv'
  <1> DEFINE k == TargetForAdd
  <1>1. PICK keep \in SUBSET Charts(k), n \in Nat :
          LET fresh == {[kind |-> "chart", id |-> minted + i] : i \in 1 .. n}
              new == keep \cup fresh
          IN /\ k \in DOMAIN windows /\ new \in PaneSets
             /\ minted' = minted + n /\ minted + n <= MaxPanel
             /\ windows' = [windows EXCEPT ![k].panes = new]
             /\ data' = (data \cup new) \ Displaced(k, new)
             /\ home' = [p \in (DOMAIN home \cup new) \ Displaced(k, new) |->
                           IF p \in new THEN k ELSE home[p]]
    BY PresetLayout
  <1> DEFINE fresh == {[kind |-> "chart", id |-> minted + i] : i \in 1 .. n}
             new == keep \cup fresh
             shut == Displaced(k, new)
  <1>2. WindowsTyped /\ PanelsTyped /\ \A q \in Panels : PanelOK(q)
    BY DEF IInv
  <1>3. /\ k \in DOMAIN windows /\ new \in PaneSets
        /\ minted' = minted + n /\ minted + n <= MaxPanel
        /\ windows' = [windows EXCEPT ![k].panes = new]
        /\ data' = (data \cup new) \ shut
        /\ home' = [p \in (DOMAIN home \cup new) \ shut |-> IF p \in new THEN k ELSE home[p]]
        /\ UNCHANGED <<main, focused, keyOf, pending, failing, os, building, arriving, pumps>>
    BY <1>1 DEF LayoutPreset, sessions
  <1>4. k \in Names /\ minted \in Nat /\ windows[k].panes \in PaneSets
    BY <1>2, <1>3 DEF WindowsTyped, PanelsTyped, WindowState
  <1>5. \A p \in fresh : p \in Panels /\ p.kind = "chart" /\ p.id > minted /\ p.id <= minted'
    BY <1>3, <1>4 DEF Panels
  <1>6. \A p \in keep : p \in Panels /\ p.kind = "chart" /\ In(p, k)
    BY <1>3, <1>4 DEF Charts, PaneSets, In
  <1>7. \A p \in new : p \in Panels /\ p.kind = "chart"
    BY <1>5, <1>6
  <1>8. \A p : p \in shut <=> p \in DOMAIN home /\ home[p] = k /\ p.kind # "session" /\ p \notin new
    BY DEF Displaced
  <1> HIDE DEF new, shut
  <1>9. /\ DOMAIN windows' = DOMAIN windows
        /\ windows' \in [DOMAIN windows' -> WindowState]
        /\ \A j, q : In(q, j)' <=> IF j = k THEN q \in new ELSE In(q, j)
    BY <1>2, <1>3, PanesSet
  <1>10. WindowsTyped'
    BY <1>2, <1>3, <1>9 DEF WindowsTyped
  <1>11. /\ DOMAIN home' = (DOMAIN home \cup new) \ shut
         /\ \A p \in DOMAIN home' : home'[p] = IF p \in new THEN k ELSE home[p]
    BY <1>3
  <1>12. PanelsTyped'
    <2>1. minted' \in 1 .. MaxPanel
      BY <1>2, <1>3 DEF PanelsTyped
    <2>2. DOMAIN home' \subseteq Panels /\ home' \in [DOMAIN home' -> Names]
      BY <1>2, <1>3, <1>4, <1>7, <1>11 DEF PanelsTyped
    <2> QED
      BY <1>2, <1>3, <1>7, <2>1, <2>2 DEF PanelsTyped
  <1>13. ASSUME NEW p \in Panels PROVE PanelOK(p)'
    <2>1. PanelOK(p) /\ p.id \in Nat /\ minted' >= minted
      BY <1>2, <1>3, <1>4 DEF Panels
    <2>2. CASE p \in new
      <3>1. p \notin shut /\ p.kind = "chart"
        BY <1>7, <1>8, <2>2
      <3>2. \A j : In(p, j) => j = k
        <4>1. CASE p \in keep
          BY <1>6, <2>1, <3>1, <4>1 DEF PanelOK, Linked
        <4>2. CASE p \in fresh
          BY <1>4, <1>5, <2>1, <4>2 DEF PanelOK, Seen
        <4> QED
          BY <2>2, <4>1, <4>2 DEF new
      <3>3. Linked(p)'
        BY <1>3, <1>9, <1>11, <2>2, <3>1, <3>2 DEF Linked
      <3>4. p.id <= minted'
        <4>1. CASE p \in keep
          BY <1>3, <1>4, <1>6, <2>1, <4>1 DEF PanelOK, Seen
        <4>2. CASE p \in fresh
          BY <1>5, <4>2
        <4> QED
          BY <2>2, <4>1, <4>2 DEF new
      <3> QED
        BY <3>1, <3>3, <3>4 DEF PanelOK
    <2>3. CASE p \notin new
      <3>1. \A j : In(p, j)' <=> j # k /\ In(p, j)
        BY <1>9, <2>3
      <3>2. /\ p \in DOMAIN home' <=> p \in DOMAIN home /\ p \notin shut
            /\ p \in DOMAIN home' => home'[p] = home[p]
            /\ p \in data' <=> p \in data /\ p \notin shut
        BY <1>3, <1>11, <2>3
      <3>3. (Seen(p) => p.id <= minted)'
        <4>1. Seen(p)' => Seen(p)
          BY <1>3, <3>1, <3>2 DEF Seen
        <4> QED
          BY <1>3, <1>4, <2>1, <4>1 DEF PanelOK
      <3>4. CASE p.kind = "session"
        <4>1. p \notin shut
          BY <1>8, <3>4
        <4>2. Loading(p)'
          BY <1>3, <2>1, <3>1, <3>2, <3>4, <4>1 DEF PanelOK, Loading
        <4> QED
          BY <3>3, <3>4, <4>2 DEF PanelOK
      <3>5. CASE p.kind # "session"
        <4>1. Linked(p)
          BY <2>1, <3>5 DEF PanelOK
        <4>2. Linked(p)'
          BY <1>8, <2>3, <3>1, <3>2, <3>5, <4>1 DEF Linked
        <4> QED
          BY <3>3, <3>5, <4>2 DEF PanelOK
      <3> QED
        BY <3>4, <3>5
    <2> QED
      BY <2>2, <2>3
  <1> QED
    BY <1>10, <1>12, <1>13 DEF IInv

LEMMA PipelineOK ==
  ASSUME IInv, NEW p \in building, PipelineUp(p)
  PROVE  IInv'
  <1>1. WindowsTyped /\ PanelsTyped /\ \A q \in Panels : PanelOK(q)
    BY DEF IInv
  <1>2. /\ UNCHANGED <<windows, main, focused, keyOf, pending, failing, os, minted, data, home>>
        /\ building' = building \ {p} /\ arriving' = arriving \cup {p} /\ pumps' = pumps \cup {p}
    BY DEF PipelineUp, shell, panels
  <1>3. WindowsTyped'
    BY <1>1, <1>2 DEF WindowsTyped
  <1>4. PanelsTyped'
    BY <1>1, <1>2 DEF PanelsTyped
  <1>5. ASSUME NEW q \in Panels PROVE PanelOK(q)'
    <2>1. PanelOK(q) /\ \A j : In(q, j)' <=> In(q, j)
      BY <1>1, <1>2 DEF In
    <2>2. Seen(q)' => Seen(q)
      BY <1>2, <2>1 DEF Seen
    <2> QED
      BY <1>2, <2>1, <2>2 DEF PanelOK, Loading, Linked
  <1> QED
    BY <1>3, <1>4, <1>5 DEF IInv

LEMMA PaneReadyOK ==
  ASSUME IInv, NEW p \in arriving, SessionChartPaneReady(p)
  PROVE  IInv'
  <1>1. WindowsTyped /\ PanelsTyped /\ \A q \in Panels : PanelOK(q)
    BY DEF IInv
  <1>2. /\ UNCHANGED <<main, focused, keyOf, pending, failing, os, minted, building, pumps>>
        /\ arriving' = arriving \ {p}
    BY DEF SessionChartPaneReady
  <1>3. p \in Panels /\ p.kind = "session"
    BY <1>1 DEF PanelsTyped
  <1>4. CASE RemovesSession(p)
    BY <1>2, <1>3, <1>4, RemovesSessionOK
  <1>5. CASE data' = data \cup {p} /\ UNCHANGED <<windows, home>>
    <2>1. WindowsTyped'
      BY <1>1, <1>2, <1>5 DEF WindowsTyped
    <2>2. PanelsTyped'
      BY <1>1, <1>2, <1>3, <1>5 DEF PanelsTyped
    <2>3. ASSUME NEW q \in Panels PROVE PanelOK(q)'
      <3>1. PanelOK(q) /\ \A j : In(q, j)' <=> In(q, j)
        BY <1>1, <1>5 DEF In
      <3>2. Seen(q)' => Seen(q)
        BY <1>2, <1>5, <3>1 DEF Seen
      <3>3. CASE q.kind = "session"
        <4>1. Loading(q)'
          BY <1>2, <1>5, <3>1, <3>3 DEF PanelOK, Loading
        <4> QED
          BY <1>2, <3>1, <3>2, <3>3, <4>1 DEF PanelOK
      <3>4. CASE q.kind # "session"
        <4>1. q # p
          BY <1>3, <3>4
        <4> QED
          BY <1>2, <1>5, <3>1, <3>2, <3>4, <4>1 DEF PanelOK, Linked
      <3> QED
        BY <3>3, <3>4
    <2> QED
      BY <2>1, <2>2, <2>3 DEF IInv
  <1> QED
    BY <1>4, <1>5 DEF SessionChartPaneReady

LEMMA OpenFailedOK ==
  ASSUME IInv, NEW p \in building, SessionChartOpenFailed(p)
  PROVE  IInv'
  <1>1. p \in Panels /\ p.kind = "session"
    BY DEF IInv, PanelsTyped
  <1> QED
    BY <1>1, RemovesSessionOK DEF SessionChartOpenFailed

-----------------------------------------------------------------------------
(* The theorems *)

LEMMA WindowsInit ==
  ASSUME Assumptions, Init
  PROVE  IInv /\ MainSafe /\ focused = 0
  <1> DEFINE first == [kind |-> "chart", id |-> 1]
             second == [kind |-> "chart", id |-> 2]
             mainState == [isMain |-> TRUE, iced |-> 0, panes |-> {first}]
             other == [isMain |-> FALSE, iced |-> None, panes |-> {second}]
  <1>1. /\ main = 1 /\ focused = 0 /\ failing = {}
        /\ building = {} /\ arriving = {} /\ pumps = {}
        /\ 1 \in Names /\ 0 \in Ids /\ first \in Panels
    BY DEF Assumptions, Init, Names, Ids, Panels
  <1>2. {first} \in PaneSets /\ (second \in Panels => {second} \in PaneSets)
    BY <1>1, FS_Singleton DEF PaneSets
  <1>3. mainState \in WindowState /\ (second \in Panels => other \in WindowState)
    BY <1>1, <1>2 DEF WindowState
  <1>4. CASE /\ windows = [k \in {1} |-> mainState]
             /\ keyOf = [i \in {0} |-> 1] /\ pending = [i \in {} |-> 0]
             /\ os = [i \in {0} |-> [key |-> 1, is |-> "open", told |-> TRUE]]
             /\ minted = 1 /\ data = {first} /\ home = [p \in {first} |-> 1]
    <2>1. WindowsTyped
      BY <1>1, <1>3, <1>4 DEF WindowsTyped, OsWindow
    <2>2. PanelsTyped
      BY <1>1, <1>4 DEF PanelsTyped, Assumptions
    <2>3. \A j, q : In(q, j) <=> j = 1 /\ q = first
      BY <1>4 DEF In
    <2>4. ASSUME NEW p \in Panels PROVE PanelOK(p)
      BY <1>1, <1>4, <2>3 DEF PanelOK, Seen, Linked, Loading
    <2>5. MainSafe
      BY <1>1, <1>4 DEF MainSafe
    <2> QED
      BY <1>1, <2>1, <2>2, <2>4, <2>5 DEF IInv
  <1>5. CASE /\ MaxOpen > 0 /\ MaxName > 1 /\ MaxPanel > 1
             /\ windows = [k \in {1, 2} |-> IF k = 1 THEN mainState ELSE other]
             /\ keyOf = [i \in {0, 1} |-> i + 1]
             /\ pending = [i \in {1} |-> [key |-> 2, old |-> FALSE]]
             /\ os = [i \in {0, 1} |->
                  IF i = 0 THEN [key |-> 1, is |-> "open", told |-> TRUE]
                           ELSE [key |-> 2, is |-> "asked", told |-> FALSE]]
             /\ minted = 2 /\ data = {first, second}
             /\ home = [p \in data |-> p.id]
    <2>1. 2 \in Names /\ 1 \in Ids /\ second \in Panels
      BY <1>5 DEF Assumptions, Names, Ids, Panels
    <2>2. WindowsTyped
      BY <1>1, <1>3, <1>5, <2>1 DEF WindowsTyped, OsWindow, PendingOpen
    <2>3. PanelsTyped
      BY <1>1, <1>5, <2>1 DEF PanelsTyped, Assumptions
    <2>4. \A j, q : In(q, j) <=> (j = 1 /\ q = first) \/ (j = 2 /\ q = second)
      BY <1>5 DEF In
    <2>5. home[first] = 1 /\ home[second] = 2 /\ DOMAIN home = {first, second} /\ first # second
      BY <1>5
    <2>6. ASSUME NEW p \in Panels PROVE PanelOK(p)
      BY <1>1, <1>5, <2>4, <2>5 DEF PanelOK, Seen, Linked, Loading
    <2>7. MainSafe
      BY <1>1, <1>5 DEF MainSafe
    <2> QED
      BY <1>1, <2>2, <2>3, <2>6, <2>7 DEF IInv
  <1> QED
    BY <1>4, <1>5 DEF Init

LEMMA WindowsStep ==
  ASSUME Assumptions, IInv, [Next]_vars
  PROVE  IInv'
  <1> MaxPanel \in Nat
    BY DEF Assumptions
  <1>1. CASE UNCHANGED vars
    <2>1. UNCHANGED <<shell, panels, sessions>>
      BY <1>1 DEF vars
    <2> QED
      BY <2>1 DEF shell, panels, sessions, IInv, WindowsTyped, PanelsTyped, PanelOK,
                  Seen, Linked, Loading, In
  <1>2. CASE Next
    <2>1. Open(main) /\ ViewFindsWindow
      BY <1>2 DEF Next, Alive
    <2>2. ASSUME NEW k \in Names, WindowAttachFailed(k) PROVE IInv'
      <3>1. os' \in [DOMAIN os -> OsWindow]
        BY <2>2 DEF WindowAttachFailed, IInv, WindowsTyped
      <3> QED
        BY <2>1, <2>2, <3>1, DisposeOK DEF WindowAttachFailed
    <2>3. ASSUME NEW i \in DOMAIN os, WindowCloseRequested(i) PROVE IInv'
      <3>1. os' \in [DOMAIN os -> OsWindow] /\ keyOf[i] \in Names
        BY <2>3 DEF WindowCloseRequested, IInv, WindowsTyped, OsWindow
      <3> QED
        BY <2>1, <2>3, <3>1, DisposeOK DEF WindowCloseRequested
    <2>4. ASSUME NEW k \in Names,
                 \/ CreateWindow(k)
                 \/ \E p \in data : OpenChartInNewWindow(p, k)
                 \/ \E to \in Names : RenameWindow(k, to)
          PROVE  IInv'
      BY <2>1, <2>4, CreateWindowOK, OpenChartOK, RenameWindowOK
    <2>5. CASE AddChart \/ AddWatchlist \/ AddOrderPanel \/ AddAccountPanel
      BY <2>5, AddPanelOK DEF AddChart, AddWatchlist, AddOrderPanel, AddAccountPanel
    <2>6. ASSUME NEW p \in Charts(main), CloseChart(p) PROVE IInv'
      <3>1. main \in DOMAIN windows /\ p \in windows[main].panes
        BY <2>1 DEF Open, Charts
      <3> QED
        BY <2>6, <3>1, PaneCloseOK DEF CloseChart
    <2> QED
      BY <1>2, <2>2, <2>3, <2>4, <2>5, <2>6, ShellOK, PaneSplitOK, PaneCloseOK, LayoutPresetOK,
         OpenSessionChartOK, PipelineOK, PaneReadyOK, OpenFailedOK DEF Next
  <1> QED
    BY <1>1, <1>2

LEMMA WindowsAlways == Spec => []IInv
  BY WorkspaceAssumption, WindowsInit, WindowsStep, PTL DEF Spec

\* The tables of windows and panels keep their types: no window is left without
\* a pane, and every name, id and panel is one the program handed out.
THEOREM TypeCorrect == Spec => []TypeOK
  <1>1. IInv => TypeOK
    <2> SUFFICES ASSUME IInv PROVE TypeOK
      OBVIOUS
    <2>1. WindowsTyped /\ PanelsTyped
      BY DEF IInv
    <2>2. \A k \in DOMAIN windows :
            /\ windows[k].isMain \in BOOLEAN /\ windows[k].iced \in Ids \cup {None}
            /\ windows[k].panes # {} /\ windows[k].panes \subseteq Panels \cup {Placeholder}
      BY <2>1 DEF WindowsTyped, WindowState, PaneSets
    <2>3. Range(keyOf) \subseteq Names /\ Range(home) \subseteq Names
      BY <2>1 DEF WindowsTyped, PanelsTyped, Range
    <2> QED
      BY <2>1, <2>2, <2>3 DEF TypeOK, WindowsTyped, PanelsTyped, OsWindow, PendingOpen
  <1> QED
    BY <1>1, WindowsAlways, PTL

\* panel_to_window, the panel tables and the layouts agree about every chart,
\* watchlist, order and account panel, with renames and late windows together.
THEOREM PanelsAlwaysLinked == Spec => []PanelsAreLinked
  <1>1. IInv => PanelsAreLinked
    <2> SUFFICES ASSUME IInv,
                        NEW p \in data \cup DOMAIN home \cup
                                  UNION {windows[k].panes : k \in DOMAIN windows},
                        p.kind \notin {"none", "session"}
                 PROVE  p \in data /\ p \in DOMAIN home /\ PlacesOf(p) = {home[p]}
      BY DEF PanelsAreLinked
    <2>1. WindowsTyped /\ PanelsTyped
      BY DEF IInv
    <2>2. p \in data \/ p \in DOMAIN home \/ \E k : In(p, k)
      BY DEF In
    <2>3. p \in Panels
      <3>1. \A k : In(p, k) => p \in Panels \cup {Placeholder}
        BY <2>1 DEF In, WindowsTyped, WindowState, PaneSets
      <3> QED
        BY <2>1, <2>2, <3>1 DEF PanelsTyped, Placeholder
    <2>4. p \in data /\ p \in DOMAIN home /\ \A k : In(p, k) <=> k = home[p]
      BY <2>2, <2>3 DEF IInv, PanelOK, Linked
    <2>5. PlacesOf(p) = {k \in DOMAIN windows : In(p, k)}
      BY DEF PlacesOf, In
    <2> QED
      BY <2>4, <2>5 DEF In
  <1> QED
    BY <1>1, WindowsAlways, PTL

\* A pane that shows "Loading" stands where panel_to_window says, and its
\* pipeline, or the news that it failed, is on its way.
THEOREM LoadingAlwaysEnds == Spec => []LoadingEnds
  <1>1. IInv => LoadingEnds
    <2> SUFFICES ASSUME IInv, NEW k \in DOMAIN windows,
                        NEW p \in windows[k].panes \ {Placeholder}, p.kind = "session"
                 PROVE  /\ p \in DOMAIN home /\ home[p] = k
                        /\ p \in data \cup building \cup arriving
      BY DEF LoadingEnds
    <2>1. p \in Panels /\ In(p, k)
      BY DEF IInv, WindowsTyped, WindowState, PaneSets, In
    <2> QED
      BY <2>1 DEF IInv, PanelOK, Loading
  <1> QED
    BY <1>1, WindowsAlways, PTL

-----------------------------------------------------------------------------
(* The window that panels are added to *)

Focused == focused = 0 \/ focused \in DOMAIN windows

\* The handlers of panels leave the windows where they are.
PanelMoves ==
  \/ AddChart \/ AddWatchlist \/ AddOrderPanel \/ AddAccountPanel \/ OpenSessionChart
  \/ \E k \in DOMAIN windows : PaneSplit(k) \/ \E x \in windows[k].panes : PaneClose(k, x)
  \/ \E p \in Charts(main) : CloseChart(p)
  \/ \E s \in Presets : LayoutPreset(s)
  \/ \E p \in building : PipelineUp(p) \/ SessionChartOpenFailed(p)
  \/ \E p \in arriving : SessionChartPaneReady(p)

LEMMA PanelsLeaveWindows ==
  ASSUME IInv, PanelMoves
  PROVE  /\ DOMAIN windows' = DOMAIN windows
         /\ \A j \in DOMAIN windows : windows'[j].isMain = windows[j].isMain
         /\ UNCHANGED <<main, focused, failing, pending>>
  <1>1. windows' = windows \/ \E k, P : windows' = [windows EXCEPT ![k].panes = P]
    <2>1. CASE \E k, p : Adds(k, p)
      BY <2>1 DEF Adds
    <2>2. CASE \E k : PaneSplit(k) \/ \E x : PaneClose(k, x)
      BY <2>2 DEF PaneSplit, PaneClose
    <2>3. CASE \E s : LayoutPreset(s)
      BY <2>3 DEF LayoutPreset
    <2>4. CASE \E p : RemovesSession(p)
      BY <2>4 DEF RemovesSession
    <2>5. CASE windows' = windows
      BY <2>5
    <2> QED
      BY <2>1, <2>2, <2>3, <2>4, <2>5
      DEF PanelMoves, AddChart, AddWatchlist, AddOrderPanel, AddAccountPanel, AddPanel,
          OpenSessionChart, CloseChart, PipelineUp, shell, SessionChartOpenFailed,
          SessionChartPaneReady
  <1>2. /\ DOMAIN windows' = DOMAIN windows
        /\ \A j \in DOMAIN windows : windows'[j].isMain = windows[j].isMain
    <2>1. windows \in [DOMAIN windows -> WindowState]
      BY DEF IInv, WindowsTyped
    <2>2. ASSUME NEW k, NEW P, windows' = [windows EXCEPT ![k].panes = P]
          PROVE  /\ DOMAIN windows' = DOMAIN windows
                 /\ \A j \in DOMAIN windows : windows'[j].isMain = windows[j].isMain
      BY <2>1, <2>2 DEF WindowState
    <2> QED
      BY <1>1, <2>2
  <1>3. UNCHANGED <<main, focused, failing, pending>>
    BY DEF PanelMoves, AddChart, AddWatchlist, AddOrderPanel, AddAccountPanel, AddPanel,
           OpenSessionChart, CloseChart, PipelineUp, shell, SessionChartOpenFailed,
           SessionChartPaneReady, PaneSplit, PaneClose, LayoutPreset
  <1> QED
    BY <1>2, <1>3

\* A window that is opened leaves those that are there.
LEMMA OpeningKeepsWindows ==
  ASSUME IInv, NEW k \in Names, CreateWindow(k) \/ \E p \in data : OpenChartInNewWindow(p, k)
  PROVE  /\ k \notin DOMAIN windows /\ DOMAIN windows' = DOMAIN windows \cup {k}
         /\ \A j \in DOMAIN windows : windows'[j].isMain = windows[j].isMain
         /\ \A i \in DOMAIN pending' :
              \/ pending'[i] = [key |-> k, old |-> FALSE]
              \/ i \in DOMAIN pending /\ pending'[i] = pending[i]
         /\ UNCHANGED <<main, focused, failing>>
  <1>1. windows \in [DOMAIN windows -> WindowState]
    BY DEF IInv, WindowsTyped
  <1>2. PICK ws, P :
          /\ Opens(ws, k, P) /\ DOMAIN ws = DOMAIN windows
          /\ \A j \in DOMAIN windows : ws[j].isMain = windows[j].isMain
    <2>1. CASE CreateWindow(k)
      BY <2>1 DEF CreateWindow
    <2>2. CASE \E p \in data : OpenChartInNewWindow(p, k)
      <3>1. PICK p \in data : OpenChartInNewWindow(p, k)
        BY <2>2
      <3>2. PICK ws, P : /\ Opens(ws, k, P)
                         /\ ws = windows \/ \E j, R : ws = [windows EXCEPT ![j].panes = R]
        BY <3>1 DEF OpenChartInNewWindow
      <3>3. ASSUME NEW j, NEW R, ws = [windows EXCEPT ![j].panes = R]
            PROVE  /\ DOMAIN ws = DOMAIN windows
                   /\ \A n \in DOMAIN windows : ws[n].isMain = windows[n].isMain
        BY <1>1, <3>3 DEF WindowState
      <3> QED
        BY <3>2, <3>3
    <2> QED
      BY <2>1, <2>2
  <1>3. k \notin DOMAIN windows /\ UNCHANGED <<main, focused, failing>>
    BY DEF CreateWindow, OpenChartInNewWindow, Open
  <1>4. /\ DOMAIN windows' = DOMAIN ws \cup {k}
        /\ \A j \in DOMAIN ws : j # k => windows'[j] = ws[j]
    BY <1>2 DEF Opens, With
  <1>5. \A i \in DOMAIN pending' :
          \/ pending'[i] = [key |-> k, old |-> FALSE]
          \/ i \in DOMAIN pending /\ pending'[i] = pending[i]
    BY <1>2 DEF Opens, With
  <1> QED
    BY <1>2, <1>3, <1>4, <1>5

LEMMA FocusedStep ==
  ASSUME IInv, Focused, [Next]_vars
  PROVE  Focused'
  <1>1. CASE UNCHANGED vars
    BY <1>1 DEF vars, shell, Focused
  <1>2. CASE Next
    <2>1. Open(main) /\ ViewFindsWindow
      BY <1>2 DEF Next, Alive
    <2>2. CASE PanelMoves
      BY <2>2, PanelsLeaveWindows DEF Focused
    <2>3. ASSUME NEW k \in Names, CreateWindow(k) \/ \E p \in data : OpenChartInNewWindow(p, k)
          PROVE  Focused'
      BY <2>3, OpeningKeepsWindows DEF Focused
    <2>4. ASSUME NEW k, Dispose(k) PROVE Focused'
      BY <2>4 DEF Dispose, Focused, FocusWithout, Open, Without, Restrict
    <2>5. ASSUME NEW k \in Names, NEW to \in Names, RenameWindow(k, to) PROVE Focused'
      BY <2>5 DEF RenameWindow, Focused, FocusAfter, With, Without, Restrict
    <2>6. ASSUME NEW i \in DOMAIN os, WindowFocused(i) PROVE Focused'
      BY <2>1, <2>6 DEF WindowFocused, ViewFindsWindow, Focused, Open
    <2>7. ASSUME NEW i \in DOMAIN os,
                 SystemOpens(i) \/ WindowAttached(i) \/ FiveSecondsPass(i) \/ WindowUnfocused(i)
          PROVE  Focused'
      BY <2>7 DEF SystemOpens, WindowAttached, FiveSecondsPass, WindowUnfocused, Focused
    <2>8. CASE WindowAttachWatchdog
      BY <2>8 DEF WindowAttachWatchdog, Focused
    <2> QED
      BY <1>2, <2>2, <2>3, <2>4, <2>5, <2>6, <2>7, <2>8
      DEF Next, PanelMoves, WindowAttachFailed, WindowCloseRequested
  <1> QED
    BY <1>1, <1>2

LEMMA MainSafeStep ==
  ASSUME ~(Renames /\ Stalls), Renames \in BOOLEAN, Stalls \in BOOLEAN,
         IInv, MainSafe, [Next]_vars
  PROVE  MainSafe'
  <1>1. CASE UNCHANGED vars
    BY <1>1 DEF vars, shell, MainSafe
  <1>2. CASE Next
    <2>1. windows \in [DOMAIN windows -> WindowState]
      BY DEF IInv, WindowsTyped
    <2>2. CASE PanelMoves
      BY <2>2, PanelsLeaveWindows DEF MainSafe
    <2>3. ASSUME NEW k \in Names, CreateWindow(k) \/ \E p \in data : OpenChartInNewWindow(p, k)
          PROVE  MainSafe'
      <3>1. /\ k \notin DOMAIN windows /\ DOMAIN windows' = DOMAIN windows \cup {k}
            /\ \A j \in DOMAIN windows : windows'[j].isMain = windows[j].isMain
            /\ \A i \in DOMAIN pending' :
                 \/ pending'[i] = [key |-> k, old |-> FALSE]
                 \/ i \in DOMAIN pending /\ pending'[i] = pending[i]
            /\ UNCHANGED <<main, failing>>
        BY <2>3, OpeningKeepsWindows
      <3>2. k # main /\ main' \in DOMAIN windows' /\ windows'[main'].isMain
        BY <3>1 DEF MainSafe
      <3>3. Stalls \/ (failing' = {} /\ \A i \in DOMAIN pending' : ~pending'[i].old)
        BY <3>1 DEF MainSafe
      <3>4. Renames \/ (main' \notin failing' /\ \A i \in DOMAIN pending' : pending'[i].key # main')
        BY <3>1, <3>2 DEF MainSafe
      <3> QED
        BY <3>2, <3>3, <3>4 DEF MainSafe
    <2>4. ASSUME NEW k, Dispose(k), k # main, UNCHANGED main, failing' \subseteq failing
          PROVE  MainSafe'
      BY <2>4 DEF Dispose, MainSafe, Open, Without, Restrict
    <2>5. ASSUME NEW k \in Names, WindowAttachFailed(k) PROVE MainSafe'
      <3>1. k # main
        BY <2>5 DEF WindowAttachFailed, MainSafe
      <3> QED
        BY <2>4, <2>5, <3>1 DEF WindowAttachFailed
    <2>6. ASSUME NEW i \in DOMAIN os, WindowCloseRequested(i) PROVE MainSafe'
      <3>1. keyOf[i] # main
        BY <2>6 DEF WindowCloseRequested, MainSafe, Open
      <3> QED
        BY <2>4, <2>6, <3>1 DEF WindowCloseRequested
    <2>7. ASSUME NEW k \in Names, NEW to \in Names, RenameWindow(k, to) PROVE MainSafe'
      <3>1. Renames /\ ~Stalls /\ k \in DOMAIN windows /\ to \notin DOMAIN windows
        BY <2>7 DEF RenameWindow, Open
      <3>2. /\ DOMAIN windows' = (DOMAIN windows \ {k}) \cup {to}
            /\ windows'[to] = windows[k]
            /\ \A j \in DOMAIN windows \ {k} : windows'[j] = windows[j]
        BY <2>7, <3>1 DEF RenameWindow, With, Without, Restrict
      <3>3. main' \in DOMAIN windows' /\ windows'[main'].isMain
        BY <2>7, <3>1, <3>2 DEF RenameWindow, MainAfter, MainSafe
      <3> QED
        BY <2>7, <3>1, <3>3 DEF RenameWindow, MainSafe
    <2>8. ASSUME NEW i \in DOMAIN os, WindowAttached(i) PROVE MainSafe'
      <3>1. /\ DOMAIN windows' = DOMAIN windows
            /\ \A j \in DOMAIN windows : windows'[j].isMain = windows[j].isMain
        BY <2>1, <2>8 DEF WindowAttached, WindowState
      <3>2. \A n \in DOMAIN pending' : n \in DOMAIN pending /\ pending'[n] = pending[n]
        BY <2>8 DEF WindowAttached, Without, Restrict
      <3> QED
        BY <2>8, <3>1, <3>2 DEF WindowAttached, MainSafe
    <2>9. ASSUME NEW i \in DOMAIN os, FiveSecondsPass(i) PROVE MainSafe'
      <3>1. /\ Stalls /\ ~Renames
            /\ \A n \in DOMAIN pending' : n \in DOMAIN pending /\ pending'[n].key = pending[n].key
        BY <2>9 DEF FiveSecondsPass, IInv, WindowsTyped, PendingOpen
      <3> QED
        BY <2>9, <3>1 DEF FiveSecondsPass, MainSafe
    <2>10. ASSUME NEW i \in DOMAIN os, SystemOpens(i) \/ WindowFocused(i) \/ WindowUnfocused(i)
           PROVE  MainSafe'
      BY <2>10 DEF SystemOpens, WindowFocused, WindowUnfocused, MainSafe
    <2>11. CASE WindowAttachWatchdog
      BY <2>11 DEF WindowAttachWatchdog, MainSafe
    <2> QED
      BY <1>2, <2>2, <2>3, <2>5, <2>6, <2>7, <2>8, <2>9, <2>10, <2>11 DEF Next, PanelMoves
  <1> QED
    BY <1>1, <1>2

LEMMA FocusedAlways == Spec => []Focused
  <1>1. Init => Focused
    BY WorkspaceAssumption, WindowsInit DEF Focused
  <1>2. IInv /\ Focused /\ [Next]_vars => Focused'
    BY WorkspaceAssumption, FocusedStep
  <1> QED
    BY <1>1, <1>2, WindowsAlways, PTL DEF Spec

\* While the main window is there, so is the window that an added panel or a
\* preset goes to: the focus is never left on a window that is gone.
THEOREM TargetWhileMain == Spec => [](Open(main) => TargetPresent)
  <1>1. Focused => (Open(main) => TargetPresent)
    BY DEF Focused, TargetPresent, TargetForAdd, Open
  <1> QED
    BY <1>1, FocusedAlways, PTL

\* The main window is there, and so is the target of panels and presets, when
\* windows keep their names or the system opens them in time.  With both, an
\* eviction by an old name can take the main window.
THEOREM TargetAlways ==
  ASSUME ~(Renames /\ Stalls)
  PROVE  Spec => []TargetPresent
  <1>1. Init => MainSafe
    BY WorkspaceAssumption, WindowsInit
  <1>2. IInv /\ MainSafe /\ [Next]_vars => MainSafe'
    BY WorkspaceAssumption, MainSafeStep DEF Assumptions
  <1>3. Spec => []MainSafe
    BY <1>1, <1>2, WindowsAlways, PTL DEF Spec
  <1>4. MainSafe /\ Focused => TargetPresent
    BY DEF MainSafe, Focused, TargetPresent, TargetForAdd, Open
  <1> QED
    BY <1>3, <1>4, FocusedAlways, PTL

-----------------------------------------------------------------------------
(* The order desk *)

\* Every set of places in a sequence that is not empty has a most recent one.
LEMMA MostRecentIsIn ==
  ASSUME NEW n \in Nat, NEW K, K \subseteq 1..n, K # {}
  PROVE  /\ Desk!MostRecent(K) \in K
         /\ \A j \in K : j <= Desk!MostRecent(K)
  <1> DEFINE T == {m \in Nat : \E k \in K : m = n - k}
  <1>1. T \subseteq Nat /\ T # {}
    <2>1. PICK k \in K : k \in 1..n
      OBVIOUS
    <2>2. n - k \in T
      BY <2>1
    <2> QED
      BY <2>2
  <1>2. PICK x \in T : \A y \in T : <<y, x>> \notin OpToRel(<, Nat)
    <2> HIDE DEF T
    <2> QED
      BY <1>1, NatLessThanWellFounded, WFMin
  <1>3. \A y \in T : ~(y < x)
    <2> HIDE DEF T
    <2> QED
      BY <1>1, <1>2 DEF OpToRel
  <1>4. PICK k \in K : x = n - k
    OBVIOUS
  <1>5. ASSUME NEW j \in K PROVE j <= k
    <2>1. j \in 1..n /\ k \in 1..n
      OBVIOUS
    <2>2. n - j \in T
      BY <2>1
    <2>3. ~(n - j < x)
      <3> HIDE DEF T
      <3> QED
        BY <1>3, <2>2
    <2> QED
      BY <1>4, <2>1, <2>3
  <1> QED
    BY <1>5 DEF Desk!MostRecent

-----------------------------------------------------------------------------
(* The inductive invariant of the order desk *)

\* Only clicks that were made have calls.
CallsMade == \A h \in calls \cup placed : used[h[1]] \in Symbols

\* Without overlap, the call of a panel is the only one, and the last link waits
\* for its answer.
LastLinkWaits ==
  ~overlap => \A h \in calls : h[2] = "panel" =>
    /\ calls = {h}
    /\ Len(links) # 0
    /\ links[Len(links)] = [click |-> h[1], symbol |-> used[h[1]], ids |-> NoIds]

DeskInv ==
  /\ Desk!TypeOK
  /\ CallsMade
  /\ LastLinkWaits
  /\ Desk!IdsTranslate
  /\ Desk!PanelIdsAreOwn

\* Steps that leave links and calls alone leave all that is said of them.
LEMMA OthersInv ==
  ASSUME DeskInv, Desk!TypeOK', UNCHANGED <<links, ibToUuid, calls, placed, used, overlap>>
  PROVE  DeskInv'
  BY DEF DeskInv, CallsMade, LastLinkWaits, Desk!IdsTranslate, Desk!PanelIdsAreOwn, Desk!Stamped

-----------------------------------------------------------------------------
(* Clicks at the order desk *)

\* A click changes nothing for the calls that were made before, and its own
\* calls are new.
LEMMA ClickCalls ==
  ASSUME Desk!Assumptions, DeskInv, NEW c \in Clicks, NEW s \in Symbols,
         NEW v, v \subseteq Desk!Sources, Desk!Click(c, s, v), UNCHANGED placed
  PROVE  /\ calls' \subseteq Desk!Handles
         /\ placed' \subseteq Desk!Handles \ calls'
         /\ used' \in [Clicks -> Symbols \cup {Unused}]
         /\ overlap' \in BOOLEAN
         /\ CallsMade'
         /\ ~overlap' => ~overlap /\ calls = {} /\ calls' \subseteq {c} \X v
         /\ used'[c] = s
  <1>1. calls' \subseteq calls \cup ({c} \X v)
    BY DEF Desk!Click, Desk!CallsOf
  <1>2. calls' \subseteq Desk!Handles
    BY <1>1 DEF Desk!Handles, DeskInv, Desk!TypeOK
  <1>3. \A h \in placed : h[1] # c
    BY DEF Desk!Assumptions, DeskInv, CallsMade, Desk!Click
  <1>4. placed' \subseteq Desk!Handles \ calls'
    BY <1>1, <1>3 DEF DeskInv, Desk!TypeOK
  <1>5. used' \in [Clicks -> Symbols \cup {Unused}] /\ used'[c] = s
    BY DEF Desk!Click, DeskInv, Desk!TypeOK
  <1>6. \A h \in calls \cup placed : used'[h[1]] \in Symbols
    BY DEF Desk!Click, DeskInv, Desk!TypeOK, CallsMade, Desk!Handles
  <1>7. CallsMade'
    BY <1>1, <1>5, <1>6 DEF CallsMade
  <1>8. overlap' \in BOOLEAN
    BY DEF Desk!Click, DeskInv, Desk!TypeOK
  <1>9. ~overlap' => ~overlap /\ calls = {}
    BY DEF Desk!Click, DeskInv, Desk!TypeOK
  <1> QED
    BY <1>1, <1>2, <1>4, <1>5, <1>7, <1>8, <1>9

LEMMA ConfirmPanelInv ==
  ASSUME Desk!Assumptions, DeskInv, NEW c \in Clicks, NEW s \in Symbols, Desk!ConfirmPanel(c, s)
  PROVE  DeskInv'
  <1> DEFINE link == [click |-> c, symbol |-> s, ids |-> NoIds]
  <1>1. /\ Desk!Click(c, s, {"panel"}) /\ {"panel"} \subseteq Desk!Sources
        /\ links' = Append(links, link) /\ UNCHANGED <<ready, ibToUuid, placed>>
    BY DEF Desk!ConfirmPanel, Desk!Sources
  <1>2. /\ calls' \subseteq Desk!Handles /\ placed' \subseteq Desk!Handles \ calls'
        /\ used' \in [Clicks -> Symbols \cup {Unused}] /\ overlap' \in BOOLEAN /\ CallsMade'
        /\ ~overlap' => ~overlap /\ calls = {} /\ calls' \subseteq {c} \X {"panel"}
        /\ used'[c] = s
    BY <1>1, ClickCalls
  <1>3. link \in Desk!Link /\ links \in Seq(Desk!Link)
    BY DEF Desk!Link, DeskInv, Desk!TypeOK
  <1>4. /\ links' \in Seq(Desk!Link) /\ Len(links') = Len(links) + 1 /\ Len(links) \in Nat
        /\ \A k \in 1..Len(links) : links'[k] = links[k]
        /\ links'[Len(links) + 1] = link
    BY <1>1, <1>3, AppendProperties
  <1>5. live' \in [Symbols -> {"none", "Draft", "Pending"}]
    BY DEF Desk!ConfirmPanel, Desk!Shows, DeskInv, Desk!TypeOK
  <1>6. Desk!TypeOK'
    BY <1>1, <1>2, <1>4, <1>5 DEF DeskInv, Desk!TypeOK
  <1>7. DOMAIN links = 1..Len(links) /\ DOMAIN links' = 1..(Len(links) + 1)
    BY <1>3, <1>4
  <1>8. /\ Desk!Stamped' = Desk!Stamped
        /\ \A k \in Desk!Stamped : k \in 1..Len(links) /\ links'[k] = links[k]
    BY <1>4, <1>7 DEF Desk!Stamped
  <1>9. Desk!IdsTranslate' /\ Desk!PanelIdsAreOwn'
    BY <1>1, <1>2, <1>8 DEF DeskInv, Desk!IdsTranslate, Desk!PanelIdsAreOwn
  <1>10. LastLinkWaits'
    BY <1>2, <1>4 DEF LastLinkWaits
  <1> QED
    BY <1>2, <1>6, <1>9, <1>10 DEF DeskInv

LEMMA SubmitChartInv ==
  ASSUME Desk!Assumptions, DeskInv, NEW c \in Clicks, NEW s \in Symbols, Desk!SubmitChart(c, s)
  PROVE  DeskInv'
  <1>1. /\ Desk!Click(c, s, {"effect", "chart"}) /\ {"effect", "chart"} \subseteq Desk!Sources
        /\ UNCHANGED <<ready, links, ibToUuid, placed>>
    BY DEF Desk!SubmitChart, Desk!Sources
  <1>2. /\ calls' \subseteq Desk!Handles /\ placed' \subseteq Desk!Handles \ calls'
        /\ used' \in [Clicks -> Symbols \cup {Unused}] /\ overlap' \in BOOLEAN /\ CallsMade'
        /\ ~overlap' => ~overlap /\ calls = {} /\ calls' \subseteq {c} \X {"effect", "chart"}
    BY <1>1, ClickCalls
  <1>3. live' \in [Symbols -> {"none", "Draft", "Pending"}]
    BY DEF Desk!SubmitChart, Desk!Shows, DeskInv, Desk!TypeOK
  <1>4. Desk!TypeOK'
    BY <1>1, <1>2, <1>3 DEF DeskInv, Desk!TypeOK
  <1>5. Desk!IdsTranslate' /\ Desk!PanelIdsAreOwn'
    BY <1>1, <1>2 DEF DeskInv, Desk!IdsTranslate, Desk!PanelIdsAreOwn, Desk!Stamped
  <1>6. LastLinkWaits'
    BY <1>2 DEF LastLinkWaits
  <1> QED
    BY <1>2, <1>4, <1>5, <1>6 DEF DeskInv

-----------------------------------------------------------------------------
(* Answers to its calls *)

\* An answer that stamps no link.
LEMMA AnswerInv ==
  ASSUME DeskInv, NEW h \in calls, Desk!Answered(h),
         live' \in [Symbols -> {"none", "Draft", "Pending"}],
         placed' = placed \/ placed' = placed \cup {h},
         UNCHANGED <<ready, links, ibToUuid, used, overlap>>
  PROVE  DeskInv'
  <1>1. Desk!TypeOK'
    BY DEF DeskInv, Desk!TypeOK, Desk!Answered
  <1>2. CallsMade'
    BY DEF DeskInv, CallsMade, Desk!Answered
  <1>3. LastLinkWaits'
    BY DEF DeskInv, LastLinkWaits, Desk!Answered
  <1>4. Desk!IdsTranslate' /\ Desk!PanelIdsAreOwn'
    BY DEF DeskInv, Desk!IdsTranslate, Desk!PanelIdsAreOwn, Desk!Stamped
  <1> QED
    BY <1>1, <1>2, <1>3, <1>4 DEF DeskInv

\* An answer stamps one link that had no ids, and no other.
LEMMA Stamps ==
  ASSUME Desk!Assumptions, DeskInv, NEW h \in calls, NEW k \in DOMAIN links, links[k].ids = NoIds,
         links' = [links EXCEPT ![k] = [@ EXCEPT !.ids = h]]
  PROVE  /\ links' \in Seq(Desk!Link)
         /\ Len(links') = Len(links) /\ DOMAIN links' = DOMAIN links
         /\ \A j \in DOMAIN links : j # k => links'[j] = links[j]
         /\ links'[k].ids = h /\ links'[k].click = links[k].click
         /\ Desk!Stamped' = Desk!Stamped \cup {k} /\ k \notin Desk!Stamped
  <1>1. links \in Seq(Desk!Link) /\ h \in Desk!Handles
    BY DEF DeskInv, Desk!TypeOK
  <1>2. links[k] \in Desk!Link
    BY <1>1
  <1>3. [links[k] EXCEPT !.ids = h] \in Desk!Link
    BY <1>1, <1>2 DEF Desk!Link
  <1>4. links' = [links EXCEPT ![k] = [links[k] EXCEPT !.ids = h]]
    OBVIOUS
  <1>5. links' \in Seq(Desk!Link) /\ Len(links') = Len(links) /\ DOMAIN links' = DOMAIN links
    BY <1>1, <1>3, <1>4
  <1>6. \A j \in DOMAIN links : j # k => links'[j] = links[j]
    BY <1>1, <1>4
  <1>7. links'[k].ids = h /\ links'[k].click = links[k].click
    BY <1>1, <1>2, <1>4 DEF Desk!Link
  <1>8. h # NoIds
    BY <1>1 DEF Desk!Assumptions
  <1>9. Desk!Stamped' = Desk!Stamped \cup {k} /\ k \notin Desk!Stamped
    BY <1>5, <1>6, <1>7, <1>8 DEF Desk!Stamped
  <1> QED
    BY <1>5, <1>6, <1>7, <1>9

LEMMA PlacedInv ==
  ASSUME Desk!Assumptions, DeskInv, NEW h \in calls, Desk!Placed(h)
  PROVE  DeskInv'
  <1> DEFINE waiting == Desk!Waiting(used[h[1]])
             k == Desk!MostRecent(waiting)
  <1>1. /\ h[2] # "effect" /\ Desk!Answered(h) /\ placed' = placed \cup {h}
        /\ UNCHANGED <<ready, live, used, overlap>>
    BY DEF Desk!Placed
  <1>2. live' \in [Symbols -> {"none", "Draft", "Pending"}]
    BY <1>1 DEF DeskInv, Desk!TypeOK
  <1>3. CASE waiting = {}
    <2>1. UNCHANGED <<links, ibToUuid>>
      BY <1>3 DEF Desk!Placed
    <2> QED
      BY <1>1, <1>2, <2>1, AnswerInv
  <1>4. CASE waiting # {}
    <2>1. /\ links' = [links EXCEPT ![k] = [@ EXCEPT !.ids = h]]
          /\ ibToUuid' = ibToUuid \cup {<<h, links[k].click>>}
      BY <1>4 DEF Desk!Placed
    <2>2. links \in Seq(Desk!Link) /\ Len(links) \in Nat /\ DOMAIN links = 1..Len(links)
      BY DEF DeskInv, Desk!TypeOK
    <2>3. waiting \subseteq 1..Len(links)
      BY <2>2 DEF Desk!Waiting
    <2>4. k \in waiting /\ \A j \in waiting : j <= k
      BY <1>4, <2>2, <2>3, MostRecentIsIn
    <2>5. k \in DOMAIN links /\ links[k].ids = NoIds
      BY <2>4 DEF Desk!Waiting
    <2> HIDE DEF k
    <2>6. /\ links' \in Seq(Desk!Link)
          /\ Len(links') = Len(links) /\ DOMAIN links' = DOMAIN links
          /\ \A j \in DOMAIN links : j # k => links'[j] = links[j]
          /\ links'[k].ids = h /\ links'[k].click = links[k].click
          /\ Desk!Stamped' = Desk!Stamped \cup {k} /\ k \notin Desk!Stamped
      BY <2>1, <2>5, Stamps
    <2>7. links[k].click \in Clicks
      <3>1. links[k] \in Desk!Link
        BY <2>2, <2>5
      <3> QED
        BY <3>1 DEF Desk!Link
    <2>8. Desk!TypeOK'
      <3>1. calls' \subseteq Desk!Handles /\ placed' \subseteq Desk!Handles \ calls'
        BY <1>1 DEF Desk!Answered, DeskInv, Desk!TypeOK
      <3>2. ibToUuid' \subseteq Desk!Handles \X Clicks
        BY <2>1, <2>7 DEF DeskInv, Desk!TypeOK
      <3> QED
        BY <1>1, <1>2, <2>6, <3>1, <3>2 DEF DeskInv, Desk!TypeOK
    <2>9. CallsMade'
      BY <1>1 DEF DeskInv, CallsMade, Desk!Answered
    <2>10. Desk!IdsTranslate'
      <3>1. \A j \in Desk!Stamped :
              /\ j \in DOMAIN links /\ j # k
              /\ links'[j] = links[j] /\ links[j].ids # h
        BY <2>6 DEF Desk!Stamped, DeskInv, Desk!IdsTranslate, Desk!TypeOK
      <3>2. ibToUuid' = {<<links'[j].ids, links'[j].click>> : j \in Desk!Stamped'}
        BY <2>1, <2>6, <3>1 DEF DeskInv, Desk!IdsTranslate
      <3>3. \A j \in Desk!Stamped' : links'[j].ids \in placed'
        BY <1>1, <2>6, <3>1 DEF DeskInv, Desk!IdsTranslate
      <3>4. \A i, j \in Desk!Stamped' : links'[i].ids = links'[j].ids => i = j
        BY <2>6, <3>1 DEF DeskInv, Desk!IdsTranslate
      <3> QED
        BY <3>2, <3>3, <3>4 DEF Desk!IdsTranslate
    <2>11. LastLinkWaits'
      BY <1>1 DEF DeskInv, LastLinkWaits, Desk!Answered
    <2>12. Desk!PanelIdsAreOwn'
      <3> SUFFICES ASSUME ~overlap, h[2] = "panel" PROVE h[1] = links[k].click
        BY <1>1, <2>6 DEF DeskInv, Desk!PanelIdsAreOwn, Desk!Stamped
      <3>1. /\ Len(links) # 0
            /\ links[Len(links)] = [click |-> h[1], symbol |-> used[h[1]], ids |-> NoIds]
        BY DEF DeskInv, LastLinkWaits
      <3>2. Len(links) \in waiting
        BY <2>2, <3>1 DEF Desk!Waiting
      <3>3. k = Len(links)
        BY <2>2, <2>4, <2>5, <3>2
      <3> QED
        BY <3>1, <3>3
    <2> QED
      BY <2>8, <2>9, <2>10, <2>11, <2>12 DEF DeskInv
  <1> QED
    BY <1>3, <1>4

-----------------------------------------------------------------------------
(* The theorems about the order desk *)

LEMMA DeskInitInv == Desk!Init => DeskInv
  <1> SUFFICES ASSUME Desk!Init PROVE DeskInv
    OBVIOUS
  <1>1. links = <<>> /\ calls = {} /\ placed = {} /\ ibToUuid = {}
    BY DEF Desk!Init
  <1>2. Desk!TypeOK
    <2>1. live \in [Symbols -> {"none", "Draft", "Pending"}]
      BY DEF Desk!Init
    <2>2. used \in [Clicks -> Symbols \cup {Unused}]
      BY DEF Desk!Init
    <2>3. links \in Seq(Desk!Link)
      BY <1>1
    <2>4. ready \in BOOLEAN /\ overlap \in BOOLEAN
      BY DEF Desk!Init
    <2>5. /\ calls \subseteq Desk!Handles /\ placed \subseteq Desk!Handles \ calls
          /\ ibToUuid \subseteq Desk!Handles \X Clicks
      BY <1>1
    <2> QED
      BY <2>1, <2>2, <2>3, <2>4, <2>5 DEF Desk!TypeOK
  <1>3. Desk!Stamped = {}
    BY <1>1 DEF Desk!Stamped
  <1>4. Desk!IdsTranslate /\ Desk!PanelIdsAreOwn
    BY <1>1, <1>3 DEF Desk!IdsTranslate, Desk!PanelIdsAreOwn
  <1> QED
    BY <1>1, <1>2, <1>4 DEF DeskInv, CallsMade, LastLinkWaits

LEMMA DeskNextInv ==
  ASSUME Desk!Assumptions, DeskInv, [Desk!Next]_(Desk!vars)
  PROVE  DeskInv'
  <1>1. CASE Desk!RouterReady
    BY <1>1, OthersInv DEF Desk!RouterReady, DeskInv, Desk!TypeOK
  <1>2. ASSUME NEW s \in Symbols, Desk!EnsureDraft(s) PROVE DeskInv'
    BY <1>2, OthersInv DEF Desk!EnsureDraft, Desk!Shows, DeskInv, Desk!TypeOK
  <1>3. ASSUME NEW s \in Symbols, Desk!CloseBracket(s) PROVE DeskInv'
    BY <1>3, OthersInv DEF Desk!CloseBracket, Desk!Shows, DeskInv, Desk!TypeOK
  <1>4. ASSUME NEW h \in calls, Desk!PlaceFailed(h) PROVE DeskInv'
    <2>1. live' \in [Symbols -> {"none", "Draft", "Pending"}]
      BY <1>4 DEF Desk!PlaceFailed, Desk!Shows, DeskInv, Desk!TypeOK
    <2>2. Desk!Answered(h) /\ UNCHANGED <<ready, links, ibToUuid, placed, used, overlap>>
      BY <1>4 DEF Desk!PlaceFailed
    <2> QED
      BY <2>1, <2>2, AnswerInv
  <1>5. ASSUME NEW h \in calls, Desk!EffectEnds(h) PROVE DeskInv'
    BY <1>5, AnswerInv DEF Desk!EffectEnds, DeskInv, Desk!TypeOK
  <1>6. CASE UNCHANGED Desk!vars
    BY <1>6, OthersInv DEF Desk!vars, DeskInv, Desk!TypeOK
  <1> QED
    BY <1>1, <1>2, <1>3, <1>4, <1>5, <1>6, ConfirmPanelInv, SubmitChartInv, PlacedInv DEF Desk!Next

LEMMA DeskAlways == Desk!Spec => []DeskInv
  BY DeskAssumption, DeskInitInv, DeskNextInv, PTL DEF Desk!Spec

\* The variables have their types, and no answered call is placed again.
THEOREM DeskTypeCorrect == Desk!Spec => []Desk!TypeOK
  <1>1. DeskInv => Desk!TypeOK
    BY DEF DeskInv
  <1> QED
    BY <1>1, DeskAlways, PTL

\* ib_to_uuid always leads from an order id to the one link that holds it.
THEOREM IdsAlwaysTranslate == Desk!Spec => []IdsTranslate
  <1>1. DeskInv => IdsTranslate
    BY DEF IdsTranslate, Desk!IdsTranslate, DeskInv
  <1> QED
    BY <1>1, DeskAlways, PTL

\* However many links are left waiting, the answer to a confirm in a panel finds
\* its own if clicks do not overlap with calls.
THEOREM PanelIdsFindTheirLink == Desk!Spec => []PanelIdsAreOwn
  <1>1. DeskInv => PanelIdsAreOwn
    BY DEF PanelIdsAreOwn, Desk!PanelIdsAreOwn, DeskInv
  <1> QED
    BY <1>1, DeskAlways, PTL

-----------------------------------------------------------------------------
(* The bars of a session chart *)

Elts(s) == {s[i] : i \in DOMAIN s}
Increasing(s) == \A i, j \in DOMAIN s : i < j => s[i] < s[j]

Tick == [win : Nat, price : Prices, trade : BOOLEAN]
BarType == [win : Nat, ticks : SUBSET Nat, done : BOOLEAN]

\* The ticks on their way to the aggregator, and those it has accepted.
Piped == Elts(buffer) \cup Elts(ring)
Accepted == Bars!Ticks \ (missed \cup Piped)

BarsTyped ==
  /\ clock \in Nat /\ sent \in Seq(Tick)
  /\ ring \in Seq(Nat) /\ buffer \in Seq(Nat) /\ missed \subseteq Bars!Ticks
  /\ current \in BarType /\ out \in Seq(BarType) /\ series \in Seq(BarType)

\* Stamps do not decrease, and none is of a window to come.
TicksInTime ==
  \A i \in Bars!Ticks :
    /\ sent[i].win <= clock
    /\ \A j \in Bars!Ticks : i <= j => sent[i].win <= sent[j].win

\* What the ring loses it loses before the pump reads it: the ticks come in order.
PipeInOrder ==
  /\ Increasing(buffer) /\ Increasing(ring)
  /\ \A i \in Elts(buffer), j \in Elts(ring) : i < j
  /\ Piped \subseteq Bars!Ticks /\ Piped \cap missed = {}
  /\ \A i \in Accepted, j \in Piped : i < j

\* The bar in progress has all that was accepted of the latest window.
CurrentIsLatest ==
  /\ ~current.done
  /\ current = Bars!None => \A i \in Accepted : ~sent[i].trade
  /\ current # Bars!None =>
       /\ current.ticks # {}
       /\ current.ticks = {i \in Accepted : sent[i].trade /\ sent[i].win = current.win}
       /\ \A i \in Accepted : sent[i].trade => sent[i].win <= current.win

\* A completed bar is of a window that is over and has all of its trades.
Whole(bar) ==
  bar.done => bar.win < current.win /\ bar.ticks = Bars!TradesOf(bar.win) \ missed

BarsInv ==
  /\ BarsTyped /\ TicksInTime /\ PipeInOrder /\ CurrentIsLatest
  /\ \A bar \in Elts(out) \cup Elts(series) : Whole(bar)

LEMMA AppendOf ==
  ASSUME NEW S, NEW s \in Seq(S), NEW e \in S
  PROVE  /\ Append(s, e) \in Seq(S) /\ Elts(Append(s, e)) = Elts(s) \cup {e}
         /\ Increasing(s) /\ (\A x \in Elts(s) : x < e) => Increasing(Append(s, e))
  <1>1. /\ Append(s, e) \in Seq(S) /\ Len(Append(s, e)) = Len(s) + 1 /\ Len(s) \in Nat
        /\ DOMAIN s = 1 .. Len(s) /\ DOMAIN Append(s, e) = 1 .. (Len(s) + 1)
        /\ \A i \in 1 .. Len(s) : Append(s, e)[i] = s[i]
        /\ Append(s, e)[Len(s) + 1] = e
    BY AppendProperties
  <1>2. Elts(Append(s, e)) = Elts(s) \cup {e}
    <2>1. \A i \in 1 .. (Len(s) + 1) : i \in 1 .. Len(s) \/ i = Len(s) + 1
      BY <1>1
    <2>2. 1 .. Len(s) \subseteq 1 .. (Len(s) + 1) /\ Len(s) + 1 \in 1 .. (Len(s) + 1)
      BY <1>1
    <2> QED
      BY <1>1, <2>1, <2>2 DEF Elts
  <1>3. ASSUME Increasing(s), \A x \in Elts(s) : x < e PROVE Increasing(Append(s, e))
    <2> SUFFICES ASSUME NEW i \in 1 .. (Len(s) + 1), NEW j \in 1 .. (Len(s) + 1), i < j
                 PROVE  Append(s, e)[i] < Append(s, e)[j]
      BY <1>1 DEF Increasing
    <2>1. i \in 1 .. Len(s) /\ s[i] \in Elts(s)
      BY <1>1 DEF Elts
    <2>2. CASE j \in 1 .. Len(s)
      BY <1>1, <1>3, <2>1, <2>2 DEF Increasing
    <2>3. CASE j = Len(s) + 1
      BY <1>1, <1>3, <2>1, <2>3
    <2> QED
      BY <1>1, <2>2, <2>3
  <1> QED
    BY <1>1, <1>2, <1>3

LEMMA TailOf ==
  ASSUME NEW S, NEW s \in Seq(S), s # <<>>
  PROVE  /\ Tail(s) \in Seq(S) /\ Head(s) \in S
         /\ Elts(s) = {Head(s)} \cup Elts(Tail(s))
         /\ Increasing(s) => Increasing(Tail(s)) /\ \A x \in Elts(Tail(s)) : Head(s) < x
  <1>1. /\ Tail(s) \in Seq(S) /\ Head(s) \in S /\ Head(s) = s[1]
        /\ Len(s) \in Nat /\ Len(s) > 0 /\ DOMAIN s = 1 .. Len(s)
        /\ DOMAIN Tail(s) = 1 .. (Len(s) - 1)
        /\ \A i \in 1 .. (Len(s) - 1) : Tail(s)[i] = s[i + 1]
    BY HeadTailProperties, EmptySeq
  <1>2. \A i \in 1 .. (Len(s) - 1) : i + 1 \in 1 .. Len(s) /\ 1 < i + 1
    BY <1>1
  <1>3. /\ 1 \in 1 .. Len(s)
        /\ \A i \in 1 .. Len(s) : i = 1 \/ (i - 1 \in 1 .. (Len(s) - 1) /\ i = (i - 1) + 1)
    BY <1>1
  <1>4. Elts(s) = {Head(s)} \cup Elts(Tail(s))
    <2>1. ASSUME NEW i \in 1 .. Len(s) PROVE s[i] \in {Head(s)} \cup Elts(Tail(s))
      <3>1. CASE i = 1
        BY <1>1, <3>1
      <3>2. CASE i - 1 \in 1 .. (Len(s) - 1) /\ i = (i - 1) + 1
        <4>1. Tail(s)[i - 1] = s[i]
          BY <1>1, <3>2
        <4> QED
          BY <1>1, <3>2, <4>1 DEF Elts
      <3> QED
        BY <1>3, <3>1, <3>2
    <2>2. ASSUME NEW i \in 1 .. (Len(s) - 1) PROVE Tail(s)[i] \in Elts(s)
      BY <1>1, <1>2 DEF Elts
    <2> QED
      BY <1>1, <1>3, <2>1, <2>2 DEF Elts
  <1>5. ASSUME Increasing(s)
        PROVE  Increasing(Tail(s)) /\ \A x \in Elts(Tail(s)) : Head(s) < x
    <2>1. \A i, j \in 1 .. (Len(s) - 1) : i < j => s[i + 1] < s[j + 1]
      BY <1>1, <1>2, <1>5 DEF Increasing
    <2>2. \A i \in 1 .. (Len(s) - 1) : s[1] < s[i + 1]
      BY <1>1, <1>2, <1>3, <1>5 DEF Increasing
    <2> QED
      BY <1>1, <2>1, <2>2 DEF Increasing, Elts
  <1> QED
    BY <1>1, <1>4, <1>5

LEMMA EltsOf ==
  ASSUME NEW x, NEW y
  PROVE  Elts(<<>>) = {} /\ Elts(<<x>>) = {x} /\ Elts(<<x, y>>) = {x, y}
  <1>1. DOMAIN <<>> = {} /\ DOMAIN <<x>> = {1} /\ DOMAIN <<x, y>> = {1, 2}
    OBVIOUS
  <1>2. <<x>>[1] = x /\ <<x, y>>[1] = x /\ <<x, y>>[2] = y
    OBVIOUS
  <1> QED
    BY <1>1, <1>2 DEF Elts

LEMMA TickOf ==
  ASSUME BarsTyped, NEW i \in Bars!Ticks
  PROVE  i \in Nat /\ sent[i] \in Tick /\ sent[i].win \in Nat
  <1>1. i \in 1 .. Len(sent) /\ sent \in Seq(Tick)
    BY DEF BarsTyped, Bars!Ticks
  <1>2. sent[i] \in Tick
    BY <1>1
  <1> QED
    BY <1>1, <1>2 DEF Tick

\* What is still to come is of the window of the bar in progress or later.
LEMMA PipedIsLater ==
  ASSUME BarsInv, current # Bars!None, NEW j \in Piped
  PROVE  current.win <= sent[j].win /\ sent[j].win \in Nat
  <1>1. PICK i \in current.ticks : i \in Accepted /\ sent[i].win = current.win
    BY DEF BarsInv, CurrentIsLatest
  <1>2. i < j /\ i \in Bars!Ticks /\ j \in Bars!Ticks /\ i \in Nat /\ j \in Nat
    BY <1>1 DEF BarsInv, PipeInOrder, Accepted, Bars!Ticks, BarsTyped
  <1>3. sent[j] \in Tick
    BY <1>2 DEF BarsInv, BarsTyped, Bars!Ticks
  <1> QED
    BY <1>1, <1>2, <1>3 DEF BarsInv, TicksInTime, Tick

LEMMA SendOK ==
  ASSUME Bars!Assumptions, BarsInv, NEW price \in Prices, NEW trade \in BOOLEAN,
         Bars!Send(price, trade)
  PROVE  BarsInv'
  <1> DEFINE n == Len(sent) + 1
             t == [win |-> clock, price |-> price, trade |-> trade]
             full == Len(ring) = RingSize
             kept == IF full THEN Tail(ring) ELSE ring
  <1>1. BarsTyped /\ TicksInTime /\ PipeInOrder /\ CurrentIsLatest
    BY DEF BarsInv
  <1>2. /\ sent' = Append(sent, t) /\ ring' = Append(kept, n)
        /\ missed' = IF full THEN missed \cup {Head(ring)} ELSE missed
        /\ UNCHANGED <<clock, closed, buffer, current, out, series>>
    BY DEF Bars!Send
  <1>3. /\ t \in Tick /\ sent' \in Seq(Tick) /\ n \in Nat
        /\ Bars!Ticks = 1 .. (n - 1) /\ Bars!Ticks' = 1 .. n
        /\ \A i \in Bars!Ticks : sent'[i] = sent[i]
        /\ sent'[n] = t /\ Bars!Ticks' = Bars!Ticks \cup {n} /\ n \notin Bars!Ticks
        /\ \A i \in Bars!Ticks : i < n
    <2>1. t \in Tick /\ sent \in Seq(Tick) /\ Len(sent) \in Nat
      BY <1>1 DEF BarsTyped, Tick
    <2> HIDE DEF t
    <2>2. /\ sent' \in Seq(Tick) /\ Len(sent') = Len(sent) + 1
          /\ \A i \in 1 .. Len(sent) : sent'[i] = sent[i]
          /\ sent'[Len(sent) + 1] = t
      BY <1>2, <2>1, AppendProperties
    <2>3. Bars!Ticks = 1 .. Len(sent) /\ Bars!Ticks' = 1 .. (Len(sent) + 1)
      BY <2>1, <2>2 DEF Bars!Ticks
    <2> QED
      BY <2>1, <2>2, <2>3
  <1>4. full => ring # <<>>
    BY DEF Bars!Assumptions
  <1>5. /\ kept \in Seq(Nat) /\ Increasing(kept) /\ Elts(kept) \subseteq Elts(ring)
        /\ full => /\ Head(ring) \in Elts(ring) /\ Elts(ring) = {Head(ring)} \cup Elts(kept)
                   /\ Head(ring) \notin Elts(kept)
        /\ ~full => kept = ring
    <2>1. CASE full
      <3>1. /\ Tail(ring) \in Seq(Nat) /\ Head(ring) \in Nat
            /\ Elts(ring) = {Head(ring)} \cup Elts(Tail(ring)) /\ Increasing(Tail(ring))
            /\ \A x \in Elts(Tail(ring)) : Head(ring) < x
        BY <1>1, <1>4, <2>1, TailOf DEF BarsTyped, PipeInOrder
      <3>2. Head(ring) \notin Elts(Tail(ring))
        BY <3>1
      <3> QED
        BY <2>1, <3>1, <3>2
    <2>2. CASE ~full
      BY <1>1, <2>2 DEF BarsTyped, PipeInOrder
    <2> QED
      BY <2>1, <2>2
  <1> HIDE DEF n, t, full, kept
  <1>6. /\ ring' \in Seq(Nat) /\ Elts(ring') = Elts(kept) \cup {n} /\ Increasing(ring')
    <2>1. \A x \in Elts(kept) : x < n
      BY <1>1, <1>3, <1>5 DEF PipeInOrder, Piped
    <2>2. ring' = Append(kept, n) /\ kept \in Seq(Nat) /\ n \in Nat
      BY <1>2, <1>3, <1>5
    <2>3. /\ Append(kept, n) \in Seq(Nat) /\ Elts(Append(kept, n)) = Elts(kept) \cup {n}
          /\ Increasing(Append(kept, n))
      BY <1>5, <2>1, <2>2, AppendOf
    <2> QED
      BY <2>2, <2>3
  <1>7. missed' \subseteq Bars!Ticks /\ (full => Head(ring) \in Bars!Ticks)
    BY <1>1, <1>2, <1>5 DEF BarsTyped, PipeInOrder, Piped
  <1>8. BarsTyped'
    BY <1>1, <1>2, <1>3, <1>6, <1>7 DEF BarsTyped
  <1>9. TicksInTime'
    <2>1. \A i \in Bars!Ticks : i \in Nat /\ sent'[i].win = sent[i].win /\ sent[i].win <= clock
      BY <1>1, <1>3, TickOf DEF TicksInTime
    <2>2. sent'[n].win = clock /\ clock <= clock
      BY <1>1, <1>3 DEF t, BarsTyped
    <2>3. \A i, j \in Bars!Ticks : i <= j => sent[i].win <= sent[j].win
      BY <1>1 DEF TicksInTime
    <2>4. \A i \in Bars!Ticks : ~(n <= i)
      BY <1>3, <2>1
    <2> QED
      BY <1>2, <1>3, <2>1, <2>2, <2>3, <2>4 DEF TicksInTime
  <1>10. /\ Piped' = Elts(buffer) \cup Elts(kept) \cup {n}
         /\ Piped \cup missed \cup {n} = Piped' \cup missed'
    BY <1>2, <1>5, <1>6 DEF Piped
  <1>11. Accepted' = Accepted
    BY <1>1, <1>3, <1>10 DEF Accepted, PipeInOrder
  <1>12. Piped' \cap missed' = {}
    <2>1. n \notin missed'
      BY <1>3, <1>7
    <2>2. full => Head(ring) \notin Elts(buffer)
      <3>1. \A x \in Elts(buffer) : x \in Nat
        BY <1>1 DEF BarsTyped, Elts
      <3> QED
        BY <1>1, <1>5, <3>1 DEF PipeInOrder
    <2> QED
      BY <1>1, <1>2, <1>5, <1>10, <2>1, <2>2 DEF PipeInOrder, Piped
  <1>13. PipeInOrder'
    <2>1. \A i \in Elts(buffer), j \in Elts(ring') : i < j
      BY <1>1, <1>3, <1>5, <1>6 DEF PipeInOrder, Piped
    <2>2. \A i \in Accepted, j \in Piped' : i < j
      BY <1>1, <1>3, <1>5, <1>10 DEF PipeInOrder, Piped, Accepted
    <2>3. Piped' \subseteq Bars!Ticks'
      BY <1>1, <1>3, <1>5, <1>10 DEF PipeInOrder, Piped
    <2> QED
      BY <1>1, <1>2, <1>6, <1>11, <1>12, <2>1, <2>2, <2>3 DEF PipeInOrder
  <1>14. CurrentIsLatest'
    <2>1. \A i \in Accepted : sent'[i] = sent[i]
      BY <1>3 DEF Accepted
    <2> QED
      BY <1>1, <1>2, <1>11, <2>1 DEF CurrentIsLatest
  <1>15. ASSUME NEW bar \in Elts(out) \cup Elts(series) PROVE Whole(bar)'
    <2> SUFFICES ASSUME bar.done PROVE bar.ticks = Bars!TradesOf(bar.win)' \ missed'
      BY <1>2 DEF BarsInv, Whole
    <2>1. /\ bar.win < current.win /\ bar.ticks = Bars!TradesOf(bar.win) \ missed
          /\ bar.win \in Nat /\ current.win \in Nat
      <3>1. bar \in BarType
        BY <1>1 DEF BarsTyped, Elts
      <3> QED
        BY <1>1, <3>1 DEF BarsInv, Whole, BarsTyped, BarType
    <2>2. current # Bars!None
      BY <2>1 DEF Bars!None, Bars!Bar
    <2>3. bar.win # clock
      <3>1. PICK i \in Bars!Ticks : sent[i].win = current.win
        BY <1>1, <2>2 DEF CurrentIsLatest, Accepted
      <3> QED
        BY <1>1, <2>1, <3>1 DEF TicksInTime, BarsTyped
    <2>4. Bars!TradesOf(bar.win)' = Bars!TradesOf(bar.win)
      BY <1>3, <2>3 DEF Bars!TradesOf, t
    <2>5. full => Head(ring) \notin Bars!TradesOf(bar.win)
      <3>1. full => current.win <= sent[Head(ring)].win /\ sent[Head(ring)].win \in Nat
        BY <1>5, <2>2, PipedIsLater DEF Piped
      <3> QED
        BY <2>1, <3>1 DEF Bars!TradesOf
    <2> QED
      BY <1>2, <2>1, <2>4, <2>5
  <1> QED
    BY <1>2, <1>8, <1>9, <1>13, <1>14, <1>15 DEF BarsInv

LEMMA ForwardOK ==
  ASSUME BarsInv, Bars!Forward
  PROVE  BarsInv'
  <1>1. BarsTyped /\ TicksInTime /\ PipeInOrder /\ CurrentIsLatest
    BY DEF BarsInv
  <1>2. /\ ring # <<>> /\ buffer' = Append(buffer, Head(ring)) /\ ring' = Tail(ring)
        /\ UNCHANGED <<clock, sent, missed, closed, current, out, series>>
    BY DEF Bars!Forward
  <1>3. /\ ring' \in Seq(Nat) /\ Head(ring) \in Nat
        /\ Elts(ring) = {Head(ring)} \cup Elts(ring') /\ Increasing(ring')
        /\ \A x \in Elts(ring') : Head(ring) < x
    BY <1>1, <1>2, TailOf DEF BarsTyped, PipeInOrder
  <1>4. /\ buffer' \in Seq(Nat) /\ Elts(buffer') = Elts(buffer) \cup {Head(ring)}
        /\ Increasing(buffer')
    <2>1. \A x \in Elts(buffer) : x < Head(ring)
      BY <1>1, <1>3 DEF PipeInOrder
    <2> QED
      BY <1>1, <1>2, <1>3, <2>1, AppendOf DEF BarsTyped, PipeInOrder
  <1>5. Piped' = Piped /\ Bars!Ticks' = Bars!Ticks
    BY <1>2, <1>3, <1>4 DEF Piped, Bars!Ticks
  <1>6. Accepted' = Accepted
    BY <1>2, <1>5 DEF Accepted
  <1>7. PipeInOrder'
    BY <1>1, <1>2, <1>3, <1>4, <1>5, <1>6 DEF PipeInOrder
  <1>8. BarsTyped' /\ TicksInTime'
    BY <1>1, <1>2, <1>3, <1>4, <1>5 DEF BarsTyped, TicksInTime
  <1>9. CurrentIsLatest'
    BY <1>1, <1>2, <1>6 DEF CurrentIsLatest
  <1>10. \A bar : Whole(bar)' <=> Whole(bar)
    BY <1>2, <1>5 DEF Whole, Bars!TradesOf
  <1> QED
    BY <1>2, <1>7, <1>8, <1>9, <1>10 DEF BarsInv

\* The bars that accept_tick returns.
LEMMA AcceptOK ==
  ASSUME BarsInv, Bars!Accept
  PROVE  BarsInv'
  <1> DEFINE i == Head(buffer)
  <1>1. BarsTyped /\ TicksInTime /\ PipeInOrder /\ CurrentIsLatest
    BY DEF BarsInv
  <1>2. /\ buffer # <<>> /\ buffer' = Tail(buffer)
        /\ Bars!Ignore(i) \/ Bars!Open(i) \/ Bars!Fold(i) \/ Bars!Rollover(i)
        /\ UNCHANGED <<clock, sent, missed, ring, closed, series>>
    BY DEF Bars!Accept
  <1>3. /\ buffer' \in Seq(Nat) /\ i \in Nat
        /\ Elts(buffer) = {i} \cup Elts(buffer') /\ Increasing(buffer')
        /\ \A x \in Elts(buffer') : i < x
    BY <1>1, <1>2, TailOf DEF BarsTyped, PipeInOrder
  <1> HIDE DEF i
  <1>4. /\ Bars!Ticks' = Bars!Ticks /\ i \in Piped /\ i \in Bars!Ticks /\ i \notin missed
        /\ Piped = Piped' \cup {i} /\ \A x \in Piped' : i < x
    BY <1>1, <1>2, <1>3 DEF Piped, Bars!Ticks, PipeInOrder
  <1>5. i \notin Piped'
    BY <1>3, <1>4
  <1>6. Accepted' = Accepted \cup {i} /\ i \notin Accepted
    BY <1>2, <1>4, <1>5 DEF Accepted
  <1>7. PipeInOrder'
    BY <1>1, <1>2, <1>3, <1>4, <1>6 DEF PipeInOrder
  <1>8. TicksInTime' /\ \A win : Bars!TradesOf(win)' = Bars!TradesOf(win)
    BY <1>1, <1>2, <1>4 DEF TicksInTime, Bars!TradesOf
  <1>9. sent[i] \in Tick /\ i \in Nat /\ current \in BarType
    BY <1>1, <1>3, <1>4 DEF BarsTyped, Bars!Ticks
  <1>10. /\ current' \in BarType /\ out' \in Seq(BarType) /\ CurrentIsLatest'
         /\ \A bar \in Elts(out') : bar.done => Whole(bar)'
         /\ current.win <= current'.win
    <2>1. CASE Bars!Ignore(i)
      <3>1. ~sent[i].trade /\ UNCHANGED <<current, out>>
        BY <2>1 DEF Bars!Ignore
      <3>2. CurrentIsLatest'
        BY <1>1, <1>2, <1>6, <3>1 DEF CurrentIsLatest
      <3>3. \A bar \in Elts(out) : Whole(bar)'
        BY <1>2, <1>8, <3>1 DEF BarsInv, Whole
      <3> QED
        BY <1>1, <1>9, <3>1, <3>2, <3>3 DEF BarsTyped, BarType
    <2>2. CASE Bars!Open(i)
      <3>1. /\ sent[i].trade /\ current = Bars!None
            /\ current' = Bars!Bar(sent[i].win, {i}, FALSE) /\ out' = <<current'>>
        BY <2>2 DEF Bars!Open
      <3>2. current' \in BarType /\ ~current'.done /\ current.win = 0
        BY <1>9, <3>1 DEF Bars!Bar, BarType, Tick, Bars!None
      <3>3. out' \in Seq(BarType) /\ Elts(out') = {current'}
        <4>1. Elts(<<current'>>) = {current'}
          BY EltsOf, Zenon
        <4>2. <<current'>> \in Seq(BarType)
          BY <3>2
        <4> QED
          BY <3>1, <4>1, <4>2, Zenon
      <3>4. CurrentIsLatest'
        <4>1. \A j \in Accepted : ~sent[j].trade
          BY <1>1, <3>1 DEF CurrentIsLatest
        <4>2. current'.ticks = {i} /\ current'.win = sent[i].win
          BY <3>1 DEF Bars!Bar
        <4> QED
          BY <1>2, <1>6, <1>9, <3>1, <3>2, <4>1, <4>2 DEF CurrentIsLatest, Bars!None, Bars!Bar, Tick
      <3> QED
        BY <3>2, <3>3, <3>4 DEF BarType
    <2>3. CASE Bars!Fold(i)
      <3>1. /\ sent[i].trade /\ current # Bars!None /\ sent[i].win = current.win
            /\ current' = [current EXCEPT !.ticks = current.ticks \cup {i}]
            /\ out' \in {<<>>, <<current'>>}
        BY <2>3 DEF Bars!Fold
      <3>2. /\ current' \in BarType /\ current'.done = current.done /\ current'.win = current.win
            /\ current'.ticks = current.ticks \cup {i}
        BY <1>9, <3>1 DEF BarType
      <3>3. out' \in Seq(BarType) /\ Elts(out') \subseteq {current'}
        <4>1. Elts(<<>>) = {} /\ Elts(<<current'>>) = {current'}
          BY EltsOf, Zenon
        <4>2. <<>> \in Seq(BarType) /\ <<current'>> \in Seq(BarType)
          BY <3>2
        <4>3. CASE out' = <<>>
          BY <4>1, <4>2, <4>3, Zenon
        <4>4. CASE out' = <<current'>>
          BY <4>1, <4>2, <4>4, Zenon
        <4> QED
          BY <3>1, <4>3, <4>4
      <3>4. CurrentIsLatest'
        <4>1. current' # Bars!None
          BY <3>2 DEF Bars!None, Bars!Bar
        <4> QED
          BY <1>1, <1>2, <1>6, <1>9, <3>1, <3>2, <4>1 DEF CurrentIsLatest, BarType
      <3>5. ~current.done
        BY <1>1 DEF CurrentIsLatest
      <3> QED
        BY <1>9, <3>2, <3>3, <3>4, <3>5 DEF BarType
    <2>4. CASE Bars!Rollover(i)
      <3>0. PICK whole : whole = [current EXCEPT !.done = TRUE]
        OBVIOUS
      <3>1. /\ sent[i].trade /\ current # Bars!None /\ sent[i].win # current.win
            /\ current' = Bars!Bar(sent[i].win, {i}, FALSE)
            /\ out' = <<whole, current'>>
        BY <2>4, <3>0 DEF Bars!Rollover
      <3>2. /\ current' \in BarType /\ ~current'.done
            /\ current'.win = sent[i].win /\ current'.ticks = {i}
        BY <1>9, <3>1 DEF Bars!Bar, BarType, Tick
      <3>3. /\ whole \in BarType /\ whole.win = current.win /\ whole.ticks = current.ticks
        BY <1>9, <3>0 DEF BarType
      <3>4. out' \in Seq(BarType) /\ Elts(out') = {whole, current'}
        <4>1. Elts(<<whole, current'>>) = {whole, current'}
          BY EltsOf, Zenon
        <4>2. <<whole, current'>> \in Seq(BarType)
          BY <3>2, <3>3
        <4> QED
          BY <3>1, <4>1, <4>2, Zenon
      <3>5. current.win < sent[i].win /\ current.win \in Nat
        <4>1. current.win <= sent[i].win
          BY <1>4, <3>1, PipedIsLater
        <4> QED
          BY <1>9, <3>1, <4>1 DEF Tick, BarType
      <3>6. CurrentIsLatest'
        <4>1. \A j \in Accepted : sent[j].trade => sent[j].win <= current.win /\ sent[j].win \in Nat
          BY <1>1, <3>1, TickOf DEF CurrentIsLatest, Accepted
        <4>2. sent[i].win \in Nat
          BY <1>9 DEF Tick
        <4>3. current' # Bars!None
          BY <3>2 DEF Bars!None, Bars!Bar
        <4>4. {i} = {j \in Accepted' : sent[j].trade /\ sent[j].win = sent[i].win}
          BY <1>6, <3>1, <3>5, <4>1, <4>2
        <4>5. \A j \in Accepted' : sent[j].trade => sent[j].win <= sent[i].win
          BY <1>6, <3>5, <4>1, <4>2
        <4> QED
          BY <1>2, <3>2, <4>3, <4>4, <4>5 DEF CurrentIsLatest
      <3>7. current.ticks = Bars!TradesOf(current.win) \ missed
        <4>1. current.ticks = {j \in Accepted : sent[j].trade /\ sent[j].win = current.win}
          BY <1>1, <3>1 DEF CurrentIsLatest
        <4>2. \A j \in Piped : sent[j].win # current.win
          <5> SUFFICES ASSUME NEW j \in Piped PROVE sent[j].win # current.win
            OBVIOUS
          <5>1. i <= j /\ j \in Bars!Ticks
            BY <1>1, <1>4, <1>9 DEF PipeInOrder, Bars!Ticks, BarsTyped
          <5>2. sent[i].win <= sent[j].win /\ sent[j] \in Tick
            BY <1>1, <1>4, <5>1 DEF TicksInTime, BarsTyped, Bars!Ticks
          <5> QED
            BY <1>9, <3>5, <5>2 DEF Tick
        <4> QED
          BY <4>1, <4>2 DEF Bars!TradesOf, Accepted
      <3>8. Whole(whole)'
        BY <1>2, <1>8, <3>2, <3>3, <3>5, <3>7 DEF Whole
      <3>9. \A bar \in Elts(out') : bar.done => Whole(bar)'
        BY <3>2, <3>4, <3>8
      <3>10. current.win <= current'.win
        BY <1>9, <3>2, <3>5 DEF Tick
      <3> QED
        BY <3>2, <3>4, <3>6, <3>9, <3>10
    <2> QED
      BY <1>2, <2>1, <2>2, <2>3, <2>4
  <1>11. BarsTyped'
    BY <1>1, <1>2, <1>3, <1>4, <1>10 DEF BarsTyped
  <1>12. ASSUME NEW bar \in Elts(series) PROVE Whole(bar)'
    <2>1. bar \in BarType /\ Whole(bar)
      BY <1>1 DEF BarsTyped, Elts, BarsInv
    <2> QED
      BY <1>2, <1>8, <1>9, <1>10, <2>1 DEF Whole, BarType
  <1>13. \A bar \in Elts(out') : Whole(bar)'
    BY <1>10 DEF Whole
  <1> QED
    BY <1>2, <1>7, <1>8, <1>10, <1>11, <1>12, <1>13 DEF BarsInv

LEMMA ApplyOK ==
  ASSUME BarsInv, Bars!Apply
  PROVE  BarsInv'
  <1>1. BarsTyped /\ TicksInTime /\ PipeInOrder /\ CurrentIsLatest
    BY DEF BarsInv
  <1>2. /\ out # <<>> /\ out' = Tail(out) /\ series' = Bars!Applied(Head(out))
        /\ UNCHANGED <<clock, sent, missed, ring, closed, buffer, current>>
    BY DEF Bars!Apply
  <1>3. out' \in Seq(BarType) /\ Head(out) \in BarType /\ Elts(out) = {Head(out)} \cup Elts(out')
    BY <1>1, <1>2, TailOf DEF BarsTyped
  <1>4. series' \in Seq(BarType) /\ Elts(series') \subseteq Elts(series) \cup {Head(out)}
    <2>1. CASE series # <<>> /\ series' = [series EXCEPT ![Len(series)] = Head(out)]
      <3>1. /\ DOMAIN series' = DOMAIN series /\ series' \in Seq(BarType)
            /\ \A k \in DOMAIN series : series'[k] = series[k] \/ series'[k] = Head(out)
        <4>1. series \in Seq(BarType) /\ Len(series) \in Nat /\ DOMAIN series = 1 .. Len(series)
          BY <1>1 DEF BarsTyped
        <4>2. Len(series) \in 1 .. Len(series)
          BY <2>1, <4>1, EmptySeq
        <4>3. series' \in Seq(BarType)
          BY <1>3, <2>1, <4>1, <4>2, ExceptSeq
        <4> QED
          BY <2>1, <4>1, <4>3
      <3> QED
        BY <3>1 DEF Elts
    <2>2. CASE series' = Append(series, Head(out))
      BY <1>1, <1>3, <2>2, AppendOf DEF BarsTyped
    <2> QED
      BY <1>2, <2>1, <2>2 DEF Bars!Applied
  <1>5. \A bar : Whole(bar)' <=> Whole(bar)
    BY <1>2 DEF Whole, Bars!TradesOf, Bars!Ticks
  <1>6. BarsTyped' /\ TicksInTime' /\ PipeInOrder' /\ CurrentIsLatest'
    BY <1>1, <1>2, <1>3, <1>4
    DEF BarsTyped, TicksInTime, PipeInOrder, CurrentIsLatest, Accepted, Piped, Bars!Ticks
  <1> QED
    BY <1>3, <1>4, <1>5, <1>6 DEF BarsInv

LEMMA BarsInit ==
  ASSUME Bars!Init
  PROVE  BarsInv
  <1>1. /\ clock = 1 /\ sent = <<>> /\ missed = {} /\ ring = <<>>
        /\ buffer = <<>> /\ current = Bars!None /\ out = <<>> /\ series = <<>>
    BY DEF Bars!Init
  <1>2. Elts(<<>>) = {}
    BY DEF Elts
  <1>3. Bars!Ticks = {} /\ Accepted = {} /\ Piped = {}
    BY <1>1, <1>2 DEF Bars!Ticks, Accepted, Piped
  <1>4. BarsTyped
    BY <1>1, <1>3 DEF BarsTyped, Bars!None, Bars!Bar, BarType
  <1>5. TicksInTime /\ PipeInOrder /\ CurrentIsLatest
    BY <1>1, <1>2, <1>3 DEF TicksInTime, PipeInOrder, CurrentIsLatest, Increasing, Bars!None,
                            Bars!Bar
  <1> QED
    BY <1>1, <1>2, <1>4, <1>5 DEF BarsInv

LEMMA BarsStep ==
  ASSUME Bars!Assumptions, BarsInv, [Bars!Next]_(Bars!vars)
  PROVE  BarsInv'
  <1>1. CASE Bars!NextWindow
    <2>1. /\ clock' = clock + 1 /\ clock \in Nat
          /\ UNCHANGED <<sent, missed, ring, closed, buffer, current, out, series>>
      BY <1>1 DEF Bars!NextWindow, BarsInv, BarsTyped
    <2>2. TicksInTime'
      <3>1. \A i \in Bars!Ticks : sent[i].win \in Nat
        BY TickOf DEF BarsInv
      <3> QED
        BY <2>1, <3>1 DEF BarsInv, TicksInTime, Bars!Ticks
    <2> QED
      BY <2>1, <2>2 DEF BarsInv, BarsTyped, PipeInOrder, CurrentIsLatest, Accepted, Piped,
                        Bars!Ticks, Whole, Bars!TradesOf
  <1>2. CASE Bars!Close \/ UNCHANGED Bars!vars
    BY <1>2 DEF Bars!Close, Bars!vars, BarsInv, BarsTyped, TicksInTime, PipeInOrder,
                CurrentIsLatest,
                Accepted, Piped, Bars!Ticks, Whole, Bars!TradesOf
  <1> QED
    BY <1>1, <1>2, SendOK, ForwardOK, AcceptOK, ApplyOK DEF Bars!Next

\* Whatever the ring loses and however far the pump and the aggregator fall
\* behind, a completed bar has the trades of its window that were not lost.
THEOREM CompletedBarsHaveAll == Bars!Spec => []CompletedHasAll
  <1>1. Bars!Init => BarsInv
    BY BarsAssumption, BarsInit
  <1>2. BarsInv /\ [Bars!Next]_(Bars!vars) => BarsInv'
    BY BarsAssumption, BarsStep
  <1>3. BarsInv => CompletedHasAll
    BY DEF CompletedHasAll, Bars!CompletedHasAll, BarsInv, Whole, Elts
  <1> QED
    BY <1>1, <1>2, <1>3, PTL DEF Bars!Spec
=============================================================================
