------------------------------ MODULE MCDesktop ------------------------------
(***************************************************************************)
(* The desktop application for TLC.  An instance checks its parts side by  *)
(* side: the initial state says which of them moves.  The windows appear   *)
(* twice: as the constants have them, with a system that may not open what *)
(* it is asked to, and with names that change.                             *)
(***************************************************************************)
EXTENDS Desktop, TLC

VARIABLE part  \* the part that moves

PanelKinds == {"chart", "other", "session"}

\* Two windows may be opened under one other name, and may take more than five
\* seconds; or one is opened and any may get another name.
Renamed == INSTANCE Workspace WITH MaxOpen <- 1, Renames <- TRUE, Stalls <- FALSE

ASSUME RenamedAssumption == Renamed!Assumptions

desktop == <<part, vars, desk, bars>>

\* What does not move starts in one of its initial states; one is enough.
DesktopInit ==
  /\ part \in {"desk", "renamed", "stalled", "bars"}
  /\ Init /\ (part \notin {"renamed", "stalled"} => minted = 1)
  /\ Desk!Init /\ (part # "desk" => ready)
  /\ Bars!Init

DeskMoves == part = "desk" /\ Desk!Next /\ UNCHANGED <<part, vars, bars>>
RenamedMove == part = "renamed" /\ Renamed!Next /\ UNCHANGED <<part, desk, bars>>
StalledMove == part = "stalled" /\ Next /\ UNCHANGED <<part, desk, bars>>
BarsMove == part = "bars" /\ Bars!Next /\ UNCHANGED <<part, vars, desk>>

DesktopNext == DeskMoves \/ RenamedMove \/ StalledMove \/ BarsMove
DesktopSpec == DesktopInit /\ [][DesktopNext]_desktop

\* The bars alone, with the fairness of their tasks.
BarsSpec == part = "bars" /\ DesktopSpec /\ Bars!Fairness

\* Clicks and symbols are interchangeable: every property ranges over all.
DeskSymmetry == Permutations(Clicks) \cup Permutations(Symbols)

-----------------------------------------------------------------------------
(* Properties beside those of Desktop *)

\* Types, and what else holds of the parts.
Types == TypeOK /\ Desk!TypeOK /\ Bars!TypeOK
RowsInOrder == Bars!RowsInOrder
RowsOnlyGrow == Bars!RowsOnlyGrow
PaintedAfterRollover == Bars!PaintedAfterRollover

\* What comments and the documentation say of the bars and the code does not keep,
\* one at a time; what they say of the windows stands in Workspace.
TradesArePainted == Bars!TradesArePainted
WindowsComplete == Bars!WindowsComplete
SameHighAfterLag == Bars!SameHighAfterLag
==============================================================================
