------------------------------- MODULE Desktop -------------------------------
(***************************************************************************)
(* The desktop application: its windows and panels, its order desk, and    *)
(* the bars of a session chart.                                            *)
(*                                                                         *)
(* The handlers of the desk and those of the windows run one at a time and *)
(* touch different tables; the bars of a session chart come through tasks  *)
(* of its own.  A behaviour of the application interleaves one behaviour   *)
(* of each, and what is true of each by itself is true in every            *)
(* interleaving.                                                           *)
(***************************************************************************)
EXTENDS Workspace

CONSTANTS
  Clicks, Symbols, Unused, NoIds,                        \* of OrderDesk
  Prices, RingSize, BufferSize, MaxWindow, MaxTicks      \* of SessionBars

VARIABLES
  ready, live, links, ibToUuid, calls, placed, used, overlap,      \* of OrderDesk
  clock, sent, missed, ring, closed, buffer, current, out, series  \* of SessionBars

desk == <<ready, live, links, ibToUuid, calls, placed, used, overlap>>
bars == <<clock, sent, missed, ring, closed, buffer, current, out, series>>

Desk == INSTANCE OrderDesk
Bars == INSTANCE SessionBars

ASSUME WorkspaceAssumption == Assumptions
ASSUME DeskAssumption == Desk!Assumptions
ASSUME BarsAssumption == Bars!Assumptions

-----------------------------------------------------------------------------
(* Properties of the desk and the bars; those of the windows are their own *)

\* ib_to_uuid and the links agree: every order id leads to the one link that
\* holds it, so that an event is never shown for two brackets or for an old one
\* (BracketPlaceResult, RouterOrderEvent).
IdsTranslate == Desk!IdsTranslate

\* The answer to a confirm in a panel goes to the link of that confirm, if clicks
\* did not overlap with calls, whatever links others have left behind
\* (BracketPlaceResult).
PanelIdsAreOwn == Desk!PanelIdsAreOwn

\* A completed bar holds every trade of its window that was not lost on the way,
\* and nothing else (accept_tick).
CompletedHasAll == Bars!CompletedHasAll
==============================================================================
