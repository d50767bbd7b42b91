----------------------------- MODULE ChartData -----------------------------
(***************************************************************************)
(* The data of the charts: what the desktop application loads, subscribes  *)
(* to and folds for each of its charts (midas-app), and the stream of      *)
(* history and live bars that the router gives to one that asks for both   *)
(* (history_then_live, midas-market-data).                                 *)
(*                                                                         *)
(* ChartFeed loads history and parks handles by itself and does not use    *)
(* the stream; the two are shown one at a time.                            *)
(***************************************************************************)
EXTENDS ChartFeed

CONSTANTS Width, Capacity, MaxSlot
VARIABLES clock, published, missed, channel, phase, sub, next, end, windows, given, live, last

seam == <<clock, published, missed, channel, phase, sub, next, end, windows, given, live, last>>

Seam == INSTANCE HistorySeam WITH open <- channel

ASSUME SeamAssumption == Seam!Assumptions

-----------------------------------------------------------------------------
(* Properties of the stream; those of the charts are their own *)

\* All bars sent to the ring since the subscription that begin after t_server have
\* been given up to the place where the receiver is, also if the ring was
\* overwritten while history was fetched (GuardedStream).
LiveHasNoHole == Seam!LiveHasNoHole

\* What else the stream leaves out is the live bar that begins exactly at t_server
\* and bars of the window in which history was asked for (the live subscription
\* comes before the request).
OnlySeamIsMissing == Seam!OnlySeamIsMissing

\* No bar is given that begins before the end of the one given before it (the
\* filter of history_then_live, Stream::chain).
InOrder == Seam!InOrder
=============================================================================
