------------------------------- MODULE Gateway -------------------------------
(***************************************************************************)
(* The IB gateway simulator: its pacing of historical requests, its orders *)
(* and its sessions with their subscriptions.                              *)
(*                                                                         *)
(* The engine's actor handles one command at a time and hands it to one of *)
(* the three, which share no state; a behaviour of the engine is therefore *)
(* an interleaving of one behaviour of each, and what is true of each by   *)
(* itself is true in every interleaving.                                   *)
(***************************************************************************)
EXTENDS GatewayPacing

CONSTANTS
  LastId, Plans, Quotes, PartialThreshold, None,         \* of GatewayOrders
  Sessions, Reqs, Symbols, Orders, MaxLines, MaxTbt      \* of GatewayEngine

VARIABLES
  plan, orders, groups, told, executed, moved,                  \* of GatewayOrders
  sessions, streaming, subs, feed, lines, slots, owner, placer  \* of GatewayEngine

book == <<plan, orders, groups, told, executed, moved>>
engine == <<sessions, streaming, subs, feed, lines, slots, owner, placer>>

Book == INSTANCE GatewayOrders
Engine == INSTANCE GatewayEngine

ASSUME PacingAssumption == Assumptions
ASSUME BookAssumption == Book!Assumptions
ASSUME EngineAssumption == Engine!Assumptions

-----------------------------------------------------------------------------
(* Properties of the orders and the engine; that of the pacing is its own *)

\* Of the exits of a bracket at most one executes, unless a stop-limit was
\* latched by the snapshot that fills its sibling (finalize_fill).
OneExitUnlessLatched == Book!OneExitUnlessLatched

\* An exit never executes before its entry has (place, finalize_fill).
EntryFirst == Book!EntryFirst

\* An order moves the position by its whole quantity or not at all
\* (finalize_fill).
FillsOnce == Book!FillsOnce

\* The fill of an entry leaves none of its exits inactive (finalize_fill).
ExitsArmed == Book!ExitsArmed

\* What is cancelled does not execute (cancel, on_market_snapshot).
CancelledStays == Book!CancelledStays

\* The market-data engine feeds exactly what is subscribed
\* (on_subscribe_market_data, on_unsubscribe_market_data).
FeedIsSubscribed == Engine!FeedIsSubscribed

\* What a connected session has subscribed since it connected is subscribed
\* still, and holds its line or its slot (forget_session with the session).
StreamsAreCounted == Engine!StreamsAreCounted
==============================================================================
