---------------------------- MODULE HistorySeam ----------------------------
(***************************************************************************)
(* history_then_live (midas-market-data/src/router/history_seam.rs): one   *)
(* stream of historical bars followed by the live 5 s bars of the router,  *)
(* which is to have neither a gap nor a duplicate where they meet.         *)
(*                                                                         *)
(* Time is counted in slots of 5 s; a live bar is named by its slot, the   *)
(* historical bar w covers the slots from w * Width on.  Time passes and   *)
(* bars are published while the call waits for its answers and while its   *)
(* stream is not polled; the receiver of the stream is a place in the ring *)
(* of the hub's broadcast channel.                                         *)
(***************************************************************************)
EXTENDS Integers, FiniteSets

CONSTANTS
  Width,     \* slots of a historical bar: its timeframe
  Capacity,  \* of the ring of real-time bars
  MaxSlot    \* bound: slots that pass

\* What an instance of this module gives its constants.
Assumptions == Width \in Nat \ {0} /\ Capacity \in Nat \ {0} /\ MaxSlot \in Nat

VARIABLES
  clock,      \* the slot that is forming
  published,  \* slots before this one have been sent to the ring, or
  missed,     \* lost by the publisher, which lags behind its upstream
  open,       \* the channel of the hub is open
  phase,      \* where the call is, and then its stream
  sub,        \* the first slot that the receiver could get
  next,       \* the slot that the receiver gets next
  end,        \* the slot in which history was asked for
  windows,    \* how many bars history consists of
  given,      \* how many of them the stream has given
  live,       \* the live bars that the stream has given
  last        \* where the bar that was given last ends

marketVars == <<clock, published, missed, open>>
callVars == <<phase, sub, end, windows>>
vars == <<marketVars, callVars, next, given, live, last>>

Phases == {"idle", "resolving", "fetching", "streaming", "ended", "failed"}

TypeOK ==
  /\ clock \in Nat /\ published \in 0..clock
  /\ missed \subseteq 0..(published - 1)
  /\ open \in BOOLEAN
  /\ phase \in Phases
  /\ next \in 0..published /\ sub \in 0..next
  /\ end \in 0..clock
  /\ windows \in Nat /\ given \in 0..windows
  /\ live \subseteq 0..(next - 1)
  /\ last \in Nat

Init ==
  /\ clock = 0 /\ published = 0 /\ missed = {} /\ open = TRUE
  /\ phase = "idle"
  /\ sub = 0 /\ next = 0 /\ end = 0 /\ windows = 0
  /\ given = 0 /\ live = {} /\ last = 0

-----------------------------------------------------------------------------
\* The market and the publisher of the hub.
Tick ==
  /\ clock < MaxSlot
  /\ clock' = clock + 1
  /\ UNCHANGED <<published, missed, open, callVars, next, given, live, last>>

Publish ==
  /\ open
  /\ published < clock
  /\ published' = published + 1
  /\ UNCHANGED <<clock, missed, open, callVars, next, given, live, last>>

\* The publisher's own receiver lags: it goes on, and nobody is told.
LoseBar ==
  /\ open
  /\ published < clock
  /\ published' = published + 1
  /\ missed' = missed \cup {published}
  /\ UNCHANGED <<clock, open, callVars, next, given, live, last>>

\* The hub goes: its upstream has closed, or the router shuts down.
Close ==
  /\ open
  /\ open' = FALSE
  /\ UNCHANGED <<clock, published, missed, callVars, next, given, live, last>>

-----------------------------------------------------------------------------
\* The call.  First subscribe_rt_bars, whose receiver starts at the next bar.
Subscribe ==
  /\ phase = "idle"
  /\ open
  /\ phase' = "resolving"
  /\ sub' = published
  /\ next' = published
  /\ UNCHANGED <<marketVars, end, windows, given, live, last>>

\* The contract is known, and history is asked for up to now.
Ask ==
  /\ phase = "resolving"
  /\ phase' = "fetching"
  /\ end' = clock
  /\ UNCHANGED <<marketVars, sub, windows, next, given, live, last>>

\* Either request fails or times out, or history is empty: the handle is
\* dropped with the error.
Fail ==
  /\ phase \in {"resolving", "fetching"}
  /\ phase' = "failed"
  /\ UNCHANGED <<marketVars, sub, end, windows, next, given, live, last>>

\* Whole windows up to the request, and the one that was forming if the provider
\* counts it in.
Histories == {end \div Width, end \div Width + 1} \ {0}

\* Mutant: the subscription is made when history is there.
LateSubscription ==
  /\ phase = "fetching"
  /\ phase' = "streaming"
  /\ windows' \in Histories
  /\ sub' = published
  /\ next' = published
  /\ UNCHANGED <<marketVars, end, given, live, last>>

Answer ==
  /\ phase = "fetching"
  /\ phase' = "streaming"
  /\ windows' \in Histories
  /\ UNCHANGED <<marketVars, sub, end, next, given, live, last>>

\* last_ts of the result: where its last bar ends (ts_close).
tServer == windows * Width

-----------------------------------------------------------------------------
\* Polls of the stream: stream::iter(history) first.
PollHistory ==
  /\ phase = "streaming"
  /\ given < windows
  /\ given' = given + 1
  /\ last' = given' * Width
  /\ UNCHANGED <<marketVars, callVars, next, live>>

\* Mutant: live bars are not filtered.
KeepsAll(slot) == TRUE

\* The filter: ts_open > t_server.
Keeps(slot) == slot > tServer

\* The history has been given, and the receiver is polled.
Tail == phase = "streaming" /\ given = windows

\* What has been sent to the ring and not received.
Unread == (next..(published - 1)) \ missed

\* The oldest of it has been overwritten.
Lagging == Cardinality(Unread) > Capacity

Following(slot) == slot + 1

PollLive ==
  /\ Tail
  /\ ~Lagging
  /\ \E slot \in Unread :
       /\ \A other \in Unread : slot <= other
       /\ next' = Following(slot)
       /\ IF Keeps(slot)
          THEN live' = live \cup {slot} /\ last' = slot + 1
          ELSE UNCHANGED <<live, last>>
  /\ UNCHANGED <<marketVars, callVars, given>>

Ends == phase' = "ended" /\ UNCHANGED <<marketVars, sub, end, windows, next, given, live, last>>

\* Mutant: the receiver goes on with the oldest bar there is.
SkipsLost ==
  /\ Tail
  /\ Lagging
  /\ next' = published - Capacity
  /\ UNCHANGED <<marketVars, callVars, given, live, last>>

\* GuardedStream: Lagged ends the stream, and for good.
PollLagged == Tail /\ Lagging /\ Ends

\* The channel is closed and empty.
PollClosed == Tail /\ ~open /\ Unread = {} /\ Ends

Next ==
  \/ Tick \/ Publish \/ LoseBar \/ Close
  \/ Subscribe \/ Ask \/ Fail \/ Answer
  \/ PollHistory \/ PollLive \/ PollLagged \/ PollClosed

Spec == Init /\ [][Next]_vars

-----------------------------------------------------------------------------
\* No bar is given that begins before the end of the one given before it: there
\* is no duplicate where history and live bars meet, nor anywhere else, however
\* long history took (the filter of history_then_live, Stream::chain).
InOrder ==
  [][/\ given' # given => given * Width >= last
     /\ \A slot \in live' \ live : slot >= last]_vars

\* The live part has no hole that the stream could know of: all bars sent to the
\* ring since the subscription that begin after t_server have been given up to the
\* place where the receiver is, also if the ring was overwritten while history
\* was fetched.  Holes are left only by the publisher (GuardedStream).
LiveHasNoHole == live = {slot \in sub..(next - 1) : slot > tServer} \ missed

\* What else the stream leaves out: the live bar that begins exactly at t_server,
\* and of the window that was forming when history was asked for, bars from
\* before the subscription if the provider does not count that window in.
\* Nothing is lost for the time that history takes (subscription before history).
\* What begins before t_server counts as covered by history: of a forming window
\* that the provider counts in, also what came after the answer, which the
\* filter leaves out and the bar of the answer could not have in it.
OnlySeamIsMissing ==
  Tail =>
    \A slot \in (0..(next - 1)) \ missed :
      \/ slot < tServer
      \/ slot \in live
      \/ slot = tServer
      \/ slot < sub /\ slot \div Width = end \div Width
=============================================================================
