--------------------------- MODULE GatewayEngine ---------------------------
(***************************************************************************)
(* OrchestratedEngine, the actor of the IB gateway simulator, with the     *)
(* line limits it asks for permission                                      *)
(* (crates/midas-ib-sim/src/engine/orchestrator.rs, quirks/line_limit.rs). *)
(*                                                                         *)
(* Sessions, subscriptions, the lines that the limiters count and the      *)
(* subscriptions of the market-data engine are four tables under different *)
(* keys, kept in step by the handlers.  A command is one step.  A command  *)
(* that the message-rate limiter refuses ends its session, which is the    *)
(* step Disconnect; when it does so depends on time, which is left out, as *)
(* are the cooldown of tick-by-tick symbols and historical pacing.         *)
(***************************************************************************)
EXTENDS Naturals, FiniteSets

CONSTANTS
  Sessions,  \* SessionIds
  Reqs,      \* ReqIds
  Symbols,   \* the contracts
  Orders,    \* OrderIds
  MaxLines,  \* max_lines_per_session
  MaxTbt,    \* max_tbt
  None

\* What reserves an L1 line (real-time bars do as "L1" does), a tick-by-tick
\* slot, and neither.
L1Modes == {"L1", "Snapshot"}
Modes == L1Modes \cup {"TickByTick", "Historical"}
Subscription == [mode : Modes, symbol : Symbols]

\* What an instance of this module gives its constants.
Assumptions ==
  /\ MaxLines \in Nat \ {0} /\ MaxTbt \in Nat \ {0}
  /\ None \notin Sessions \cup Symbols \cup Subscription

VARIABLES
  sessions,   \* the connected sessions
  streaming,  \* per session: streaming_reqs
  subs,       \* subscriptions: (session, req) -> mode and symbol, or None
  feed,       \* the subscriptions of the market-data engine
  lines,      \* LineLimiter: per session, the requests that hold a line
  slots,      \* TickByTickLimiter: per session, the requests that hold a slot
  owner,      \* order_sessions: per order
  placer      \* history: per order, the session whose order is in the book

vars == <<sessions, streaming, subs, feed, lines, slots, owner, placer>>

Init ==
  /\ sessions = {}
  /\ streaming = [s \in Sessions |-> {}]
  /\ subs = [p \in Sessions \X Reqs |-> None]
  /\ feed = {}
  /\ lines = [s \in Sessions |-> {}]
  /\ slots = [s \in Sessions |-> {}]
  /\ owner = [o \in Orders |-> None]
  /\ placer = [o \in Orders |-> None]

Active(s, modes) == {r \in Reqs : subs[<<s, r>>] # None /\ subs[<<s, r>>].mode \in modes}
SubKey(s, r, y) == [session |-> s, req |-> r, symbol |-> y]

-----------------------------------------------------------------------------
\* on_start_api: a session that is there already keeps its state.
StartApi(s) ==
  /\ sessions' = sessions \cup {s}
  /\ UNCHANGED <<streaming, subs, feed, lines, slots, owner, placer>>

\* on_place_order: the simulator of the orders refuses a second order of the
\* same id, but the session becomes its owner in any case.
PlaceOrder(s, o) ==
  /\ owner' = [owner EXCEPT ![o] = s]
  /\ placer' = [placer EXCEPT ![o] = IF @ = None THEN s ELSE @]
  /\ UNCHANGED <<sessions, streaming, subs, feed, lines, slots>>

\* reserve_l1, reserve: a request that holds a line already is let through.
Reserves(held, r, cap) == r \in held \/ Cardinality(held) < cap

\* The test for a duplicate (session, req_id).
Fresh(s, r) == subs[<<s, r>>] = None

\* on_subscribe_market_data: what is refused changes nothing, and nobody asks
\* whether the session is connected.  An error of the market-data engine would
\* come after the reservation and leave it; no engine there is returns one.
Subscribe(s, r, y, mode) ==
  /\ Fresh(s, r)
  /\ \/ /\ mode \in L1Modes
        /\ Reserves(lines[s], r, MaxLines)
        /\ lines' = [lines EXCEPT ![s] = @ \cup {r}]
        /\ UNCHANGED slots
     \/ /\ mode = "TickByTick"
        /\ Reserves(slots[s], r, MaxTbt)
        /\ slots' = [slots EXCEPT ![s] = @ \cup {r}]
        /\ UNCHANGED lines
     \/ /\ mode = "Historical"
        /\ UNCHANGED <<lines, slots>>
  /\ feed' = feed \cup {SubKey(s, r, y)}
  /\ subs' = [subs EXCEPT ![<<s, r>>] = [mode |-> mode, symbol |-> y]]
  /\ streaming' = [streaming EXCEPT ![s] = IF s \in sessions THEN @ \cup {r} ELSE @]
  /\ UNCHANGED <<sessions, owner, placer>>

\* release_l1.
ReleaseL1(s, r) == lines' = [lines EXCEPT ![s] = @ \ {r}]

\* on_unsubscribe_market_data of a request that is subscribed, whatever its mode.
Unsubscribe(s, r) ==
  /\ subs[<<s, r>>] # None
  /\ feed' = feed \ {SubKey(s, r, subs[<<s, r>>].symbol)}
  /\ subs' = [subs EXCEPT ![<<s, r>>] = None]
  /\ ReleaseL1(s, r)
  /\ streaming' = [streaming EXCEPT ![s] = @ \ {r}]
  /\ UNCHANGED <<sessions, slots, owner, placer>>

\* Mutant: the subscriptions go too, and the feed is not told.
ForgetSubs(gone) ==
  /\ sessions' = sessions \ gone
  /\ streaming' = [s \in Sessions |-> IF s \in gone THEN {} ELSE streaming[s]]
  /\ lines' = [s \in Sessions |-> IF s \in gone THEN {} ELSE lines[s]]
  /\ slots' = [s \in Sessions |-> IF s \in gone THEN {} ELSE slots[s]]
  /\ subs' = [p \in Sessions \X Reqs |-> IF p[1] \in gone THEN None ELSE subs[p]]
  /\ UNCHANGED <<feed, owner, placer>>

\* The state of the sessions gone, and forget_session of the limiters.
Forget(gone) ==
  /\ sessions' = sessions \ gone
  /\ streaming' = [s \in Sessions |-> IF s \in gone THEN {} ELSE streaming[s]]
  /\ lines' = [s \in Sessions |-> IF s \in gone THEN {} ELSE lines[s]]
  /\ slots' = [s \in Sessions |-> IF s \in gone THEN {} ELSE slots[s]]
  /\ UNCHANGED <<subs, feed, owner, placer>>

\* Mutant: the limiters are cleared, the session is not.
OnlyLimits(s) ==
  /\ s \in sessions
  /\ lines' = [lines EXCEPT ![s] = {}]
  /\ slots' = [slots EXCEPT ![s] = {}]
  /\ UNCHANGED <<sessions, streaming, subs, feed, owner, placer>>

\* on_inject_disconnect, also after a message too many.
Disconnect(s) == s \in sessions /\ Forget({s})

\* on_inject_daily_restart.
DailyRestart == sessions # {} /\ Forget(sessions)

Next ==
  \/ \E s \in Sessions :
       \/ StartApi(s) \/ Disconnect(s)
       \/ \E o \in Orders : PlaceOrder(s, o)
       \/ \E r \in Reqs : \/ \E y \in Symbols, m \in Modes : Subscribe(s, r, y, m)
                          \/ Unsubscribe(s, r)
  \/ DailyRestart

Spec == Init /\ [][Next]_vars

-----------------------------------------------------------------------------
(* Properties *)

\* The types of the tables; the limiters stay within their caps.
TypeOK ==
  /\ sessions \subseteq Sessions
  /\ streaming \in [Sessions -> SUBSET Reqs]
  /\ subs \in [Sessions \X Reqs -> Subscription \cup {None}]
  /\ feed \subseteq [session : Sessions, req : Reqs, symbol : Symbols]
  /\ \A s \in Sessions : /\ lines[s] \subseteq Reqs /\ Cardinality(lines[s]) <= MaxLines
                         /\ slots[s] \subseteq Reqs /\ Cardinality(slots[s]) <= MaxTbt
  /\ owner \in [Orders -> Sessions \cup {None}]
  /\ placer \in [Orders -> Sessions \cup {None}]

\* The market-data engine feeds exactly what is subscribed, under the symbol it
\* was subscribed with (on_subscribe_market_data, on_unsubscribe_market_data).
FeedIsSubscribed ==
  feed = {SubKey(p[1], p[2], subs[p].symbol) : p \in {q \in Sessions \X Reqs : subs[q] # None}}

\* No line is held for a request that streams nothing, across unsubscribes,
\* disconnects and reconnects (release_l1, forget_session).
LinesAreUsed == \A s \in Sessions : lines[s] \subseteq Active(s, L1Modes)

\* What a connected session has subscribed since it connected is subscribed
\* still, and holds its line or its slot (forget_session with the session).
StreamsAreCounted ==
  \A s \in sessions :
    /\ streaming[s] \subseteq Active(s, Modes)
    /\ streaming[s] \cap Active(s, L1Modes) \subseteq lines[s]
    /\ streaming[s] \cap Active(s, {"TickByTick"}) \subseteq slots[s]

\* What the documentation says of tick-by-tick slots: they count concurrent
\* subscriptions.
SlotsAreUsed == \A s \in Sessions : slots[s] \subseteq Active(s, {"TickByTick"})

\* What it says of lines: so many streams per session at a time.
ActiveWithinCap == \A s \in Sessions : Cardinality(Active(s, L1Modes)) <= MaxLines

\* What it says of snapshots: they take no line.
SnapshotsAreExempt == \A s \in Sessions : lines[s] \cap Active(s, {"Snapshot"}) = {}

\* What it says of session_for_order: it is the session that placed the order.
OwnerPlacedIt == owner = placer
=============================================================================
