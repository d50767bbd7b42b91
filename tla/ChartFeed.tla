------------------------------ MODULE ChartFeed ------------------------------
(***************************************************************************)
(* How a chart of the desktop application gets its bars (midas-app: app.rs,*)
(* app/handlers.rs, app/ticker_wiring.rs, app/chart_subscription.rs,       *)
(* app/subscription_registry.rs).  A chart is bound to a symbol and a      *)
(* timeframe.  Its history comes from a load that the application starts   *)
(* and whose answer is a message; its live bars come from a stream that    *)
(* iced runs for the binding, over a handle parked in a registry of the    *)
(* process, where two tasks may put it: the stream, when it finds none,    *)
(* and a task spawned when the symbol was bound.                           *)
(*                                                                         *)
(* A handler of MidasApp::update is one action; tasks run beside it.  A    *)
(* buffer of candles is reduced to where its history came from and whether *)
(* live bars are in it or missing from it.  Not modelled: cameras, quotes, *)
(* the ticks of TickerState, and hiding a chart, which nothing does.       *)
(***************************************************************************)
EXTENDS Naturals, Sequences

CONSTANTS
  Charts, Symbols, Timeframes,
  None,        \* no symbol, no history, no stream
  Watched,     \* the symbols that are in a watchlist at first
  Lags,        \* may a stream fall behind?
  \* At most MaxAsk handlers start a load or a subscription, and InboxSize
  \* messages of one chart wait for the application.
  MaxAsk, InboxSize

ASSUME FeedAssumption ==
  /\ None \notin Symbols /\ Watched \subseteq Symbols /\ Lags \in BOOLEAN
  /\ MaxAsk \in Nat /\ InboxSize \in Nat \ {0}

VARIABLES
  open,      \* the charts that exist
  chart,     \* their panels: symbol, timeframe, load_generation, load_state, data
  watch,     \* the symbols that some watchlist has
  tickers,   \* the symbols that have a TickerState
  ready,     \* is the router there?
  asked,     \* handlers that started something
  loads,     \* loads under way
  warms,     \* spawned subscriptions under way
  registry,  \* the keys under which a bar handle is parked
  stream,    \* what iced runs for each chart
  inbox      \* the messages of each chart that the application has not handled

app == <<open, chart, watch, tickers, ready, asked>>
vars == <<app, loads, warms, registry, stream, inbox>>

Keys == [chart : Charts, symbol : Symbols, tf : Timeframes]
Key(c) == [chart |-> c, symbol |-> chart[c].symbol, tf |-> chart[c].tf]
Bound(c) == c \in open /\ chart[c].symbol # None

History == [symbol : Symbols, tf : Timeframes, source : {"router", "provider"},
            live : BOOLEAN, hole : BOOLEAN]
Load == [n : 0 .. MaxAsk, chart : Charts, symbol : Symbols, tf : Timeframes,
         gen : 0 .. MaxAsk, source : {"router", "provider"}, restore : BOOLEAN]
Loaded == [kind : {"loaded"}, load : Load, ok : BOOLEAN, hole : BOOLEAN]
Batch == [kind : {"batch"}, key : Keys]
Resync == [kind : {"resync"}]

\* The load that load_chart_with starts for chart c, whose panel is p.
LoadOf(c, p, restore) ==
  [n |-> asked', chart |-> c, symbol |-> p.symbol, tf |-> p.tf, gen |-> p.gen,
   source |-> IF ready THEN "router" ELSE "provider", restore |-> restore]

\* The tasks that prewarm_chart_bar_sub spawns for the charts S.
WarmsOf(S, symbol) ==
  IF ready THEN {[n |-> asked', key |-> [chart |-> c, symbol |-> symbol, tf |-> chart[c].tf]]
                   : c \in S}
           ELSE {}

\* Mutant: the key is computed after the chart has been bound.
EvictedLate(S, symbol) == {[Key(c) EXCEPT !.symbol = symbol] : c \in S}

\* What bind_chart_to_symbol removes from the registry.
Evicted(S, symbol) == {Key(c) : c \in {d \in S : chart[d].symbol # symbol}}

-----------------------------------------------------------------------------
\* A started application: on the simulator the router is there; the restored
\* charts load.  Empty charts stand for those opened later.
Init ==
  /\ open = Charts /\ ready \in BOOLEAN
  /\ \E s \in [Charts -> Symbols \cup {None}], t \in [Charts -> Timeframes] :
       chart = [c \in Charts |->
                  [symbol |-> s[c], tf |-> t[c], gen |-> 0, data |-> None,
                   load |-> IF s[c] = None THEN "empty" ELSE "loading"]]
  /\ loads = {[n |-> 0, chart |-> c, symbol |-> chart[c].symbol, tf |-> chart[c].tf, gen |-> 0,
               source |-> IF ready THEN "router" ELSE "provider", restore |-> TRUE]
                 : c \in {d \in Charts : chart[d].symbol # None}}
  /\ watch = Watched /\ tickers = Watched
  /\ asked = 0 /\ warms = {} /\ registry = {}
  /\ stream = [c \in Charts |-> None] /\ inbox = [c \in Charts |-> <<>>]

-----------------------------------------------------------------------------
(* What the user does.  S is the chart and those linked to it. *)

Ask == asked < MaxAsk /\ asked' = asked + 1

\* Mutant: the candles of the old symbol stay until the new ones are there.
SetSymbolKeeps(S, symbol) ==
  /\ Ask
  /\ chart' = [c \in Charts |->
                 IF c \in S THEN [chart[c] EXCEPT !.symbol = symbol, !.gen = @ + 1,
                                                  !.load = "loading"]
                            ELSE chart[c]]
  /\ registry' = registry \ Evicted(S, symbol)
  /\ warms' = warms \cup WarmsOf(S, symbol)
  /\ tickers' = tickers \cup {symbol}
  /\ loads' = loads \cup {LoadOf(c, chart'[c], FALSE) : c \in S}
  /\ UNCHANGED <<open, watch, ready, stream, inbox>>

\* A symbol is typed, dropped or clicked: load_symbol_for_chart for each chart.
SetSymbol(S, symbol) ==
  /\ Ask
  /\ chart' = [c \in Charts |->
                 IF c \in S THEN [chart[c] EXCEPT !.symbol = symbol, !.gen = @ + 1,
                                                  !.load = "loading", !.data = None]
                            ELSE chart[c]]
  /\ registry' = registry \ Evicted(S, symbol)
  /\ warms' = warms \cup WarmsOf(S, symbol)
  /\ tickers' = tickers \cup {symbol}
  /\ loads' = loads \cup {LoadOf(c, chart'[c], FALSE) : c \in S}
  /\ UNCHANGED <<open, watch, ready, stream, inbox>>

\* A timeframe is picked, by hand or by joining a link group.
SetTimeframe(S, tf) ==
  /\ Ask
  /\ chart' = [c \in Charts |->
                 IF c \in S THEN [chart[c] EXCEPT !.tf = tf,
                                    !.load = IF chart[c].symbol = None THEN @ ELSE "loading"]
                            ELSE chart[c]]
  /\ registry' = registry \ {Key(c) : c \in {d \in S : chart[d].tf # tf}}
  /\ loads' = loads \cup {LoadOf(c, chart'[c], FALSE) : c \in {d \in S : Bound(d)}}
  /\ UNCHANGED <<open, watch, tickers, ready, warms, stream, inbox>>

\* ResetChart loads again what the chart shows.
ResetChart(c) ==
  /\ Ask /\ Bound(c)
  /\ chart' = [chart EXCEPT ![c].load = "loading"]
  /\ loads' = loads \cup {LoadOf(c, chart[c], FALSE)}
  /\ UNCHANGED <<open, watch, tickers, ready, warms, registry, stream, inbox>>

\* A click on the chart binds it to the symbol it has.
ActivateChart(c) ==
  /\ Ask /\ Bound(c)
  /\ warms' = warms \cup WarmsOf({c}, chart[c].symbol)
  /\ tickers' = tickers \cup {chart[c].symbol}
  /\ UNCHANGED <<open, chart, watch, ready, loads, registry, stream, inbox>>

CloseChart(c) ==
  /\ c \in open /\ open' = open \ {c}
  /\ registry' = {k \in registry : k.chart # c}
  /\ UNCHANGED <<chart, watch, tickers, ready, asked, loads, warms, stream, inbox>>

\* The last watchlist with the symbol loses it: its TickerState goes.
WatchlistRemoveTicker(s) ==
  /\ s \in watch
  /\ watch' = watch \ {s} /\ tickers' = tickers \ {s}
  /\ UNCHANGED <<open, chart, ready, asked, loads, warms, registry, stream, inbox>>

\* The connection to IB is up.
RouterReady ==
  /\ ~ready /\ ready' = TRUE
  /\ UNCHANGED <<open, chart, watch, tickers, asked, loads, warms, registry, stream, inbox>>

-----------------------------------------------------------------------------
(* Tasks. *)

Send(c, m) == Len(inbox[c]) < InboxSize /\ inbox' = [inbox EXCEPT ![c] = Append(@, m)]

Answer(l, ok) ==
  /\ l \in loads /\ loads' = loads \ {l}
  /\ Send(l.chart, [kind |-> "loaded", load |-> l, ok |-> ok, hole |-> FALSE])
  /\ UNCHANGED <<app, warms, registry, stream>>

\* A spawned subscription succeeds and parks its handle, or fails.
Prewarmed(w) ==
  /\ w \in warms /\ warms' = warms \ {w}
  /\ registry' \in {registry, registry \cup {w.key}}
  /\ UNCHANGED <<app, loads, stream, inbox>>

\* iced compares the streams it runs with those that chart_subscriptions wants:
\* a stream ends with its key, and a new key gets a new stream.
Wanted(c) == IF ready /\ Bound(c) THEN Key(c) ELSE None
Running(c) == IF stream[c] = None THEN None ELSE stream[c].key

Diff ==
  /\ \E c \in Charts : Running(c) # Wanted(c)
  /\ stream' = [c \in Charts |-> IF Running(c) = Wanted(c) THEN stream[c]
                                 ELSE IF Wanted(c) = None THEN None
                                 ELSE [key |-> Wanted(c), at |-> "start"]]
  /\ UNCHANGED <<app, loads, warms, registry, inbox>>

At(c, place) == stream[c] # None /\ stream[c].at = place
Go(c, place) == stream' = [stream EXCEPT ![c].at = place]

\* Mutant: the stream waits for the handle that the spawned task parks.
WaitForHandle(c) ==
  /\ At(c, "start") /\ stream[c].key \in registry
  /\ Go(c, "live")
  /\ UNCHANGED <<app, loads, warms, registry, inbox>>

\* chart_stream_builder: a parked handle, or a subscription of its own.
FindHandle(c) ==
  /\ At(c, "start")
  /\ IF stream[c].key \in registry THEN Go(c, "live") ELSE Go(c, "asking")
  /\ UNCHANGED <<app, loads, warms, registry, inbox>>

Subscribed(c) ==
  /\ At(c, "asking")
  /\ \/ Go(c, "live") /\ registry' = registry \cup {stream[c].key}
     \/ Go(c, "ended") /\ UNCHANGED registry
  /\ UNCHANGED <<app, loads, warms, inbox>>

SendBars(c) ==
  /\ At(c, "live") /\ Send(c, [kind |-> "batch", key |-> stream[c].key])
  /\ UNCHANGED <<app, loads, warms, registry, stream>>

\* The stream fell behind: the bars it missed are in no history asked for before.
Lag(c) ==
  /\ Lags /\ At(c, "live") /\ Len(inbox[c]) < InboxSize
  /\ LET Missed(m) == IF m.kind = "loaded" /\ m.load.symbol = stream[c].key.symbol
                      THEN [m EXCEPT !.hole = TRUE] ELSE m
     IN inbox' = [inbox EXCEPT ![c] = Append([i \in DOMAIN @ |-> Missed(@[i])],
                                             [kind |-> "resync"])]
  /\ chart' = IF chart[c].data # None /\ chart[c].data.symbol = stream[c].key.symbol
              THEN [chart EXCEPT ![c].data.hole = TRUE] ELSE chart
  /\ UNCHANGED <<open, watch, tickers, ready, asked, loads, warms, registry, stream>>

\* The upstream closes.
CloseStream(c) ==
  /\ At(c, "live") /\ Go(c, "ended")
  /\ UNCHANGED <<app, loads, warms, registry, inbox>>

-----------------------------------------------------------------------------
(* The handlers of their messages. *)

Next1(c, kind) ==
  /\ inbox[c] # <<>> /\ Head(inbox[c]).kind = kind
  /\ inbox' = [inbox EXCEPT ![c] = Tail(@)]

\* The guard of DataLoaded and DataRestoredFromStartup.
IsCurrent(c, l) == chart[c].symbol = l.symbol /\ chart[c].gen = l.gen

Discard(c) ==
  /\ Next1(c, "loaded")
  /\ c \notin open \/ ~IsCurrent(c, Head(inbox[c]).load)
  /\ UNCHANGED <<app, loads, warms, registry, stream>>

Apply(c) ==
  /\ Next1(c, "loaded") /\ c \in open
  /\ LET m == Head(inbox[c])
         l == m.load
     IN /\ IsCurrent(c, l) /\ m.ok
        /\ chart' = [chart EXCEPT ![c].load = "loaded",
                       ![c].data = [symbol |-> l.symbol, tf |-> l.tf, source |-> l.source,
                                    live |-> FALSE, hole |-> m.hole]]
        /\ warms' = IF l.restore /\ ready
                    THEN warms \cup {[n |-> 0, key |-> Key(c)]} ELSE warms
        /\ tickers' = IF l.restore THEN tickers \cup {l.symbol} ELSE tickers
  /\ UNCHANGED <<open, watch, ready, asked, loads, registry, stream>>

LoadError(c) ==
  /\ Next1(c, "loaded") /\ c \in open
  /\ LET m == Head(inbox[c])
     IN /\ IsCurrent(c, m.load) /\ ~m.ok
        /\ chart' = [chart EXCEPT ![c].load = "error",
                                  ![c].data = IF m.load.restore THEN @ ELSE None]
  /\ UNCHANGED <<open, watch, tickers, ready, asked, loads, warms, registry, stream>>

\* ChartBarBatch and ChartSubBarBatch name the chart only.
Fold(c) ==
  /\ Next1(c, "batch")
  /\ chart' = IF c \in open /\ chart[c].data # None
              THEN [chart EXCEPT ![c].data.live = TRUE] ELSE chart
  /\ UNCHANGED <<open, watch, tickers, ready, asked, loads, warms, registry, stream>>

\* ChartResync only remembers when it was last sent.
ChartResync(c) ==
  /\ Next1(c, "resync")
  /\ UNCHANGED <<app, loads, warms, registry, stream>>

Handle(c) == Discard(c) \/ Apply(c) \/ LoadError(c) \/ Fold(c) \/ ChartResync(c)

User ==
  \/ \E S \in SUBSET open \ {{}} : \/ \E s \in Symbols : SetSymbol(S, s)
                                   \/ \E t \in Timeframes : SetTimeframe(S, t)
  \/ \E c \in Charts : ResetChart(c) \/ ActivateChart(c) \/ CloseChart(c)
  \/ \E s \in Symbols : WatchlistRemoveTicker(s)

Tasks ==
  \/ RouterReady \/ Diff
  \/ \E l \in loads, ok \in BOOLEAN : Answer(l, ok)
  \/ \E w \in warms : Prewarmed(w)
  \/ \E c \in Charts : \/ FindHandle(c) \/ Subscribed(c) \/ SendBars(c)
                       \/ Lag(c) \/ CloseStream(c)

Next == User \/ Tasks \/ \E c \in Charts : Handle(c)

\* iced runs the event loop and the streams; a subscription is answered
\* (Router!SubscribeAnswered) and so is a request for history (with_op_timeout).
Fairness ==
  /\ WF_vars(Diff)
  /\ \A c \in Charts : WF_vars(FindHandle(c)) /\ WF_vars(Subscribed(c)) /\ WF_vars(Handle(c))
  /\ WF_vars(\E l \in loads, ok \in BOOLEAN : Answer(l, ok))

Spec == Init /\ [][Next]_vars /\ Fairness

-----------------------------------------------------------------------------
(* Properties. *)

\* Every variable has its type.
TypeOK ==
  /\ open \subseteq Charts /\ watch \subseteq Symbols /\ tickers \subseteq Symbols
  /\ ready \in BOOLEAN /\ asked \in 0 .. MaxAsk
  /\ chart \in [Charts -> [symbol : Symbols \cup {None}, tf : Timeframes, gen : 0 .. MaxAsk,
                          data : History \cup {None},
                          load : {"empty", "loading", "loaded", "error"}]]
  /\ loads \subseteq Load /\ warms \subseteq [n : 0 .. MaxAsk, key : Keys]
  /\ registry \subseteq Keys
  /\ stream \in [Charts -> [key : Keys, at : {"start", "asking", "live", "ended"}] \cup {None}]
  /\ \A c \in Charts : /\ Len(inbox[c]) <= InboxSize
                      /\ \A i \in DOMAIN inbox[c] : inbox[c][i] \in Loaded \cup Batch \cup Resync

\* Whatever the order in which loads are answered, the candles that a chart
\* shows are those of its symbol: the guard of DataLoaded.
DataIsOfSymbol ==
  \A c \in open : chart[c].data # None => chart[c].data.symbol = chart[c].symbol

\* A chart that says "loading" has a load under way, or its answer waiting,
\* that DataLoaded will not discard: no chart loads for ever.
LoadingHasLoad ==
  \A c \in open : chart[c].load = "loading" =>
    \/ \E l \in loads : l.chart = c /\ IsCurrent(c, l)
    \/ \E i \in DOMAIN inbox[c] : /\ inbox[c][i].kind = "loaded"
                                 /\ IsCurrent(c, inbox[c][i].load)

\* A chart leaves nothing parked under the binding it leaves: a symbol or a
\* timeframe that changes, for the chart itself or through a link, and a
\* chart that closes, take the handle of before out of the registry.
SwitchEvicts ==
  [][\A c \in open : Bound(c) /\ (c \notin open' \/ Key(c) # Key(c)')
                     => Key(c) \notin registry']_vars

\* A chart that stays on a binding gets a stream of that binding, unless the
\* subscription fails or its upstream closes: chart_subscriptions and the
\* stream's own subscription cover what the spawned one misses.
BoundChartsGoLive ==
  \A c \in Charts, k \in Keys :
    Wanted(c) = k ~> \/ Wanted(c) # k
                     \/ \E at \in {"live", "ended"} : stream[c] = [key |-> k, at |-> at]

-----------------------------------------------------------------------------
(* What comments of the code say, and the code does not do. *)

\* "Generation counter incremented on every load request. Used to discard
\* stale DataLoaded messages" (app.rs): so a chart that has loaded shows the
\* timeframe it is set to.  A change of timeframe does not count.
DataIsOfTimeframe ==
  \A c \in open : chart[c].load = "loaded" => chart[c].data.tf = chart[c].tf

\* "The historical prefix was loaded at the chart's own timeframe"
\* (handle_router_msg): the bars that are folded into a buffer are of its
\* timeframe.  The bars of a new timeframe come before its history.
PrefixIsOwn ==
  [][\A c \in open : Fold(c) /\ chart[c].data # None
                       => Head(inbox[c]).key.tf = chart[c].data.tf]_vars

\* "a chart that rebinds ... must leave exactly one registry entry behind,
\* not two" (the tests of subscription_registry.rs): when no subscription is
\* under way, what is parked for a chart is its binding.  A spawned
\* subscription parks its handle without looking at the chart again.
OneEntryPerChart ==
  \A k \in registry :
    (~ \E w \in warms : w.key.chart = k.chart) => k.chart \in open /\ k = Key(k.chart)

\* A load "prefers the router's own provider so the chart shares the exact
\* historical source" of the live bars (load_chart_with): no buffer has the
\* history of the test provider and bars of the router.  Charts restored
\* before the connection is up keep what the test provider made up.
OneSource ==
  \A c \in open : chart[c].data # None /\ chart[c].data.live => chart[c].data.source = "router"

\* On a lag of its stream a chart is to "rebuild the historical prefix"
\* (Message::ChartResync): bars that are missing do not stay away.
HolesAreFilled ==
  \A c \in Charts : LET Hole == c \in open /\ chart[c].data # None /\ chart[c].data.hole
                    IN Hole ~> ~Hole

\* The TickerState of a symbol that the last watchlist drops goes, as "no
\* consumer is left on the app side" (WatchlistRemoveTicker).  A chart may be.
ForgottenIsUnused ==
  [][\A s \in tickers \ tickers' : ~ \E c \in open : chart[c].symbol = s]_vars

=============================================================================
