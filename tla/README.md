# Verification of Hand of Midas

TLA+ specifications, model-checking runs and proofs kept beside the code of
[Hand of Midas](../src/README.md), a trading terminal in Rust.  They cover the
parts of the program where concurrent tasks, a broker and a crash can disagree:

* the fan-out of **market data** from one broker connection to every chart,
  ticker and watchlist, its bar aggregators, and the joint of history and live bars;
* **bracket orders**: their submission, undo and cancellation leg by leg, and the
  simulated client that executes them;
* the desktop application's **order desk**, which finds the ids of the orders
  it has submitted, its write-behind **ticker-state store**, its **windows and
  panels**, and the **data of its charts**, classic and session-aware;
* the **pacing governor** before IB's historical data;
* the **gateway simulator** that integration tests run against: its order book, its
  subscriptions and its historical pacing.

Run from this directory:

    tlc -workers 2 -config RouterSafety.cfg MCRouter.tla
    tlc -workers 2 -config BracketSubmit.cfg MCBracketSubmit.tla
    tlapm RouterProofs.tla
    tlapm BracketSubmitProofs.tla

`PROJECT.json` lists the runs and their modules, the components with their
sources and status, where each definition comes from, the hazards with the
properties that watch them, the findings and the theorems.

## The system

The repository holds two Cargo workspaces: the platform crates in `crates/`
and the desktop application in `desktop/win/crates/`.  The components with
concurrent or persistent state of their own:

| component | state | operations | what makes it correct |
|---|---|---|---|
| **MarketDataRouter** (`midas-market-data/src/router`) | `per_symbol`: symbol -> hub; per hub three refcounts, two publisher JoinHandles, the end-reason watch; the control mpsc | subscribe ticks / bars / quote watch, drop of a handle, upstream close, shutdown | one upstream per symbol and lane while somebody uses it and none afterwards; exact refcounts; nobody is cut off by others leaving; every call is answered |
| **Aggregator task** (`aggregator/task.rs`) | the open bar, `dirty`, `zero_streak`, `last_bar_slot` | fold, rollover, lag, coalesced emit, auto-exit | windows in order, completed bars whole, nothing folded is lost |
| **Aggregator registry** (`aggregator/registry.rs`) | map (symbol, timeframe) -> entry with refcount and JoinHandle, behind one async Mutex | subscribe, spawned release, last_bar | one aggregator per key, exact refcounts, no leak |
| **History/live seam** (`router/history_seam.rs`) | a live handle, the boundary `t_server` | `history_then_live`, polls of its stream | in order, no duplicate, and a gap no wider than the joint |
| **Simulated order client** (`midas-broker/src/sim/order_client.rs`) | orders, bracket links, the rejection counter | place, modify, cancel, price moves | a bracket works as a whole; one exit cancels the other; no exit without an entry |
| **Bracket submitter** (`midas-broker/src/bracket.rs`) | none of its own, up to three orders at the broker | place, cancel, modify a bracket | all legs or none; no orphan leg |
| **Order desk** (`midas-app/src/app`) | per symbol the live bracket; annotation links; `ib_to_uuid` | confirm in a panel, submit at the chart, answers of the broker | an order id leads to the bracket it was submitted for |
| **Ticker-state store** (`midas-app/src/ticker_state/persist.rs`) | cache and dirty marks behind two locks, a flush thread, two redb tables | open with migration, upsert, forget, shutdown | nothing written is forgotten; no row goes back |
| Order status machine, persistence (`orders/state`, `persist`) | orders and audit rows in SQLite | transitions, fills, recovery | only legal transitions; used by tests only |
| **Pacing governor** (`ib/pacing.rs`) | a bucket for all requests, one per key, cooldowns | acquire, in awaits | IB's pacing limits are never exceeded; waits are bounded |
| **Gateway orders** (`midas-ib-sim/src/orders`) | the orders of a bracket, their fills, OCA latches | place, cancel, prices, snapshots | positions move once per fill; one exit; what is cancelled stays so |
| **Gateway engine** (`midas-ib-sim/src/engine`) | sessions, subscriptions, line and tick-by-tick counters, order owners | connect, subscribe, unsubscribe, place, disconnect | counters are those of the subscriptions; a session acts on its own orders |
| **Gateway pacing** (`midas-ib-sim/src/quirks/historical_pacing.rs`) | per session a pruned window and the last time of each key | check, forget_session | answers are those of the three regimes |
| **Windows and panels** (`midas-app/src/app`) | windows, their system ids, pending opens, layouts, homes of panels, session panels and pumps | open, attach, watchdog, close, rename, split, move, presets | every panel is in one window; lookups that `view` asserts succeed |
| **Chart feed** (`midas-app/src/app`) | binding, buffer and load of a chart, parked handles, running streams | bind, load, subscribe, fold, resync, close | a chart shows data of what it is bound to, and gets live bars |
| **Session chart bars** (`midas-bars-adapter/src/aggregator`) | ticks under way, a bar in progress, the series | tick, rollover, apply | completed bars whole, in order, and final |
| IB adapter (`ib/market_data.rs`, `ib/order_client.rs`) | connection state, order id watch, event pumps | connect, place, modify, cancel | `Ready` only when usable; unique order ids |

How they interact: an application component (chart stream, ticker, watchlist)
calls the router, which returns an RAII handle.  The router's **control
actor** is one task that drains one FIFO channel.  It awaits the broker
adapter's `resolve_contract` and `subscribe_*` itself, one open at a time.  A
**publisher task** per hub and lane owns the upstream stream and fans its
items out on the hub's broadcast channel or quote watch.  Dropping a handle
sends a DecRef over the same channel; so do publishers whose upstream closes
(UpstreamClosed) and the drop of the router (Shutdown).  `subscribe_bars` goes
through the **registry**, which takes a bar handle from the router and spawns
an **aggregator task** around it; dropping a bar handle spawns a task that
takes the registry's Mutex and gives the reference back.  `history_then_live`
takes a handle of 5 s bars first, asks the adapter for history, and chains
history and the filtered handle into one stream.

A confirm in an order panel, or a submit at a draft bracket on a chart, makes
the application spawn `BracketSubmitter::place_bracket`, which places up to
three orders through the order client, one call after the other, and cancels
what it placed if one fails.  Its answer comes back as a message, and the
order desk stamps the ids into a link between broker and chart.  Every change
of a ticker goes to the ticker-state store, whose thread commits it later.

A chart keeps candles loaded by one task and live bars sent by another: binding a chart
to a symbol starts a history load and a task that subscribes to bars and parks the
handle in a registry, from which the stream of the chart takes it, or else it
subscribes itself.  All of them report to the application as messages, long after
the chart may have been bound to something else or closed.  Windows are opened by the
system and report back in the same way.

What is hard about it: control messages name a symbol and not a hub, so they
can arrive after their hub has been replaced; `JoinHandle::abort` takes effect
later, and a task past its last await ignores it; callers may drop their
future at any await; the registry holds its lock across a call of the router;
receivers lag and lose bars; orders fill while the calls that undo or cancel
them are under way, and a call that failed may have been taken; answers carry a
symbol and not the click they answer; two locks guard one update of the store,
its transactions fail, and the process may die between any two steps; the system may open a window
late or never, and a window can be renamed meanwhile; answers to loads come in any order.

## Modules

| module | what it is |
|---|---|
| `Router`, `MCRouter`, `RouterProofs` | the control actor, its callers and its publisher tasks |
| `BarFold` | `run_aggregator` |
| `BarRegistry` | the registry and the life cycle of its tasks |
| `Aggregator`, `BarProofs` | `BarFold` and `BarRegistry` in one module |
| `SimOrders` | the order book of the simulated client, as operators and parts of actions |
| `BracketLife` | the abstract specification of bracket orders |
| `BracketSubmit`, `MCBracketSubmit`, `BracketSubmitProofs` | the submitter composed with `SimOrders` (EXTENDS); implements `BracketLife` |
| `TickerStore`, `MCTickerStore`, `TickerStoreProofs` | the write-behind store |
| `Pacing`, `MCPacing`, `PacingProofs` | the governor and its token buckets |
| `ChartFeed` | history and live bars of the application's charts |
| `HistorySeam` | `history_then_live` with the ring it reads from |
| `ChartData`, `MCChartData`, `ChartFeedProofs` | `ChartFeed` and `HistorySeam` in one module |
| `GatewayOrders` | a bracket in the order book of the gateway simulator |
| `GatewayEngine` | its sessions, subscriptions and order owners |
| `GatewayPacing` | its guard of historical requests; implements `PacingRule` |
| `PacingRule` | the abstract rule of historical pacing, over everything that was admitted |
| `Gateway`, `MCGateway`, `GatewayProofs` | the three parts of the simulator in one module |
| `Workspace` | windows and panels of the desktop application |
| `OrderDesk` | from clicks to order ids |
| `SessionBars` | from ticks to the series of a session chart |
| `Desktop`, `MCDesktop`, `DesktopProofs` | the three parts of the application in one module |

`Aggregator`, `ChartData`, `Gateway` and `Desktop` put parts of one process side by
side: each EXTENDS one of them, instantiates the others, and states their assumptions
(`RegistryAssumption`, `SeamAssumption`, `BookAssumption`, ...) and properties under its own
names.  The handlers of such parts run one at a time and share none of the modelled
state, or what one knows of the other is already left open in it.  A behaviour of the process
interleaves one behaviour of each part, and a property of one part
holds of the whole exactly if it holds of the part.  The interleavings are therefore
not multiplied out: a run lets one part move while the others stand still.  In `Aggregator`, `FoldAlone` and
`RegistryAlone` say which, and in `MCChartData`, `MCGateway` and
`MCDesktop` a variable `part`, chosen at the start, says it, so that one run shows all parts.

Operators named as mutants in a comment ("Mutant: ...") are plausible bugs of
the definition that follows them, used to show that each property can fail.

### Router

A member of `Calls` is one subscribe call, and also names the handle, hub and
publisher that the call may create.  So hubs have generations in the model
although the code addresses them by symbol; the handlers of the model, like
the code's, never look at them, and only the history variables `crossed` and
`lost` and the field `from` of messages, which properties read, do.

| model | code |
|---|---|
| `Subscribe`, `Abandon` | the three public subscribe methods up to the await of the reply, and the drop of that future |
| `GrantShared` | a subscribe on a hub whose lane has an unfinished publisher |
| `BeginOpen`, `OpenOk`, `OpenFailed` | any other subscribe: the actor awaits (`job`), then spawns, inserts, counts and replies, or gives the error back |
| `Reply` | the oneshot send; a dropped receiver drops the handle in it, whose guard sends a DecRef |
| `DropHandle`, `DropRouter` | the guards' and the router's `Drop` |
| `DecRef`, `DecRefIgnored` | `handle_dec_ref` with `maybe_reap`; unknown symbol and underflow |
| `UpstreamClosed`, `Shutdown` | `handle_upstream_closed`; `abort_all_publishers` and the end of the loop |
| `Publish`, `PublishToNobody`, `LoseUpstream`, `Finish` | one iteration of a publisher with a receiver and without, `RecvError::Closed`, the end of the task |

The first subscribe of a symbol and the subscribe on a hub whose lane is idle
are the same actions: both await, then install a publisher and count; only the
hub differs.  A publisher that has decided to return is `exiting`: still not
`is_finished()`, and deaf to `abort`.  An aborted task may still take steps
until `Finish`, as a task polled on another thread may.

Simplifications.  The drop of a handle is one step: the receiver goes before
the guard's send, and no other task can observe the moment between them except
through an item that finds no receiver, which may also come just after.
`contract_cache` only decides whether an open makes one request or two, and
both are inside `job`.  The backlog counter, `previously_disconnected`, the
debug dump and `Lagged` at a publisher change nothing a handler reads.  Sending
on `end_reason_tx` is void when no receiver is left, which nobody can notice;
`ended` records that it was sent.

### BarFold

5 s bars are numbered in order of `ts_open`; they may be missing but not out
of order.  A folded bar is its window and the set of 5 s bars in it.  `ring`
and `missed` are tokio's broadcast receiver: a receiver that is overtaken gets
one `Lagged` and then the oldest bar still retained.  The awaits inside the
loop (the write lock of `last_bar_slot` after a rollover or a timer emit) are
separate steps, at which an abort can strike and 5 s bars can arrive.
`select!` picks either ready branch.

### BarRegistry

`lock` is the call that keeps the Mutex across its await of the router; every
other critical section has no await and is one step.  Which waiter gets the
Mutex is left open (tokio is FIFO).  The router is reduced to "grants or
fails"; that it does one of the two is `Router!SubscribeAnswered`.  An
aggregator task runs, is past its last await, or has ended.  The registry
lives in `RouterState`, so it goes (`TearDown`) when the actor has processed
Shutdown.  Not modelled: the branch of the guard that skips the release
when there is no tokio runtime.

### HistorySeam

Time is counted in slots of 5 s.  A live bar is named by its slot, and
historical bar `w` covers `Width` slots from `w * Width` on.  The receiver of the
stream is the place `next` in the ring; the ring's content is not stored, as it
follows from `published`, `missed` and `next`.

| model | code |
|---|---|
| `Tick`, `Publish`, `LoseBar`, `Close` | the market; `run_rt_bar_publisher`, sending or skipping what it lost to lag; the end of the hub |
| `Subscribe`, `Ask`, `Answer`, `Fail` | the awaits of `history_then_live`: the live subscription first, `resolve_contract`, `historical_bars` |
| `Histories`, `tServer` | what the adapter returns: whole windows, with or without the one that is forming, and the end of the last as `last_ts` |
| `PollHistory`, `PollLive`, `PollLagged`, `PollClosed` | polls of the chained stream; the filter `ts_open > t_server`; `GuardedStream` |

Prices are left out, as is the failure of `subscribe_rt_bars`, after which there is
no stream.  Slots start at 0 and history is complete from there on; a bar that begins before
`t_server` counts as covered by it, also one of a forming window that came after the answer.

### SimOrders, BracketSubmit and BracketLife

`SimOrders` is the book: an order is named by its bracket and leg, with a
status and the price that triggers it.  Every method of `SimOrderClient` holds
one Mutex without an await, so each is one step; its parts (activation,
one-cancels-all, limit and stop passes) are operators on the book, applied in
the order of the code, so that one price can fill an entry, its exit and its stop in one
step as `set_market_price` does.  A fill is all or nothing because
`execute_fill` emits its tranches inside one call.  Cash, positions, commissions
and events are written and not read.

| model | code |
|---|---|
| `PlaceOrder`, `CancelOrder`, `ModifyOrder`, `SetMarketPrice` | the four methods, with the deterministic rejections (`NextCount`, `Rejects`) |
| `Activate`, `Submit`, `Armed` | `activate_bracket` for the parent and for its children |
| `AfterLimits`, `AfterStops`, `OcaOf` | `check_limit_fills`, `check_stop_triggers`, `check_oca_inner` |
| `Call`, `NoIds`, `Place`, `PlaceFails`, `UndoEntry`, `UndoTp` | `place_bracket` between two of its awaits |
| `StartCancel`, `CancelLeg` | `cancel_bracket`, one leg per step |
| `Drag` | `modify_bracket_leg` |

`config.flaky` turns the client into one whose calls may fail with or without having
been taken, which is what `IbOrderClient` and its time-outs look like to the
submitter; the gateway behind it is then assumed to execute brackets as the
simulator does.  `lost` records that a cancel request went missing, after
which no property promises anything of that bracket's legs.

`BracketLife` says what a bracket is for: the entry fills or dies, at most one exit
fills, and only after the entry, unless the bracket is `exposed`: the simulator
arms stop children before their entry has filled, so a price can reach them
first when the entry cannot fill on a price or the stop lies on the wrong side
of it.  The refinement maps statuses to phases and filled legs to a count.

### TickerStore

A state is the number of the upsert that wrote it.  Cache and dirty marks have
a lock each, so `upsert` and `forget` are two steps (`Upsert` or `Forget`, then `Mark`) and a
pass of the flush thread is up to six (`StartPass`, `Drain`, `Read`, `Write` or `WriteFails`,
`ReMark`, `Signal`), all interleaved.  `Stop` is a crash or an exit at any point: only the tables
stay.  `Open` hydrates from the new table, without the rows that do not deserialize, migrates from the
old one what is not in the cache then, and commits the whole cache; any set of rows of either table may be
unreadable at any start (`Hydrated`), and `skipped` remembers those of the new one.  The debounce and `flush_now` only say when a pass begins, and here one may
begin at any time.  redb is taken at its word: a commit that returned is
durable, a failed one has no effect.

### OrderDesk

The application handles one message at a time, so a message is a step; calls of
`place_bracket` are a set of tasks answered in any order, and `BracketSubmit` is
reduced to "ids or an error".

| model | code |
|---|---|
| `ConfirmPanel`, `SubmitChart` | `ConfirmYes` and `handle_chart_bracket_submit`, with all messages they send before they return |
| `Placed`, `PlaceFailed`, `EffectEnds` | `BracketPlaceResult` and the end of the effect `SubmitToBroker` |
| `EnsureDraft`, `CloseBracket`, `RouterReady` | the draft on the chart; the arrival of the order client |
| `Waiting`, `MostRecent` | the search for a provisional link by symbol and age |

A click at the chart needs a bracket there: the button is drawn for drafts only (`decorators.rs`), and the
handlers do not look again.  Left out are the broker's order events after the ids are known
(`BrokerBracketStatusChanged`) and `BrokerEvent::BracketCreated`, which re-key and remove links: in this repository only the
broker injection of the development harness sends them (`dev_harness/broker_inject.rs`), and the streams of the router never do.

`overlap` is a history variable: the code documents that its search is right for
sequential submissions only, and the properties say what holds of those.

### Pacing

`acquire_historical` of one caller is cut at its awaits: `Begin` tests the cooldown of the key
and draws a sleep, `TakeTotal`/`MissTotal` and `TakeKey`/`MissKey` are the polls of the bucket for
all requests and of the bucket of the key, each under its own Mutex.  Time is discrete, and the level
of a bucket is counted in parts of `1/period` of a token, so that refill loses no
fraction.  `Tick` may not pass a caller whose sleep is over.  The code cools a key down after every
grant, and not only "after hitting the identical-key burst limit" as its comment has it.
The counter of streaming lines is a cap for which nobody waits and is left out.

### GatewayOrders

Three ids, an entry and two exits, over prices 1..4.  Each command and each price is one step, as the engine
handles one command at a time: `place` with activation, the fill model (limit, stop, stop-limit; tight and wide
spread), partial fills for quantities over a threshold, and the bracket group.  The profit and the prices of
fills are left out, as are scenario verbs that delay, repeat or reorder reports.

Ids are `1 .. LastId`, and `plan` gives each the order that a client places under it.  A snapshot collects its
candidates first and meets them one after the other, as the `for` of `on_market_snapshot` does: `Visited[n]` is the book
after those up to `n`.  `finalize_fill` is a chain of operators on the book as a record (`Executes`, `Activates`,
`CancelsSibling`).  `IsBracketed` says what makes a plan one of brackets: an exit is a limit or a stop, of each one at most, on
the same side, with the limit beyond the stop.

### GatewayEngine

Sessions, requests and orders are model values.  A subscription is its mode (a line, real-time bars, a snapshot,
tick-by-tick, historical) and symbol; the line and tick-by-tick counters are those of
`QuirksRuntime`.  When the message-rate limiter refuses is left open.  An error of `market_data.subscribe` after the line or
slot has been reserved, which would leave the reservation behind (`orchestrator.rs:510-523`), is left out: no engine in the repository
returns one.

### GatewayPacing and PacingRule

`check` prunes, tests the three regimes in their order and records, in one step.  `admitted` is a history
variable that is never pruned; `PacingRule` answers from it, and the refinement says that the answers are
the same.  A cost is a number of units, and costs are added up by counting units (`CostOfEntries`).  With the default parameters the cooldown of 15 s hides the burst regime of 2 s altogether: a second
identical request within 2 s is refused by the burst test only if six were admitted in that time, which the cooldown forbids.  The run
has a shorter cooldown so that all three refuse.

### Workspace

| model | code |
|---|---|
| `windows` (main flag, system id, panes), `main`, `focused`, `keyOf`, `pending` | `windows`, `main_window_key`, `focused_window`, `iced_id_to_key`, `pending_window_opens` |
| `os` | the system: windows asked for, opened, closed; it may open late or never |
| `data`, `home` | the panel maps and `panel_to_window` |
| `building`, `arriving`, `pumps` | session panels whose pipeline is being built, built and not yet received, and the pump tasks |

A layout is the set of the contents of its panes: which pane is split or focused is left open.  Order, account and watchlist panels are
one kind.  The view of each window asserts that its lookups succeed; `Alive` is that assertion, and a state in
which it fails has no successor, as the program has panicked.  Closing the main window ends the program and is left
out.  `RenameWindow` is sent by the development harness only, and session charts are behind a cargo
feature; `MCDesktop` has an instance with renames and one with a system that stalls, because
together they lead to findings 9.

### ChartFeed

| model | code |
|---|---|
| `SetSymbol`, `SetTimeframe`, `ResetChart`, `ActivateChart`, `CloseChart`, `WatchlistRemoveTicker`, `RouterReady` | the messages of the user and of the connection, each with the loads and evictions it makes, for a chart and those linked to it |
| `Answer`, `Prewarmed` | the spawned tasks of a load and of `prewarm_chart_bar_sub` |
| `Diff`, `FindHandle`, `Subscribed`, `SendBars`, `Lag`, `CloseStream` | the subscription of a chart: compared by the iced runtime, started, fed and ended |
| `Discard`, `Apply`, `LoadError`, `Fold`, `ChartResync` | the handlers of what tasks and streams send |

A buffer is reduced to where its history came from and whether live bars are in it or missing from it.  A stream
that has ended is not restarted while its key stays the same, as iced does.  `reload_all_charts` runs only with a second
data provider, and one is registered.  Quote and tick streams have registries of the same kind and are not modelled.

### SessionBars

Ticks are numbered, and a bar is its window and the ticks in it.  The pipeline is built on the simulated provider only: `Send` is
`tick_once`, or the burst at a subscribe, which is over before the first pass of the loop, and `Close` is
`drop_all_subs_with_reason`.  The provider stamps a tick when it sends it, so windows do not go back.  `Fold` may emit or not: the rate limit of 4 a second depends on time only.  `Accept` takes one tick when nothing is pending
and leaves up to two candles, which `Apply` writes one by one.  `HistoryThenLive` and the capped
series are composed by tests and examples only, and nothing calls `flush_if_due` besides tests.
Windows follow each other; a tick outside the calendar's coverage is ignored like a quote.

## Runs

| run | bounds | shows |
|---|---|---|
| `router_safety` | 3 calls, 1 symbol, auto-exit after 1 item | `PublisherOwned`, `RefcountsExact`, `NothingLeaks`, `HandleKeepsHub` |
| `router_live` | 2 calls, 2 symbols, auto-exit after 2 | `SubscribeAnswered`, `IdleSymbolGoesQuiet`, `LostHubCloses` |
| `router_stale_decref` | 3 calls, 1 symbol | violation of `ClosedHasReason` |
| `bar_fold` | 5 bars in 3 windows of 2, ring of 2, auto-exit after 2 | `OutInOrder`, `CompletedIsWhole`, `FoldedIsEmitted` |
| `bar_registry` | 3 calls, 2 keys | `RefcountsExact`, `NothingLeaks`, `SubscribeAnswered`, `IdleKeyGoesQuiet`, `ShutdownCloses` |
| `bracket_submit` | 2 brackets of 4 shapes, 4 configurations, prices 1..4, 1 drag | `OneCancelsOther`, `FailedSubmitIsDead`, `CancelledIsDead`, `ImplementsBracketLife` |
| `ticker_store` | 2 symbols, 2 callers, 3 upserts, 1 failed transaction, 1 stop, any rows unreadable at a start | `UnsavedIsPending`, `ClosedIsSaved`, `NeverGoesBack`, `EventuallySaved` |
| `ticker_store_skipped` | the same | violation of `NewTableWins` |
| `pacing` | 2 callers, 2 keys, buckets of 2 in 4 and 1 in 2, cooldown 3, 5 ticks | `WindowBound` |
| `chart_data` | feed: 1 chart, 2 symbols, 2 timeframes, 1 request of the user, lags; seam: bars of 3 slots, ring of 2, 7 slots | `DataIsOfSymbol`, `SwitchEvicts`, `BoundChartsGoLive`; `LiveHasNoHole`, `OnlySeamIsMissing`, `InOrder` |
| `gateway` | orders: 3 ids, prices 1..4, quantities over and under the threshold; engine: 2 sessions, 2 requests, 1 symbol, 1 order, 1 line, 1 tick-by-tick; pacing: 3 requests, 4 in 4, 2 in 2, cooldown 1, 7 ticks | `OneExitUnlessLatched`, `EntryFirst`, `ExitsArmed`, `StreamsAreCounted`, `ImplementsRule` |
| `desktop` | order desk: 3 clicks, 2 symbols; windows: 2 names, 1 open with renames or 2 opens with a stalling system, 3 panels; session bars: 4 ticks in 3 windows, a ring of 1, a buffer of 2 | `IdsTranslate`, `PanelIdsAreOwn`, `PanelsAreLinked`, `TargetPresent`, `CompletedHasAll` |

Beside the runs there are configurations of what else is known of the modules.
`RouterMore`, `GatewayMore`, `DesktopMore`, `SessionBars` (liveness, with `MCDesktop`), `ChartFeedMore` and `PacingAlone` check
further properties, type invariants among them, and hold; most of these are proved as well, and `TypeOK` of
`GatewayOrders` and `SessionBars` are the type invariants that are not.
`RouterAutoExit`, `BarRegistryDead` and `PacingCooldown` end in the counterexamples
of findings 2, 3 and 5.  For those of findings 4 and 6 to 11 the definition that is named there takes the
place of the properties in the configuration of its run (`MCGateway` and `MCDesktop` list them under their own names);
a few need another constant, which the finding says.

Why the bounds are enough.  In `Router`, `BarRegistry` and `BracketSubmit` a call is
made once, and a behaviour ends when the calls are used up, so
`CHECK_DEADLOCK FALSE`; so it does when time is up in `HistorySeam`, and when the store is shut down in
`TickerStore`.  Three calls on one symbol give a hub, its successor, and a handle, DecRef or
UpstreamClosed of the first that meets the second; or three kinds of consumer
on one hub.  Symbols interact only through the queue and the busy actor, which
two symbols show.  The streak thresholds (16 in the code) only say how many
silent items it takes; 1 is the most adversarial value and 2 shows the reset.
For the fold, three windows are the least that have a predecessor and a
successor; a ring of 2 (256 in the code) overflows inside a window and across a
boundary.  Three callers on two keys meet on one key while the third holds
the Mutex for the other.  Seven slots hold two whole windows of three and the beginning of a third, and a ring of two can be overwritten
as a whole while history is fetched.  Brackets share the price and the rejection counter only, so two show every influence;
with four prices one price can lie on either side of, or reach, any subset of three legs, and the four
shapes cover every kind of entry but the stop-limit one, both kinds of stop
and a bracket with a missing leg.  For the store, a symbol can be in the cache, the marks and a batch with
three different states at once, while another one keeps the thread busy.  Three clicks are a link
left over from a failed call, one that waits and one that overlaps.  A clock of 5 or 7 ticks covers a whole window of 4 and what
leaves it.  In the gateway, four prices lie on every side of a bracket as above, and one line for two
sessions is a limit that both hit.  Two windows besides the main one, and one more name than windows for
renames, are the least in which a stale id or name can meet a second owner.  Charts share nothing but the application's messages and
per-chart keys, so one chart with two symbols and two timeframes meets its own late answers; linked charts receive the same
call at once.  Three windows of ticks show a bar with both neighbours, and a ring of one loses at every chance.

Fairness.  `Router`: the runtime keeps polling the actor (`Receive`) and
finished or aborted publishers (`Finish`); `OpenFailed` is weakly fair because
`with_op_timeout` bounds every upstream request by
`ROUTER_ACTOR_OP_TIMEOUT`.  Nothing is assumed of callers, of upstreams or of items
arriving, so idle publishers are shown to end by abort and never by
auto-exit.  `BarFold`: the task is polled and its timer ticks.  `BarRegistry`: as
the router, with the Mutex handed on.  `TickerStore`: the flush thread and a caller
between its two locks are scheduled; transactions need not succeed, which the bound on
failures stands for.  `ChartFeed`: the iced runtime compares subscriptions and polls streams
and tasks (`Diff`, `FindHandle`, `Subscribed`, `Answer`), and the application handles its messages; the user, the market and the
connection owe nothing.  `SessionBars` (for `SessionBars.cfg`): the two pumps are polled.
The other modules state no fairness and claim no liveness.

The properties of `Router` about refcounts carry a proviso, `crossed`: a hub
hit by a message of another hub has lost its guarantee.  That is not an
assumption about the environment but the extent of the defect below;
`NothingLeaks`, `PublisherOwned` and the liveness properties hold without it.

## What the runs found

1. **A stale DecRef reaps the next hub** (`router_stale_decref`).  After an
   upstream close, handles of the old hub send DecRefs by symbol.  If another
   consumer has resubscribed before they are dropped, its hub loses a count it
   never gave, is reaped, and the consumer sees `Closed` with no end reason.
2. **A publisher about to auto-exit counts as running** (`ConsumerHasPublisher`, `RouterAutoExit.cfg`): the
   subscriber gets a handle that is never fed.
3. **A dead aggregator is never closed or replaced** (`JoinsLiveAggregator`, `BarRegistryDead.cfg`): after
   its upstream has closed, consumers wait for ever, and new ones join them.
4. **A failed confirm leaves a link that takes the ids of a later order**
   (`MostRecentIsOwn`): after it, a submit at the chart on the same symbol is
   stamped into the old link, and dragging the old bracket modifies the new orders.
5. **Pacing.**  A bucket that was full lets twice its limit through within one rolling window
   (`RollingWindow`); two callers that have passed the cooldown test together are
   granted identical requests at once (`IdenticalApart`, `PacingCooldown.cfg`); the total wait is not bounded by
   `max_wait`, which each part of it gets anew (`WaitWithinMax`).  The other two properties fail in place of
   `IdenticalApart`, in the same configuration.  With two callers a token of the bucket of all requests can also be spent on a call that
   the bucket of its key then refuses (`TokensAreSpent`, in `Pacing.cfg`).
6. **Orders of the gateway simulator.**  A stop-limit whose stop was reached earlier fills in the same
   snapshot as the take-profit (`OneExit`); a stop entry is reported as filled, stays pre-submitted and can be cancelled
   (`FilledIsFinal`); a fill in
   more than two parts reports executions that do not add up to the position (`ExecutionsMakePosition`); an exit placed
   after its entry has filled never becomes active (`ActiveAfterEntry`).
7. **Its engine.**  Slots are not given back by an unsubscribe (`SlotsAreUsed`), streams that survive a disconnect are not
   counted (`ActiveWithinCap`), snapshots count as lines (`SnapshotsAreExempt`), and a session takes over an order
   of another by placing its id (`OwnerPlacedIt`).
8. **Its pacing** takes two options of one symbol for identical (`IdenticalMeansSame`; `Requests` must hold two).
9. **Windows.**  The view panics on a window given up before it opened (`ViewFindsWindow`); the watchdog closes windows that did
   open (`EvictsOnlyUnopened`) and, after a rename, the main one (`MainExists`, for an instance with both
   `Renames` and `Stalls`); a rename in flight separates names and ids
   (`KeysAndIdsAgree`); a layout preset leaves session charts without a pane (`SessionsArePlaced`); a session chart closed while it is
   built comes back without a home (`SessionsAreHomed`), and its pump is never stopped (`PumpsStop`).
10. **Chart data.**  The late answer of a load for another timeframe is taken (`DataIsOfTimeframe`); live bars of the new timeframe go into
    candles of the old (`PrefixIsOwn`); a subscription granted after the chart has moved on is parked for ever (`OneEntryPerChart`); charts restored before
    the connection keep synthetic history (`OneSource`); bars lost to a lag are never fetched (`HolesAreFilled`); a ticker's state goes while a chart shows it
    (`ForgottenIsUnused`).
11. **Session charts** do not show the last trades of a burst until the next one (`TradesArePainted`, under `BarsSpec`), never complete the last bar of a session
    (`WindowsComplete`, under `BarsSpec`), and can miss a high after a lag, against the comment (`SameHighAfterLag`, with two `Prices`).

12. **A row that cannot be read is overwritten by an older one** (`NewTableWins`, `ticker_store_skipped`).  `hydrate_v2` skips a row of
    the new table that does not deserialize, say because another version of the program wrote it; the migration takes it for missing, seeds
    the row of the old table, which is never emptied, and commits that over it.

The first and the last are the subject of a run each; TLC found the others in the same way, with the configuration or the
definition that is named.

Read from the code while modelling it, and part of the models, but not
stated by a definition (`PROJECT.json`, findings, quotes the lines):

* a stale UpstreamClosed closes a sound hub, by the same addressing as 1;
* a lag inside a window yields a completed bar that is not whole;
* `maybe_reap`'s comment says that the tick publisher is left alone while bars are
  in use; the code aborts it;
* a submit at the chart places its bracket twice (`SubmitChart`);
* the simulator arms stop children before their entry (`Exposed`);
* `forget` leaves the row in the table, and the ticker is back after a restart (`Write`);
* the live bar that opens exactly at `t_server` is in neither part of the stream (`OnlySeamIsMissing`);
* a publisher that lags behind its upstream goes on without a sign (`LoseBar`).

## Proofs

Every theorem holds for every value of the constants, under the named assumptions of
the modules: bounds are natural numbers, capacities and widths positive, null
values outside the sets they complement.  Five theorems have a hypothesis more, which
their `ASSUME` states and which is discussed below.  Each theorem rests on an inductive invariant:
`IInv` of `RouterProofs`, `BarProofs` (of the task), `BracketSubmitProofs`, `TickerStoreProofs`,
`PacingProofs` and `DesktopProofs` (of the windows); `Counts` (router), `RegistryInv` (registry), `FeedInv` and `SeamInv` (chart data),
`UndoOK` (submitter), `DeskInv` and `BarsInv` (desktop), `PacingInv`, `EngineInv` and `OrdersInv` (gateway).  TLC has checked each
of them as an invariant of the instance of its run (with the windows `k` of `DesktopProofs` taken from `Names`).
The theorems about a part that is instantiated are about its own specification
(`Registry!Spec`, `Book!Spec`, ...).

### RouterProofs

For every `Calls`, `Symbols` and `AutoExit`, with no bound on
the channel, from `AutoExitAssumption` (a positive number) and `NoneAssumption`
(`None` is not a call): `TypeCorrect`, `PublishersOwned` (`PublisherOwned`), `GrantsHavePublisher`
(`GrantHasPublisher`), `CountsExact` (`RefcountsExact`), `HandlesKeepHub` (`HandleKeepsHub`) and
`NoLeaks` (`NothingLeaks`).

`PublisherOwned` is not inductive: when the actor finishes an open it overwrites
a slot, and nothing in `PublisherOwned` says that the publisher there has ended, nor
that the name of the new one is unused.  `IInv` adds what is missing:

* `RequestsPending`: a request is in the channel at most once and only while its call
  is unanswered, and the job's request is no longer there;
* `UnansweredIsFresh`: an unanswered call has not opened a hub or spawned a task;
* `JobLaneIdle`: the lane that the actor is opening has no unfinished publisher and stays so,
  since only the actor spawns;
* `SlotTask`: a publisher in a slot is of that hub and lane, and unaborted while it lives.

There is one lemma per action.  Those of callers, of publishers and of teardown
share a frame lemma each (`CallerFrame`, `PublisherFrame`, `TeardownFrame`); `OpenOkStep` is the one
where the conjuncts need each other.

The refcounts need a second invariant, `Counts`, on top of it.  A use of a hub is named by the
DecRef that ends it, which a live handle will send and the channel may hold already, so `Uses` of a set of DecRefs
is the number of live handles that owe one plus the number of places in the queue that hold one.
Every action then adds a use, removes one, or moves one from the handles to the queue.  `HubCounts` says
that an uncrossed hub counts its uses exactly.  Once messages have crossed, this is lost, but
`SymbolCounts` is not: a hub never counts more than the uses of its *symbol*, since every DecRef that
takes a count away is one of the symbol.  With `HubIsUsed` (a hub in the map counts something, or
it would have been reaped) this is why nothing leaks in spite of finding 1: a symbol without
uses cannot have a hub.  `HubSymbol`, `UnansweredIsUnused`, `StoppedIsEmpty` and `HandlesFinite` are what counting needs besides.

### BarProofs

The task, for every width, ring capacity, streak and number of bars: `TypeCorrect`, `EmittedInOrder`
(`OutInOrder`), `SlotFollows` (`SlotIsLatest`) and `CompletedBarsAreWhole`
(`CompletedIsWhole`).  Order of the output is not inductive: it needs that nothing of an emitted bar's
window can still come once the window is completed, so `IInv` speaks about what is *ahead*, in the
ring or still to be published (`RingOK`, `CurrentOK`, `OutOK`).  `NoneLost` follows a bar from the ring through
the open bar to a completed one, as long as there has been no lag.  Windows are
quotients, and their monotonicity is a lemma of its own (`DivBounds` and those after it).  What belongs to a window is stated by the bounds
of the window and not by the quotient of the code; `WindowSpans` is where the two meet.

The registry, for every `Calls` and `Keys`, from `NoCall` being neither a call nor a key (in
particular `Calls` need not be finite): `RegistryTypeCorrect` (with who may hold the Mutex across an await),
`CountsExact` (`RefcountsExact`), `HoldersKeepEntry` (`HolderKeepsEntry`), `TasksOwned` (`TaskOwned`) and
`NoLeaks` (`NothingLeaks`).
A release names its key and not its entry, so everything hangs on one fact: a handle that is
live or being given back is on the entry that the map has under its key, until the
registry is gone (`CallsAgree`).  It survives the release of the last handle because the count
is then exactly one and no other handle can be on that entry (`EntriesCount`,
`OnlyUser`), and it survives an insertion because the Mutex is held from the lookup that found
nothing to the insertion (`CallsAgree` on an "opening" call, with the Mutex part of
`TypeOK`).  `EntriesOwn`, `AbortedSpawned` and `TearDownOrder` say that an entry sits under one key, that
its task is not aborted, and that the registry goes after the last call.
`EntriesCount` carries the finiteness of the handles along, which the cardinalities need.
`NothingLeaks` follows from the invariant: an entry counts at least one handle, and that handle's key
is the entry's.

### ChartFeedProofs

The charts, for any number of them, of symbols, timeframes, requests and messages under way: `FeedTypeCorrect`,
`DataAlwaysOfSymbol` (`DataIsOfSymbol`) and `SwitchesEvict` (`SwitchEvicts`).  `DataIsOfSymbol` is inductive with the
types and the numbering of `FeedInv`: whatever binds a chart to another symbol drops its data, and
whatever brings data, late or not, passes a guard that compares symbols (`IsCurrent`), so the
order of messages in the inbox does not matter.

`history_then_live`, for every `Width`, `Capacity` and `MaxSlot`: `SeamTypeCorrect`, `LiveIsWhole`
(`LiveHasNoHole`), `OnlySeam` (`OnlySeamIsMissing`) and `BarsInOrder` (`InOrder`).
The argument is the order of the calls: the subscription precedes the request for history
(`SubscribedFirst`), so what is older than the subscription is older than the request, and only the
window in which the request was made can lack bars; and history is given before
the receiver moves (`NothingYet`, `HistoryFirst`), so `last` is never beyond the next live bar.

### BracketSubmitProofs

For any number of brackets, any `Menu` of parameters, any positive prices and any configurations:
`TypeCorrect`, `OneCancelsOtherAlways`, `TransmitLastAlways`, `CancelledIsDeadAlways`, `FailedSubmitIsDeadAlways`, and
`ImplementsLife`, the refinement of `BracketLife` (`Spec => ImplementsBracketLife`).

`IInv` is a conjunction of five facts for each bracket, and of one about its cancellation: only its legs are placed, and what is
in the book is linked (`LegsPlaced`); until the last leg is placed all are held (`HeldTogether`); exits
are armed only with their entry, and a take-profit works only after it filled (`EntryFirstOK`);
a filled exit has no live sibling (`OneExit`); nothing works without the last leg (`LastLegPlaced`);
what `cancel_bracket` has passed stays dead (`CancelProgress`).  One lemma
per method of the client says what it does to the statuses of a bracket (`CancelEffect`, `PlaceEffect`,
`FillEffect`, `MarketEffect`), and everything after them argues about statuses only.
The refinement then says of each of these effects which step of `BracketLife` it is; that the stop of a bracket
which is not exposed cannot be hit before its entry is `ExposedStop`.

A submission that fails (`FailedSubmitIsDead`) needs `UndoOK` as well: which call failed is known and
only a flaky client fails (`FailureKnown`), what had been placed before it and what not (`PlacedBefore`), and the
cancel of the entry takes the bracket with it or comes after its fill (`UndoProgress`).  The theorem has
the hypothesis `FlakyNeverRejects`: `reject_every_n` is a knob of the simulator, and the
adapter whose calls may fail has no such counter.

### TickerStoreProofs

For any symbols, callers, upserts, failures and stops: `TypeCorrect`, `NothingForgotten`
(`UnsavedIsPending`), `ShutdownSaves` (`ClosedIsSaved`) and `RowsGetNewer` (`NeverGoesBack`).
`NeverGoesBack` has one exception, which it names: a start that could not read a row may replace it, and only by the row of the
old table; `skipped` is part of the step, so that no other step can hide behind it.  `RowOrder` says that disk, batch and cache are ordered by age where they
have a row at all, which is why a late batch or a migration can put no other old row back.  `PromiseKept` follows a state that was in the store at the call
of `shutdown` through the stages of the thread (`OnItsWay`); in the final pass a mark that
comes after the drain does not help it any more.

### PacingProofs

For any callers, keys and positive parameters: `TypeCorrect`, `BucketBoundsRequests` (`WindowBound`) and
`SleepsAreBounded` (`SleepBounded`).  The bound on a window is not inductive; `Budget` is: the level of a
bucket and the tokens taken from it never exceed the capacity and what time has refilled.

### DesktopProofs

The windows, for any number of names, openings and panels, with and without renames and a stalling system:
`TypeCorrect`, `PanelsAlwaysLinked` (`PanelsAreLinked`), `LoadingAlwaysEnds` (`LoadingEnds`), `TargetWhileMain` and
`TargetAlways` (`TargetPresent`).  That data, home and layout agree is an invariant of each panel (`PanelOK`): of a session
chart only that its pane is where its home says and that something will come to it (`Loading`), of any other
that all three know it or none does (`Linked`), and of both that a panel seen anywhere has been numbered
(`Seen`), so that a fresh number is fresh.  The focus is on a window that is there, or on none (`Focused`).
That the main window itself is there holds without
condition only while it is (`TargetWhileMain`); for ever it needs the hypothesis `~(Renames /\ Stalls)` of `TargetAlways`,
since with both the watchdog closes the main window (finding 9); `MainSafe` says why either alone is harmless.

The order desk, for any clicks and symbols: `DeskTypeCorrect`, `IdsAlwaysTranslate` (`IdsTranslate`) and
`PanelIdsFindTheirLink` (`PanelIdsAreOwn`).  `LastLinkWaits` is the reason for the last: without
overlap the call of a panel is the only one under way, and its link is the last of the list.

The bars of a session chart, for every ring, buffer and sequence of ticks: `CompletedBarsHaveAll`
(`CompletedHasAll`).  Stamps do not decrease (`TicksInTime`), the ring loses what the pump has not read
and never reorders (`PipeInOrder`), and the bar in progress has all accepted trades of the latest window
(`CurrentIsLatest`), so when a tick of a later window comes, nothing of this one can follow (`Whole`).

### GatewayProofs

The guard of historical pacing, for all requests, windows and limits: `GuardTypeCorrect`, `GuardKeepsWhatCounts` (`KeepsWhatCounts`)
and `PacingImplementsRule`, the refinement of `PacingRule` (`ImplementsRule`).  `PacingInv` says that the
pruned window is the end of all that was admitted, and what it lacks is older than the window (`WindowOK`), and that the
cooldowns are the latest times of the keys, but for those that are over (`CoolOK`).  Costs are cardinalities of sets
of units, so that dropping a prefix is a difference of sets (`UnitsSplit`, `UnitsShift`).  The refinement has the hypothesis
`BurstWindow <= Window + 1`: the burst test counts what the pruning has left, which is all that
counts only if the short window is no longer than the rolling one.  `PacingParams` defaults to 2 s and 600 s and
nothing in the code validates other values.

The engine, for all sessions, requests, symbols and limits: `EngineTypeCorrect`, `FeedAlwaysSubscribed`
(`FeedIsSubscribed`) and `StreamsAlwaysCounted` (`StreamsAreCounted`, and that a line is held only for a request
that streams).

The orders, for every number of ids, every plan and every sequence of quotes: `EntryAlwaysFirst` (`EntryFirst`),
`FillsAlwaysOnce` (`FillsOnce`), `CancelledAlwaysStays` (`CancelledStays`), `OneExitAlways` (`OneExitUnlessLatched`) and
`ExitsAlwaysArmed` (`ExitsArmed`).  There is one lemma for each part of `finalize_fill` (`ExecutesOK`, `ActivatesIs`,
`CancelsIs`, `FinalizeOK`), one for a candidate that meets a snapshot (`MeetsOK`), and `VisitsOK` for the
candidates one after the other, by the least candidate after which it would fail.  What a snapshot began with is related to what it has become by `Follows`: nothing
cancelled comes back, nothing active is inactive again.  An exit works only when its group waits no more
(`ExitOK`), a group waits no more only when its parent has filled (`Begun`), and the fill of one exit cancels the other
(`RivalOK`), which matters only between snapshots: `PricesApart` shows that no quote meets both
a limit and a stop on the same side of one bracket.  The last two theorems have the hypothesis that every plan satisfies `IsBracketed`,
which TLC checks of the plans of the run (`BracketsAreBracketed`).

### Only model-checked

* Liveness, as fairness and ENABLED are out of the prover's reach: `SubscribeAnswered`, `IdleSymbolGoesQuiet`,
  `LostHubCloses`, `FoldedIsEmitted`, `IdleKeyGoesQuiet`, `ShutdownCloses`, `EventuallySaved`, `BoundChartsGoLive`,
  `PaintedAfterRollover`.
* `TypeOK` of `GatewayOrders`, whose `executed` depends on the recursive division of a fill into parts; that of
  `SessionBars`, and `RowsInOrder` and `RowsOnlyGrow` of its series; `LoadingHasLoad` of `ChartFeed`;
  `IdenticalApart` and `TokensAreSpent` of `Pacing`, for one caller.

## Not modelled

* **IB adapter** and connection: a translation to the `ibapi` crate and a connect sequence against a real gateway.
  It appears as the upstream of `Router` and `HistorySeam` and as the flaky client of `BracketSubmit`.
* **Order status machine and order repository**: no program opens them, only their tests do.
* **Order-history store**: a second copy of the ticker store's code without `forget` and migration.
* **The rest of `midas-ib-sim`**: wire protocol, market generator, scenarios, and the moment at which the rate limiter
  refuses; serialisation and scripts of tests.
* **Quote and tick streams of the desktop**, whose registries are built like that of bars, and `reload_all_charts`.
* **Aggregator registry outside a runtime**: the guard's branch that skips the release.
* **Desktop store**: an actor in front of a DuckDB file with one request at a time; its content is SQL.
* **Calendar, clock, axis, indicators, scene, rendering, widgets, views, configuration and the unused combinators of bars**: computation or drawing on owned data by a single thread, which unit tests reach; most of the lines of the repository
  are of this kind or wire formats, so the share of lines that the map covers is small while the
  concurrent and persistent core is covered.
