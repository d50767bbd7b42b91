---------------------------- MODULE BarRegistry ----------------------------
(***************************************************************************)
(* BarAggregatorRegistry: at most one aggregator task per (symbol,         *)
(* timeframe), shared and refcounted                                       *)
(* (crates/midas-market-data/src/aggregator/registry.rs).                  *)
(*                                                                         *)
(* One async Mutex guards the map.  A first subscribe holds it across its  *)
(* await of MarketDataRouter::subscribe_rt_bars, of which this module      *)
(* knows only that it succeeds or fails: Router models it.  The drop of a  *)
(* handle spawns a task that takes the Mutex to give the reference back.   *)
(* BarFold models the body of an aggregator; here it runs or has ended.    *)
(*                                                                         *)
(* A member of Calls is one subscribe call.  It also names the aggregator  *)
(* entry it inserts, if it inserts one, and that entry's task.             *)
(***************************************************************************)
EXTENDS Naturals, FiniteSets

CONSTANTS
  Calls,  \* subscribe calls; a behaviour makes each at most once
  Keys,   \* (SymbolKey, Timeframe) pairs of a supported timeframe
  None    \* Option::None

\* What an instance of this module gives its constants.
Assumptions == None \notin Calls \cup Keys

VARIABLES
  call,      \* per call: its progress, key and the aggregator it was given
  lock,      \* the call that holds the Mutex across an await
  entry,     \* the map: aggregators
  refcount,  \* AggregatorEntry.refcount
  task,      \* per aggregator: its task
  aborted,   \* tasks whose entry has been dropped
  dropped,   \* the last Arc<MarketDataRouter> is gone
  gone       \* ... and the registry has been dropped with the actor's state

vars == <<call, lock, entry, refcount, task, aborted, dropped, gone>>

Init ==
  /\ call = [c \in Calls |-> [st |-> "unused", key |-> None, agg |-> None]]
  /\ lock = None
  /\ entry = [k \in Keys |-> None]
  /\ refcount = [e \in Calls |-> 0]
  /\ task = [t \in Calls |-> "none"]
  /\ aborted = {}
  /\ dropped = FALSE
  /\ gone = FALSE

-----------------------------------------------------------------------------
InState(S) == {c \in Calls : call[c].st \in S}

\* Call c goes on to state st.
Advance(c, st) == call' = [call EXCEPT ![c].st = st]

\* The lock is free and is given to a call that waits for it in state st.
Locks(c, st) == call[c].st = st /\ lock = None

\* What c finds in the map under its key.
Found(c) == entry[call[c].key]

\* receiver_count() of bars_tx.
Receivers(e) == {c \in InState({"holding"}) : call[c].agg = e}

TaskLive(t) == task[t] \in {"running", "exiting"}

-----------------------------------------------------------------------------
(* BarAggregatorRegistry::subscribe *)

\* Up to the await of the Mutex; the call holds an upgraded Arc of the router.
Subscribe(c, k) ==
  /\ ~dropped
  /\ call[c].st = "unused"
  /\ call' = [call EXCEPT ![c] = [st |-> "waiting", key |-> k, agg |-> None]]
  /\ UNCHANGED <<lock, entry, refcount, task, aborted, dropped, gone>>

\* Mutant: only the first subscriber is counted.
JoinUncounted(c) ==
  /\ Locks(c, "waiting")
  /\ Found(c) # None
  /\ call' = [call EXCEPT ![c] = [st |-> "holding", key |-> @.key, agg |-> Found(c)]]
  /\ UNCHANGED <<lock, entry, refcount, task, aborted, dropped, gone>>

\* The key has an entry: its broadcast is shared, whatever its task does.
Join(c) ==
  /\ Locks(c, "waiting")
  /\ Found(c) # None
  /\ call' = [call EXCEPT ![c] = [st |-> "holding", key |-> @.key, agg |-> Found(c)]]
  /\ refcount' = [refcount EXCEPT ![Found(c)] = @ + 1]
  /\ UNCHANGED <<lock, entry, task, aborted, dropped, gone>>

\* Otherwise the router is asked for the symbol's 5 s bars.
BeginOpen(c) ==
  /\ Locks(c, "waiting")
  /\ Found(c) = None
  /\ Advance(c, "opening")
  /\ lock' = c
  /\ UNCHANGED <<entry, refcount, task, aborted, dropped, gone>>

\* The router grants them: spawn the aggregator, insert its entry, count.
OpenOk(c) ==
  /\ call[c].st = "opening"
  /\ lock' = None
  /\ call' = [call EXCEPT ![c] = [st |-> "holding", key |-> @.key, agg |-> c]]
  /\ entry' = [entry EXCEPT ![call[c].key] = c]
  /\ refcount' = [refcount EXCEPT ![c] = 1]
  /\ task' = [task EXCEPT ![c] = "running"]
  /\ UNCHANGED <<aborted, dropped, gone>>

\* Mutant: the failing call keeps the Mutex.
OpenFailedLocked(c) ==
  /\ call[c].st = "opening"
  /\ Advance(c, "over")
  /\ UNCHANGED <<lock, entry, refcount, task, aborted, dropped, gone>>

\* The router fails: the error goes to the caller, and nothing was inserted.
OpenFailed(c) ==
  /\ call[c].st = "opening"
  /\ lock' = None
  /\ Advance(c, "over")
  /\ UNCHANGED <<entry, refcount, task, aborted, dropped, gone>>

\* The caller drops the subscribe future at one of its two awaits, and the
\* MutexGuard with it.
Abandon(c) ==
  /\ call[c].st \in {"waiting", "opening"}
  /\ Advance(c, "over")
  /\ lock' = IF lock = c THEN None ELSE lock
  /\ UNCHANGED <<entry, refcount, task, aborted, dropped, gone>>

-----------------------------------------------------------------------------
(* AggGuard::drop *)

\* Mutant: a handle without its guard.
DropHandleUnguarded(c) ==
  /\ call[c].st = "holding"
  /\ Advance(c, "over")
  /\ UNCHANGED <<lock, entry, refcount, task, aborted, dropped, gone>>

\* The receiver goes at once; the rest is left to a spawned task.
DropHandle(c) ==
  /\ call[c].st = "holding"
  /\ Advance(c, "releasing")
  /\ UNCHANGED <<lock, entry, refcount, task, aborted, dropped, gone>>

\* There is a reference to give back.
Counted(e) == e # None /\ refcount[e] > 0

\* Mutant: off by one.
BelowLastReference(e) == refcount[e] = 0

\* The fetch_sub of the release returns 1.
LastReference(e) == refcount[e] = 1

\* Mutant: the JoinHandle is dropped, which does not abort its task.
JoinHandlesDropped(E) == aborted

\* Drop of the entries E: JoinHandle::abort on their tasks.
Aborted(E) == aborted \cup E

\* The spawned task gives the reference back to the key's entry, and drops the
\* entry with its last reference.
Release(c) ==
  LET e == Found(c)
      last == LastReference(e)
  IN  /\ Locks(c, "releasing") /\ ~gone
      /\ Counted(e)
      /\ Advance(c, "over")
      /\ refcount' = [refcount EXCEPT ![e] = @ - 1]
      /\ entry' = IF last THEN [entry EXCEPT ![call[c].key] = None] ELSE entry
      /\ aborted' = IF last THEN Aborted({e}) ELSE aborted
      /\ UNCHANGED <<lock, task, dropped, gone>>

\* The registry is gone, or the key has no entry, or none to give back.
ReleaseIgnored(c) ==
  /\ Locks(c, "releasing")
  /\ ~gone => ~Counted(Found(c))
  /\ Advance(c, "over")
  /\ UNCHANGED <<lock, entry, refcount, task, aborted, dropped, gone>>

-----------------------------------------------------------------------------
(* The aggregator tasks and the end of the router *)

\* ZERO_STREAK_AUTO_EXIT ticks in a row have found no receiver.
AutoExits(t) ==
  /\ task[t] = "running"
  /\ Receivers(t) = {}
  /\ task' = [task EXCEPT ![t] = "exiting"]
  /\ UNCHANGED <<call, lock, entry, refcount, aborted, dropped, gone>>

\* The router's 5 s bars have closed.
LoseUpstream(t) ==
  /\ task[t] = "running"
  /\ task' = [task EXCEPT ![t] = "exiting"]
  /\ UNCHANGED <<call, lock, entry, refcount, aborted, dropped, gone>>

\* The task ends, by returning or because the abort takes effect; its handle on
\* the router's 5 s bars is dropped.
Finish(t) ==
  /\ task[t] = "exiting" \/ (task[t] = "running" /\ t \in aborted)
  /\ task' = [task EXCEPT ![t] = "done"]
  /\ UNCHANGED <<call, lock, entry, refcount, aborted, dropped, gone>>

\* No subscribe call is under way: each owns an Arc of the router.
DropRouter ==
  /\ ~dropped
  /\ InState({"waiting", "opening"}) = {}
  /\ dropped' = TRUE
  /\ UNCHANGED <<call, lock, entry, refcount, task, aborted, gone>>

\* The router's actor has shut down, and with its RouterState go the registry
\* and every entry in the map.
TearDown ==
  /\ dropped /\ ~gone
  /\ gone' = TRUE
  /\ aborted' = Aborted({e \in Calls : \E k \in Keys : entry[k] = e})
  /\ entry' = [k \in Keys |-> None]
  /\ UNCHANGED <<call, lock, refcount, task, dropped>>

-----------------------------------------------------------------------------
Next ==
  \/ \E c \in Calls, k \in Keys : Subscribe(c, k)
  \/ \E c \in Calls : Join(c) \/ BeginOpen(c) \/ OpenOk(c) \/ OpenFailed(c) \/ Abandon(c)
  \/ \E c \in Calls : DropHandle(c) \/ Release(c) \/ ReleaseIgnored(c)
  \/ \E t \in Calls : AutoExits(t) \/ LoseUpstream(t) \/ Finish(t)
  \/ DropRouter
  \/ TearDown

Spec == Init /\ [][Next]_vars

\* The runtime polls whoever is given the Mutex, which is handed on in the order
\* of the requests; the router answers (Router!SubscribeAnswered); tasks that
\* can end do, and the router's actor reaches its Shutdown message.  Nothing is
\* assumed of the callers or of the upstream.
Fairness ==
  /\ \A c \in Calls :
       /\ WF_vars(Join(c) \/ BeginOpen(c))
       /\ WF_vars(OpenFailed(c))
       /\ WF_vars(Release(c) \/ ReleaseIgnored(c))
       /\ WF_vars(Finish(c))
  /\ WF_vars(TearDown)

FairSpec == Spec /\ Fairness

-----------------------------------------------------------------------------
(* Properties *)

CallStates == {"unused", "waiting", "opening", "holding", "releasing", "over"}

\* Types of the registry's state; the Mutex is held across an await only by the
\* first subscriber of a key.
TypeOK ==
  /\ call \in [Calls -> [st : CallStates, key : Keys \cup {None}, agg : Calls \cup {None}]]
  /\ lock \in Calls \cup {None}
  /\ \A c \in Calls : lock = c <=> call[c].st = "opening"
  /\ entry \in [Keys -> Calls \cup {None}]
  /\ refcount \in [Calls -> Nat]
  /\ task \in [Calls -> {"none", "running", "exiting", "done"}]
  /\ aborted \subseteq Calls
  /\ dropped \in BOOLEAN
  /\ gone \in BOOLEAN

\* The calls with a handle on aggregator e that is live or being given back.
Users(e) == {c \in InState({"holding", "releasing"}) : call[c].agg = e}

\* The refcount of an entry in the map is the number of its live handles and of
\* the releases under way, so that no release can hit a later entry of the same
\* key, although it names nothing but the key.
RefcountsExact ==
  \A k \in Keys :
    LET e == entry[k]
    IN  e # None =>
          /\ refcount[e] > 0
          /\ refcount[e] = Cardinality(Users(e))

\* A consumer keeps its aggregator: nobody else's release takes the entry out
\* of the map or aborts its task.
HolderKeepsEntry ==
  \A c \in Calls :
    call[c].st = "holding" /\ ~gone => Found(c) = call[c].agg /\ call[c].agg \notin aborted

\* A task that nobody has aborted is the one of its key's entry: a key never
\* has two aggregators at work (two tasks would each fold every bar).
TaskOwned ==
  \A t \in Calls : task[t] = "running" /\ t \notin aborted => Found(t) = t

\* A key that nobody uses or is about to use has no entry, and its aggregators
\* are aborted or over.
NothingLeaks ==
  \A k \in Keys :
    (\A c \in InState({"waiting", "opening", "holding", "releasing"}) : call[c].key # k) =>
      /\ entry[k] = None
      /\ \A t \in Calls : call[t].key = k /\ task[t] = "running" => t \in aborted

\* Every subscribe call is answered, although the one Mutex is held while the
\* router opens other symbols.
SubscribeAnswered ==
  \A c \in Calls :
    call[c].st \in {"waiting", "opening"} ~> call[c].st \notin {"waiting", "opening"}

\* A key without consumers is eventually without a running aggregator.
IdleKeyGoesQuiet ==
  \A k \in Keys :
    <>[](\A c \in InState({"waiting", "opening", "holding"}) : call[c].key # k)
    => <>[](\A t \in Calls : call[t].key = k => ~TaskLive(t))

\* bars_tx is owned by the entry and by the task.
ChannelOpen(e) == TaskLive(e) \/ \E k \in Keys : entry[k] = e

\* After the drop of the router, recv() on the handles that are left returns
\* Closed (router_dropped_with_live_handles).
ShutdownCloses ==
  \A c \in Calls :
    dropped ~> (call[c].st = "holding" => ~ChannelOpen(call[c].agg))

\* A subscriber is never given an aggregator that has already ended (lib.rs:
\* after a disconnect the next subscribe opens a fresh hub).
JoinsLiveAggregator ==
  [][\A c \in Calls :
       call[c].st # "holding" /\ call'[c].st = "holding" => task'[call'[c].agg] # "done"]_vars
=============================================================================
