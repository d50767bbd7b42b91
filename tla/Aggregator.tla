----------------------------- MODULE Aggregator -----------------------------
(***************************************************************************)
(* The bar aggregator (crates/midas-market-data/src/aggregator): the task  *)
(* that folds 5 s bars, and the registry that starts, shares and ends such *)
(* tasks.                                                                  *)
(*                                                                         *)
(* Of a task the registry knows whether it runs, and of the registry a     *)
(* task knows whether anybody listens; BarRegistry and BarFold let the     *)
(* other do what it likes.  What each promises is therefore shown of it    *)
(* alone, while the other stands still.                                    *)
(***************************************************************************)
EXTENDS BarFold

CONSTANTS Calls, Keys, NoCall
VARIABLES call, lock, entry, refcount, aggregator, aborted, dropped, gone

registry == <<call, lock, entry, refcount, aggregator, aborted, dropped, gone>>

Registry == INSTANCE BarRegistry WITH None <- NoCall, task <- aggregator

ASSUME RegistryAssumption == Registry!Assumptions

aggregators == <<vars, registry>>

AggregatorInit == Init /\ Registry!Init

FoldAlone ==
  /\ AggregatorInit
  /\ [][Next /\ UNCHANGED registry]_aggregators
  /\ Fairness

RegistryAlone ==
  /\ AggregatorInit
  /\ [][Registry!Next /\ UNCHANGED vars]_aggregators
  /\ Registry!Fairness

-----------------------------------------------------------------------------
(* Properties of the registry; those of the task are its own *)

\* An entry counts its live handles and the releases on their way, which name
\* nothing but the key (subscribe_bars, release).
RefcountsExact == Registry!RefcountsExact

\* A key that nobody uses or is about to use has no entry, and its aggregators
\* are aborted or over (release, the drop of AggregatorEntry).
NothingLeaks == Registry!NothingLeaks

\* Every subscribe call is answered, although the one Mutex is held while the
\* router opens other symbols (subscribe_bars).
SubscribeAnswered == Registry!SubscribeAnswered

\* A key without consumers is eventually without a running aggregator (release,
\* the abort of its task).
IdleKeyGoesQuiet == Registry!IdleKeyGoesQuiet

\* After the drop of the router, recv() on the handles that are left returns
\* Closed (router_dropped_with_live_handles).
ShutdownCloses == Registry!ShutdownCloses

\* What lib.rs says of a subscriber after a disconnect: it is never given an
\* aggregator that has already ended.
JoinsLiveAggregator == Registry!JoinsLiveAggregator
=============================================================================
