------------------------------ MODULE BarFold ------------------------------
(***************************************************************************)
(* run_aggregator: the task that folds the 5 s real-time bars of a symbol  *)
(* into bars of one timeframe                                              *)
(* (crates/midas-market-data/src/aggregator/task.rs).                      *)
(*                                                                         *)
(* The 5 s bars are numbered in the order of their ts_open and arrive in   *)
(* that order, possibly with gaps.  A folded bar is the set of the 5 s     *)
(* bars in it: it stands for open, high, low, close, volume and            *)
(* trade_count, which are functions of that set (the additions of volume   *)
(* saturate far beyond any session).                                       *)
(***************************************************************************)
EXTENDS Naturals, Sequences, FiniteSets

CONSTANTS
  PerWindow,  \* 5 s bars in a window of the timeframe (12 for M1)
  LastBar,    \* bound: the number of the last 5 s bar of a behaviour
  RingCap,    \* RT_BARS_CAP (256): what the upstream broadcast retains
  AutoExit,   \* ZERO_STREAK_AUTO_EXIT (16)
  None        \* Option::None

ASSUME PerWindowAssumption == PerWindow \in Nat \ {0}
ASSUME RingCapAssumption == RingCap \in Nat \ {0}
ASSUME FoldAutoExitAssumption == AutoExit \in Nat \ {0}
ASSUME LastBarAssumption == LastBar \in Nat
ASSUME FoldNoneAssumption == None \notin [win : Nat, bars : SUBSET Nat, done : BOOLEAN]

VARIABLES
  published,  \* history: the 5 s bars sent on the upstream channel
  ring,       \* those the task has not received and the channel still retains
  missed,     \* the next recv() returns Lagged
  upstream,   \* "open", or "closed" once the router's hub has been dropped
  consumer,   \* bars_tx has a receiver
  task,       \* "select", "store" or "check" (the awaits of the loop), or "done"
  current,    \* the open bar
  dirty,      \* it has changed since it was last emitted
  streak,     \* zero_streak
  out,        \* what was sent on bars_tx, oldest first
  slot,       \* last_bar_slot
  lagged      \* history: a recv() has returned Lagged

vars == <<published, ring, missed, upstream, consumer, task, current, dirty,
          streak, out, slot, lagged>>

FiveSecondBars == 1 .. LastBar

\* Mutant: a bar that opens on the boundary is still of the window before it.
WindowBehind(n) == IF n = 1 THEN 0 ELSE (n - 2) \div PerWindow

\* align_to_window: the window that a 5 s bar falls in.
Window(n) == (n - 1) \div PerWindow

Bar(w, bars, done) == [win |-> w, bars |-> bars, done |-> done]

Init ==
  /\ published = {}
  /\ ring = <<>>
  /\ missed = FALSE
  /\ upstream = "open"
  /\ consumer = FALSE
  /\ task = "select"
  /\ current = None
  /\ dirty = FALSE
  /\ streak = 0
  /\ out = <<>>
  /\ slot = None
  /\ lagged = FALSE

-----------------------------------------------------------------------------
(* Around the task: the router's fan-out, the consumers and the registry *)

\* A 5 s bar later than all before.  A receiver that has fallen RingCap bars
\* behind loses the oldest, and will be told so.
Publish(n) ==
  /\ upstream = "open"
  /\ \A m \in published : m < n
  /\ published' = published \cup {n}
  /\ IF Len(ring) < RingCap
       THEN ring' = Append(ring, n) /\ UNCHANGED missed
       ELSE ring' = Append(Tail(ring), n) /\ missed' = TRUE
  /\ UNCHANGED <<upstream, consumer, task, current, dirty, streak, out, slot, lagged>>

CloseUpstream ==
  /\ upstream = "open"
  /\ upstream' = "closed"
  /\ UNCHANGED <<published, ring, missed, consumer, task, current, dirty, streak,
                 out, slot, lagged>>

\* Receivers of bars_tx come and go.
Attach ==
  /\ ~consumer
  /\ consumer' = TRUE
  /\ UNCHANGED <<published, ring, missed, upstream, task, current, dirty, streak,
                 out, slot, lagged>>

Detach ==
  /\ consumer
  /\ consumer' = FALSE
  /\ UNCHANGED <<published, ring, missed, upstream, task, current, dirty, streak,
                 out, slot, lagged>>

\* The registry drops the entry and so aborts the task at whatever await it is
\* in: nobody uses the entry any more, or the registry itself goes, whoever
\* still listens.
Abort ==
  /\ task # "done"
  /\ task' = "done"
  /\ UNCHANGED <<published, ring, missed, upstream, consumer, current, dirty,
                 streak, out, slot, lagged>>

-----------------------------------------------------------------------------
(* The task.  select! takes either branch when both are ready.             *)

\* Mutant: the fold does not mark the bar as changed.
FoldUnmarked ==
  /\ task = "select" /\ ~missed /\ ring # <<>>
  /\ current # None /\ current.win = Window(Head(ring))
  /\ ring' = Tail(ring)
  /\ current' = [current EXCEPT !.bars = @ \cup {Head(ring)}]
  /\ UNCHANGED <<published, missed, upstream, consumer, task, dirty, streak, out, slot,
                 lagged>>

\* A 5 s bar of the open window.
Fold ==
  /\ task = "select" /\ ~missed /\ ring # <<>>
  /\ current # None /\ current.win = Window(Head(ring))
  /\ ring' = Tail(ring)
  /\ current' = [current EXCEPT !.bars = @ \cup {Head(ring)}]
  /\ dirty' = TRUE
  /\ UNCHANGED <<published, missed, upstream, consumer, task, streak, out, slot, lagged>>

\* Mutant: the 5 s bar that closes a window is not folded into the next one.
RolloverUnopened ==
  LET n == Head(ring)
  IN  /\ task = "select" /\ ~missed /\ ring # <<>>
      /\ current # None => current.win # Window(n)
      /\ ring' = Tail(ring)
      /\ IF current = None
           THEN /\ current' = Bar(Window(n), {n}, FALSE)
                /\ dirty' = TRUE
                /\ UNCHANGED <<out, task>>
           ELSE /\ out' = Append(out, [current EXCEPT !.done = TRUE])
                /\ task' = "store"
                /\ current' = None
                /\ dirty' = FALSE
      /\ UNCHANGED <<published, missed, upstream, consumer, streak, slot, lagged>>

\* The first 5 s bar, or one of another window: the open bar is emitted as
\* completed (and stored next), and a new one is opened.
Rollover ==
  LET n == Head(ring)
  IN  /\ task = "select" /\ ~missed /\ ring # <<>>
      /\ current # None => current.win # Window(n)
      /\ ring' = Tail(ring)
      /\ IF current = None
           THEN UNCHANGED <<out, task>>
           ELSE out' = Append(out, [current EXCEPT !.done = TRUE]) /\ task' = "store"
      /\ current' = Bar(Window(n), {n}, FALSE)
      /\ dirty' = TRUE
      /\ UNCHANGED <<published, missed, upstream, consumer, streak, slot, lagged>>

\* RecvError::Lagged: the open bar is dropped without being emitted.
Lagged ==
  /\ task = "select" /\ missed
  /\ missed' = FALSE
  /\ current' = None
  /\ dirty' = FALSE
  /\ lagged' = TRUE
  /\ UNCHANGED <<published, ring, upstream, consumer, task, streak, out, slot>>

\* RecvError::Closed: the task returns, whatever it has not emitted.
Closed ==
  /\ task = "select" /\ ~missed /\ ring = <<>> /\ upstream = "closed"
  /\ task' = "done"
  /\ UNCHANGED <<published, ring, missed, upstream, consumer, current, dirty,
                 streak, out, slot, lagged>>

\* Mutant: the bar is emitted as completed and stays open.
CoalesceCompleted ==
  /\ task = "select" /\ dirty
  /\ out' = Append(out, [current EXCEPT !.done = TRUE])
  /\ dirty' = FALSE
  /\ task' = "check"
  /\ UNCHANGED <<published, ring, missed, upstream, consumer, current, streak, slot,
                 lagged>>

\* The 100 ms tick, which only fires when something changed.
Coalesce ==
  /\ task = "select" /\ dirty
  /\ out' = Append(out, current)
  /\ dirty' = FALSE
  /\ task' = "check"
  /\ UNCHANGED <<published, ring, missed, upstream, consumer, current, streak, slot,
                 lagged>>

\* The end of Rollover: the lock of last_bar_slot has been awaited.
Store ==
  /\ task = "store"
  /\ slot' = out[Len(out)]
  /\ task' = "select"
  /\ UNCHANGED <<published, ring, missed, upstream, consumer, current, dirty, streak,
                 out, lagged>>

\* The end of Coalesce, with the test whether anybody listens.
StoreAndCheck ==
  /\ task = "check"
  /\ slot' = out[Len(out)]
  /\ streak' = IF consumer THEN 0 ELSE streak + 1
  /\ task' = IF streak' >= AutoExit THEN "done" ELSE "select"
  /\ UNCHANGED <<published, ring, missed, upstream, consumer, current, dirty, out,
                 lagged>>

-----------------------------------------------------------------------------
Receive == Fold \/ Rollover \/ Lagged \/ Closed
Emit == Coalesce \/ Store \/ StoreAndCheck

Next ==
  \/ \E n \in FiveSecondBars : Publish(n)
  \/ CloseUpstream \/ Attach \/ Detach \/ Abort
  \/ Receive
  \/ Emit

Spec == Init /\ [][Next]_vars

\* The runtime keeps polling the task, and its timer keeps ticking.
Fairness == WF_vars(Receive) /\ WF_vars(Emit)
FairSpec == Spec /\ Fairness

-----------------------------------------------------------------------------
(* Properties *)

BarStates == [win : 0 .. Window(LastBar), bars : SUBSET FiveSecondBars, done : BOOLEAN]

\* Types of the task's state; only an open bar can have anything to emit.
TypeOK ==
  /\ published \subseteq FiveSecondBars
  /\ ring \in Seq(FiveSecondBars) /\ Len(ring) <= RingCap
  /\ missed \in BOOLEAN
  /\ upstream \in {"open", "closed"}
  /\ consumer \in BOOLEAN
  /\ task \in {"select", "store", "check", "done"}
  /\ current \in BarStates \cup {None}
  /\ dirty \in BOOLEAN /\ (dirty => current # None)
  /\ streak \in 0 .. AutoExit
  /\ out \in Seq(BarStates)
  /\ slot \in BarStates \cup {None}
  /\ lagged \in BOOLEAN

\* Consumers see windows in order, and nothing of a window after the bar that
\* completes it, lagged or not.
OutInOrder ==
  \A i, j \in DOMAIN out :
    i < j => /\ out[i].win <= out[j].win
             /\ out[i].done => out[i].win < out[j].win

\* A window spans PerWindow bars; the one that opens where it ends is not in it.
PublishedIn(w) == {n \in published : w * PerWindow < n /\ n <= (w + 1) * PerWindow}

\* Unless the task has lagged, a completed bar is made of all the 5 s bars of
\* its window, and every window that a later one follows has its completed bar.
CompletedIsWhole ==
  ~lagged /\ ~missed =>
    /\ \A i \in DOMAIN out : out[i].done => out[i].bars = PublishedIn(out[i].win)
    /\ current # None =>
         \A n \in published :
           n <= current.win * PerWindow => \E i \in DOMAIN out : out[i].done /\ n \in out[i].bars

\* Between two iterations of the loop, last_bar serves the bar emitted last, so
\* that a consumer that resynchronises with it has missed nothing.
SlotIsLatest == task = "select" /\ out # <<>> => slot = out[Len(out)]

Emitted(n) == \E i \in DOMAIN out : n \in out[i].bars

\* A 5 s bar that was folded is emitted, unless the task lags or is over: no
\* branch of the loop loses the timer's mark (task.rs).
FoldedIsEmitted ==
  \A n \in FiveSecondBars :
    (current # None /\ n \in current.bars) ~> (Emitted(n) \/ lagged \/ task = "done")
=============================================================================
