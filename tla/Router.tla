------------------------------- MODULE Router -------------------------------
(***************************************************************************)
(* MarketDataRouter: the refcounted per-symbol fan-out of market data      *)
(* (crates/midas-market-data/src/router).                                  *)
(*                                                                         *)
(* One control actor drains a FIFO channel of subscribe requests, DecRefs  *)
(* from dropped handles, UpstreamClosed notices from publisher tasks and   *)
(* Shutdown.  Each symbol has at most one hub in the map; a hub has one    *)
(* refcount per kind of consumer and, per lane, the JoinHandle of the      *)
(* publisher task that owns the upstream stream.                           *)
(*                                                                         *)
(* A member of Calls is one subscribe call.  It also names what that call  *)
(* creates: the handle it returns, the hub it opens (if the symbol had     *)
(* none) and the publisher task it spawns (if the lane had none running).  *)
(* A hub's name is therefore its generation, which the code does not have: *)
(* control messages are addressed by symbol alone.                         *)
(***************************************************************************)
EXTENDS Naturals, Sequences, FiniteSets

CONSTANTS
  Calls,     \* subscribe calls; a behaviour makes each at most once
  Symbols,   \* SymbolKeys
  AutoExit,  \* PUBLISHER_AUTO_EXIT_STREAK (16 in the code)
  None       \* Option::None

ASSUME AutoExitAssumption == AutoExit \in Nat \ {0}
ASSUME NoneAssumption == None \notin Calls

VARIABLES
  call,       \* per call: its progress, arguments and the hub of its handle
  queue,      \* the control mpsc, oldest message first
  actor,      \* whether the actor loop is "running" or has "stopped"
  job,        \* the call whose upstream request the actor is awaiting
  dropped,    \* the last Arc<MarketDataRouter> is gone
  perSymbol,  \* RouterState.per_symbol
  refs,       \* per hub and kind: tick_, rt_bar_ and watch_refcount
  slot,       \* per hub and lane: the *_publisher_task JoinHandle
  ended,      \* hubs on whose end_reason watch Some(Disconnected) was sent
  task,       \* per call: the publisher task it spawned
  crossed,    \* history: hubs that a message meant for another hub has hit
  lost        \* history: hubs one of whose publishers saw its upstream close

vars == <<call, queue, actor, job, dropped, perSymbol, refs, slot,
          ended, task, crossed, lost>>

Kinds == {"tick", "rt", "watch"}   \* SubscribeTicks, SubscribeRtBars, OpenHubForWatch
Lanes == {"tick", "rt"}            \* run_tick_publisher, run_rt_bar_publisher

\* A quote watch is fed by the tick publisher.
LaneOf(k) == IF k = "rt" THEN "rt" ELSE "tick"

\* The control messages.  `from' is the hub the sender belongs to: it is
\* recorded for the properties and no handler reads it.
SubscribeMsg(c) == [op |-> "subscribe", call |-> c]
DecRefMsg(s, k, h) == [op |-> "decref", sym |-> s, kind |-> k, from |-> h]
ClosedMsg(s, h) == [op |-> "closed", sym |-> s, from |-> h]
ShutdownMsg == [op |-> "shutdown"]

Messages == {SubscribeMsg(c) : c \in Calls}
            \cup {DecRefMsg(s, k, h) : s \in Symbols, k \in Kinds, h \in Calls}
            \cup {ClosedMsg(s, h) : s \in Symbols, h \in Calls}
            \cup {ShutdownMsg}

\* A call not yet made, and one whose handle is gone or that got an error.
Call(st, s, k, h) == [st |-> st, sym |-> s, kind |-> k, hub |-> h]
Unused == Call("unused", None, None, None)
Over == Call("over", None, None, None)

\* No publisher spawned yet, a new one, one past its last await, a finished one.
Task(st, s, l, h) ==
  [st |-> st, sym |-> s, lane |-> l, hub |-> h, aborted |-> FALSE, streak |-> 0]
NoTask == Task("none", None, None, None)
NewTask(s, l, h) == Task("running", s, l, h)
Exiting(x) == Task("exiting", x.sym, x.lane, x.hub)
Finished == Task("done", None, None, None)

Init ==
  /\ call = [c \in Calls |-> Unused]
  /\ queue = <<>>
  /\ actor = "running"
  /\ job = None
  /\ dropped = FALSE
  /\ perSymbol = [s \in Symbols |-> None]
  /\ refs = [h \in Calls |-> [k \in Kinds |-> 0]]
  /\ slot = [h \in Calls |-> [l \in Lanes |-> None]]
  /\ ended = {}
  /\ task = [t \in Calls |-> NoTask]
  /\ crossed = {}
  /\ lost = {}

-----------------------------------------------------------------------------
(* State functions *)

TaskLive(t) == task[t].st \in {"running", "exiting"}

\* The `!is_finished()' test of the fast paths, on a hub in the map.
PublisherAlive(h, l) ==
  h # None /\ slot[h][l] # None /\ task[slot[h][l]].st # "done"

\* There is a reference of kind k to give back.
Counted(h, k) == h # None /\ refs[h][k] > 0

Holding(h, k) ==
  {c \in Calls : call[c].st = "holding" /\ call[c].hub = h /\ call[c].kind = k}

\* receiver_count() of the channels the publisher of a lane feeds.
Receivers(h, l) ==
  {c \in Calls : /\ call[c].st = "holding"
                 /\ call[c].hub = h
                 /\ LaneOf(call[c].kind) = l}

InMap(h) == \E s \in Symbols : perSymbol[s] = h

\* The hub's channels stay open while the map or a publisher task owns an Arc
\* of it; afterwards its consumers' recv() returns Closed.
HubOpen(h) == InMap(h) \/ \E t \in Calls : task[t].hub = h /\ TaskLive(t)

\* A hub has been hit by a message that comes from another hub.
Cross(h, from) == IF h \notin {None, from} THEN crossed \cup {h} ELSE crossed

-----------------------------------------------------------------------------
(* Callers: subscribe, give up waiting, drop the handle, drop the router *)

\* GuardCtrl::send_msg and send_control: once the actor has exited the
\* channel is closed and the message is lost.
Send(q, m) == IF actor = "stopped" THEN q ELSE Append(q, m)

\* subscribe_ticks, subscribe_rt_bars, last_quote: up to the await of the reply.
Subscribe(c, s, k) ==
  /\ ~dropped
  /\ call[c].st = "unused"
  /\ call' = [call EXCEPT ![c] = Call("waiting", s, k, None)]
  /\ queue' = Send(queue, SubscribeMsg(c))
  /\ UNCHANGED <<actor, job, dropped, perSymbol, refs, slot, ended, task,
                 crossed, lost>>

\* The caller drops the subscribe future: the reply will have no receiver.
Abandon(c) ==
  /\ call[c].st = "waiting"
  /\ call' = [call EXCEPT ![c] = Call("abandoned", @.sym, @.kind, None)]
  /\ UNCHANGED <<queue, actor, job, dropped, perSymbol, refs, slot, ended,
                 task, crossed, lost>>

\* Mutant: a handle without its guard.
DropHandleUnguarded(c) ==
  /\ call[c].st = "holding"
  /\ call' = [call EXCEPT ![c] = Over]
  /\ UNCHANGED <<queue, actor, job, dropped, perSymbol, refs, slot, ended, task,
                 crossed, lost>>

\* Drop of a handle: the receiver goes, then the guard sends its DecRef.
DropHandle(c) ==
  /\ call[c].st = "holding"
  /\ call' = [call EXCEPT ![c] = Over]
  /\ queue' = Send(queue, DecRefMsg(call[c].sym, call[c].kind, call[c].hub))
  /\ UNCHANGED <<actor, job, dropped, perSymbol, refs, slot, ended, task,
                 crossed, lost>>

\* Drop of the router.  A pending subscribe borrows it, so none is waiting.
DropRouter ==
  /\ ~dropped
  /\ \A c \in Calls : call[c].st # "waiting"
  /\ dropped' = TRUE
  /\ queue' = Send(queue, ShutdownMsg)
  /\ UNCHANGED <<call, actor, job, perSymbol, refs, slot, ended, task,
                 crossed, lost>>

-----------------------------------------------------------------------------
(* The control actor *)

Receives(op) == actor = "running" /\ job = None /\ queue # <<>> /\ Head(queue).op = op

\* Mutant: the handle that could not be delivered is forgotten.
ReplyOrForget(c, h, q) ==
  /\ call' = [call EXCEPT ![c] = IF @.st = "waiting"
                                   THEN Call("holding", @.sym, @.kind, h) ELSE Over]
  /\ queue' = q

\* The oneshot reply carrying a handle on hub h.  A caller that gave up drops
\* the handle at once, and its guard sends the DecRef.
Reply(c, h, q) ==
  IF call[c].st = "waiting"
    THEN /\ call' = [call EXCEPT ![c] = Call("holding", @.sym, @.kind, h)]
         /\ queue' = q
    ELSE /\ call' = [call EXCEPT ![c] = Over]
         /\ queue' = Append(q, DecRefMsg(call[c].sym, call[c].kind, h))

\* Subscribe on a hub whose lane has a publisher: no upstream call is made.
GrantShared(c) ==
  LET s == call[c].sym
      k == call[c].kind
      h == perSymbol[s]
  IN  /\ Receives("subscribe") /\ Head(queue) = SubscribeMsg(c)
      /\ PublisherAlive(h, LaneOf(k))
      /\ refs' = [refs EXCEPT ![h][k] = @ + 1]
      /\ Reply(c, h, Tail(queue))
      /\ UNCHANGED <<actor, job, dropped, perSymbol, slot, ended, task,
                     crossed, lost>>

\* Otherwise the actor awaits resolve_contract and the upstream subscribe, and
\* serves nobody else meanwhile.
BeginOpen(c) ==
  LET h == perSymbol[call[c].sym]
  IN  /\ Receives("subscribe") /\ Head(queue) = SubscribeMsg(c)
      /\ ~PublisherAlive(h, LaneOf(call[c].kind))
      /\ job' = c
      /\ queue' = Tail(queue)
      /\ UNCHANGED <<call, actor, dropped, perSymbol, refs, slot, ended,
                     task, crossed, lost>>

\* The upstream answers: spawn the publisher, create the hub if there is none,
\* count the consumer and reply.
OpenOk(c) ==
  LET s == call[c].sym
      k == call[c].kind
      h == IF perSymbol[s] = None THEN c ELSE perSymbol[s]
  IN  /\ job = c
      /\ job' = None
      /\ perSymbol' = [perSymbol EXCEPT ![s] = h]
      /\ refs' = [refs EXCEPT ![h][k] = @ + 1]
      /\ slot' = [slot EXCEPT ![h][LaneOf(k)] = c]
      /\ task' = [task EXCEPT ![c] = NewTask(s, LaneOf(k), h)]
      /\ Reply(c, h, queue)
      /\ UNCHANGED <<actor, dropped, ended, crossed, lost>>

\* Mutant: the reference is counted before the fallible upstream call.
OpenFailedAfterIncRef(c) ==
  LET h == perSymbol[call[c].sym]
  IN  /\ job = c
      /\ job' = None
      /\ call' = [call EXCEPT ![c] = Over]
      /\ refs' = IF h = None THEN refs ELSE [refs EXCEPT ![h][call[c].kind] = @ + 1]
      /\ UNCHANGED <<queue, actor, dropped, perSymbol, slot, ended, task, crossed, lost>>

\* Mutant: no deadline when the upstream is opened for an existing hub.
OpenFailedIfFirst(c) ==
  /\ job = c
  /\ perSymbol[call[c].sym] = None
  /\ job' = None
  /\ call' = [call EXCEPT ![c] = Over]
  /\ UNCHANGED <<queue, actor, dropped, perSymbol, refs, slot, ended, task, crossed,
                 lost>>

\* resolve_contract or the upstream subscribe fails, or runs into
\* ROUTER_ACTOR_OP_TIMEOUT: the caller gets the error and nothing else changes.
\* (A contract resolved on the way stays in contract_cache, which only saves a
\* later open its first request.)
OpenFailed(c) ==
  /\ job = c
  /\ job' = None
  /\ call' = [call EXCEPT ![c] = Over]
  /\ UNCHANGED <<queue, actor, dropped, perSymbol, refs, slot, ended, task, crossed,
                 lost>>

\* Mutant: the JoinHandles are dropped, which does not abort their tasks.
DropJoinHandles(H, L) == task

\* JoinHandle::abort on the publishers of the lanes L of the hubs H; on a task
\* that is past its last await, or has finished, it does nothing.
Abort(H, L) ==
  [t \in Calls |->
     IF task[t].st = "running" /\ \E h \in H, l \in L : slot[h][l] = t
       THEN [task[t] EXCEPT !.aborted = TRUE] ELSE task[t]]

\* ... whose handles are taken out of the hub.
TakeHandles(H, L) ==
  [h \in Calls |-> IF h \in H THEN [l \in Lanes |-> IF l \in L THEN None ELSE slot[h][l]]
                              ELSE slot[h]]

\* Mutant: consumers of a watch do not keep the tick publisher.
IdleButForWatches(r) == {l \in Lanes : \A k \in Kinds \ {"watch"} : LaneOf(k) = l => r[k] = 0}

\* The lanes of a hub with refcounts r that nobody uses.
IdleLanes(r) == {l \in Lanes : \A k \in Kinds : LaneOf(k) = l => r[k] = 0}

\* handle_dec_ref for a symbol without a hub, and its underflow branch.
DecRefIgnored ==
  LET m == Head(queue)
      h == perSymbol[m.sym]
  IN  /\ Receives("decref")
      /\ ~Counted(h, m.kind)
      /\ queue' = Tail(queue)
      /\ crossed' = Cross(h, m.from)
      /\ UNCHANGED <<call, actor, job, dropped, perSymbol, refs, slot, ended,
                     task, lost>>

\* handle_dec_ref; when the count reaches zero, maybe_reap.
DecRef ==
  LET m == Head(queue)
      h == perSymbol[m.sym]
      r == [refs[h] EXCEPT ![m.kind] = @ - 1]
      idle == IF r[m.kind] = 0 THEN IdleLanes(r) ELSE {}
  IN  /\ Receives("decref")
      /\ Counted(h, m.kind)
      /\ queue' = Tail(queue)
      /\ refs' = [refs EXCEPT ![h] = r]
      /\ task' = Abort({h}, idle)
      /\ slot' = TakeHandles({h}, idle)
      /\ perSymbol' = IF idle = Lanes THEN [perSymbol EXCEPT ![m.sym] = None] ELSE perSymbol
      /\ crossed' = Cross(h, m.from)
      /\ UNCHANGED <<call, actor, job, dropped, ended, lost>>

\* handle_upstream_closed: flip the end reason, abort both publishers, remove
\* the hub.  Without a hub for the symbol it does nothing.
UpstreamClosed ==
  LET m == Head(queue)
      H == {perSymbol[m.sym]} \ {None}
  IN  /\ Receives("closed")
      /\ queue' = Tail(queue)
      /\ ended' = ended \cup H
      /\ task' = Abort(H, Lanes)
      /\ slot' = TakeHandles(H, Lanes)
      /\ perSymbol' = [perSymbol EXCEPT ![m.sym] = None]
      /\ crossed' = Cross(perSymbol[m.sym], m.from)
      /\ UNCHANGED <<call, actor, job, dropped, refs, lost>>

\* abort_all_publishers and the end of the loop; the messages behind Shutdown
\* die with the receiver.
Shutdown ==
  LET H == {h \in Calls : InMap(h)}
  IN  /\ Receives("shutdown")
      /\ actor' = "stopped"
      /\ queue' = <<>>
      /\ task' = Abort(H, Lanes)
      /\ slot' = TakeHandles(H, Lanes)
      /\ perSymbol' = [s \in Symbols |-> None]
      /\ UNCHANGED <<call, job, dropped, refs, ended, crossed, lost>>

-----------------------------------------------------------------------------
(* The publisher tasks.  abort() only marks a task: a task that is being      *)
(* polled on another thread may still take any of its steps.                  *)

\* An item is fanned out to at least one receiver.
Publish(t) ==
  /\ task[t].st = "running"
  /\ Receivers(task[t].hub, task[t].lane) # {}
  /\ task' = [task EXCEPT ![t].streak = 0]
  /\ UNCHANGED <<call, queue, actor, job, dropped, perSymbol, refs, slot,
                 ended, crossed, lost>>

\* An item finds no receiver; after AutoExit of them in a row the task returns.
PublishToNobody(t) ==
  /\ task[t].st = "running"
  /\ Receivers(task[t].hub, task[t].lane) = {}
  /\ LET n == task[t].streak + 1
     IN  task' = [task EXCEPT ![t] = IF n >= AutoExit THEN Exiting(@) ELSE [@ EXCEPT !.streak = n]]
  /\ UNCHANGED <<call, queue, actor, job, dropped, perSymbol, refs, slot,
                 ended, crossed, lost>>

\* Mutant: the task returns without notifying the actor.
LoseUpstreamQuietly(t) ==
  /\ task[t].st = "running"
  /\ task' = [task EXCEPT ![t] = Exiting(@)]
  /\ lost' = lost \cup {task[t].hub}
  /\ UNCHANGED <<call, queue, actor, job, dropped, perSymbol, refs, slot, ended, crossed>>

\* The upstream is closed: notify the actor and return.
LoseUpstream(t) ==
  /\ task[t].st = "running"
  /\ task' = [task EXCEPT ![t] = Exiting(@)]
  /\ queue' = Send(queue, ClosedMsg(task[t].sym, task[t].hub))
  /\ lost' = lost \cup {task[t].hub}
  /\ UNCHANGED <<call, actor, job, dropped, perSymbol, refs, slot, ended, crossed>>

\* The task ends, by returning or because the abort takes effect; its upstream
\* stream and its Arc of the hub are dropped.
Finish(t) ==
  /\ task[t].st = "exiting" \/ (task[t].st = "running" /\ task[t].aborted)
  /\ task' = [task EXCEPT ![t] = Finished]
  /\ UNCHANGED <<call, queue, actor, job, dropped, perSymbol, refs, slot,
                 ended, crossed, lost>>

-----------------------------------------------------------------------------
Receive ==
  \/ \E c \in Calls : GrantShared(c) \/ BeginOpen(c)
  \/ DecRefIgnored
  \/ DecRef
  \/ UpstreamClosed
  \/ Shutdown

Next ==
  \/ \E c \in Calls, s \in Symbols, k \in Kinds : Subscribe(c, s, k)
  \/ \E c \in Calls : Abandon(c) \/ DropHandle(c) \/ OpenOk(c) \/ OpenFailed(c)
  \/ \E t \in Calls : Publish(t) \/ PublishToNobody(t) \/ LoseUpstream(t) \/ Finish(t)
  \/ DropRouter
  \/ Receive

Spec == Init /\ [][Next]_vars

\* The runtime keeps polling the actor and every task that can end, and the
\* timer of with_op_timeout fires.  Nothing is assumed of the callers, of the
\* upstream answering or of its items.
Fairness ==
  /\ WF_vars(Receive)
  /\ \A c \in Calls : WF_vars(OpenFailed(c)) /\ WF_vars(Finish(c))

FairSpec == Spec /\ Fairness

-----------------------------------------------------------------------------
(* Properties *)

CallStates ==
  {Unused, Over}
  \cup [st : {"waiting", "abandoned"}, sym : Symbols, kind : Kinds, hub : {None}]
  \cup [st : {"holding"}, sym : Symbols, kind : Kinds, hub : Calls]

TaskStates ==
  {NoTask, Finished}
  \cup [st : {"running"}, sym : Symbols, lane : Lanes, hub : Calls,
        aborted : BOOLEAN, streak : 0 .. AutoExit - 1]
  \cup [st : {"exiting"}, sym : Symbols, lane : Lanes, hub : Calls,
        aborted : {FALSE}, streak : {0}]

\* Types of the router's state.
TypeOK ==
  /\ call \in [Calls -> CallStates]
  /\ queue \in Seq(Messages)
  /\ actor \in {"running", "stopped"}
  /\ job \in Calls \cup {None}
  /\ dropped \in BOOLEAN
  /\ perSymbol \in [Symbols -> Calls \cup {None}]
  /\ refs \in [Calls -> [Kinds -> Nat]]
  /\ slot \in [Calls -> [Lanes -> Calls \cup {None}]]
  /\ ended \subseteq Calls
  /\ task \in [Calls -> TaskStates]
  /\ crossed \subseteq Calls
  /\ lost \subseteq Calls

PendingDecRefs(h, k) ==
  {i \in DOMAIN queue : queue[i].op = "decref" /\ queue[i].from = h /\ queue[i].kind = k}

\* A publisher that nobody has aborted is the one in its lane's slot of a hub
\* that is in the map: an upstream stream never outlives its hub unaborted, and
\* a symbol has at most one such stream per lane (actor.rs: every path that
\* takes a hub out of the map or overwrites a slot).
PublisherOwned ==
  \A t \in Calls :
    task[t].st = "running" /\ ~task[t].aborted =>
      /\ perSymbol[task[t].sym] = task[t].hub
      /\ slot[task[t].hub][task[t].lane] = t

\* While a hub in the map has only been hit by its own handles' messages, each
\* refcount is the number of live handles of that kind plus the DecRefs that
\* are still in the control channel (BR-3: no call path leaks or loses a count).
RefcountsExact ==
  \A s \in Symbols, k \in Kinds :
    LET h == perSymbol[s]
    IN  h # None /\ h \notin crossed =>
          refs[h][k] = Cardinality(Holding(h, k)) + Cardinality(PendingDecRefs(h, k))

\* Under the same proviso a live handle's hub stays in the map with a publisher
\* installed in the handle's lane, until the upstream closes or the router is
\* shut down: a tick, bar or watch consumer is never cut off by others leaving.
HandleKeepsHub ==
  \A c \in Calls :
    LET h == call[c].hub
    IN  call[c].st = "holding" /\ h \notin crossed \cup ended /\ actor = "running" =>
          /\ perSymbol[call[c].sym] = h
          /\ slot[h][LaneOf(call[c].kind)] # None

\* With the control channel drained and no handle left on a symbol, its hub is
\* gone and every upstream it had is cancelled or finished, whatever crossed.
NothingLeaks ==
  \A s \in Symbols :
    queue = <<>> /\ job = None /\ (\A c \in Calls : call[c].sym # s) =>
      /\ perSymbol[s] = None
      /\ \A t \in Calls : task[t].sym = s /\ task[t].st = "running" => task[t].aborted

\* A handle is handed out only on the hub in the map, with an unaborted and
\* unfinished publisher behind its lane (ensure_tick_publisher and the rt-bar
\* equivalent).
GrantStep ==
  \A c \in Calls :
    call[c].st = "waiting" /\ call'[c].st = "holding" =>
      LET h == call'[c].hub
          t == slot'[h][LaneOf(call[c].kind)]
      IN  /\ perSymbol'[call[c].sym] = h
          /\ t # None /\ task'[t].st # "done" /\ ~task'[t].aborted
GrantHasPublisher == [][GrantStep]_vars

\* Every subscribe call is answered, however long the actor is busy with
\* others' upstream requests (ROUTER_ACTOR_OP_TIMEOUT is the wedge guard).
SubscribeAnswered == \A c \in Calls : call[c].st = "waiting" ~> call[c].st # "waiting"

\* If from some point on nobody holds or requests a handle on a symbol, its
\* upstream subscriptions are eventually over (NB-7).
IdleSymbolGoesQuiet ==
  \A s \in Symbols :
    <>[](\A c \in Calls : call[c].sym = s => call[c].st \notin {"waiting", "holding"})
    => <>[](\A t \in Calls : task[t].sym # s)

\* When a publisher's upstream closes, the hub is torn down until its
\* consumers' recv() returns Closed.
LostHubCloses == \A h \in Calls : h \in lost ~> ~HubOpen(h)

\* A consumer of ticks or bars whose channel has closed under it finds a reason
\* in its end_reason watch, unless the router was shut down.
ClosedHasReason ==
  \A c \in Calls :
    call[c].st = "holding" /\ call[c].kind # "watch" /\ actor = "running"
    /\ ~HubOpen(call[c].hub) => call[c].hub \in ended

\* The publisher that ensure_tick_publisher found alive goes on publishing to a
\* consumer: only the loss of the upstream ends it.
ConsumerHasPublisher ==
  \A c \in Calls :
    LET h == call[c].hub
    IN  call[c].st = "holding" /\ h \notin crossed \cup lost /\ actor = "running" =>
          LET t == slot[h][LaneOf(call[c].kind)] IN t # None /\ TaskLive(t)
=============================================================================
