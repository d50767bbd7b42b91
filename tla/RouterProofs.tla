---------------------------- MODULE RouterProofs ----------------------------
(* Theorems about Router, for every set of calls and symbols. *)
EXTENDS Router, SequenceTheorems, FiniteSetTheorems, TLAPS

-----------------------------------------------------------------------------
(* The inductive invariant *)

Pending == {"waiting", "abandoned"}

\* A subscribe request is in the channel q at most once, and only while its call
\* has not been answered.
RequestsIn(q) ==
  /\ \A i \in 1 .. Len(q) : q[i].op = "subscribe" => call[q[i].call].st \in Pending
  /\ \A i, j \in 1 .. Len(q) : q[i].op = "subscribe" /\ q[i] = q[j] => i = j

NoRequestOf(q, c) == \A i \in 1 .. Len(q) : q[i] # SubscribeMsg(c)

\* The request that the actor is serving is not in the channel any more.
RequestsPending ==
  /\ RequestsIn(queue)
  /\ job # None => call[job].st \in Pending /\ NoRequestOf(queue, job)

\* A call that has not been answered has not opened a hub or spawned a task.
UnansweredIsFresh ==
  \A c \in Calls :
    call[c].st \in {"unused"} \cup Pending =>
      /\ task[c] = NoTask
      /\ \A t \in Calls : task[t].hub # c
      /\ \A s \in Symbols : perSymbol[s] # c

\* While the actor awaits the upstream for a call, no publisher runs in the
\* lane it is going to fill.
JobLaneIdle ==
  job # None => ~PublisherAlive(perSymbol[call[job].sym], LaneOf(call[job].kind))

\* The task behind a slot is finished, or it is that lane's own and unaborted.
SlotTask ==
  \A h \in Calls, l \in Lanes :
    slot[h][l] # None =>
      LET t == task[slot[h][l]]
      IN  \/ t.st = "done"
          \/ t.st \in {"running", "exiting"} /\ t.hub = h /\ t.lane = l /\ ~t.aborted

IInv ==
  /\ TypeOK
  /\ RequestsPending
  /\ UnansweredIsFresh
  /\ JobLaneIdle
  /\ SlotTask
  /\ PublisherOwned

-----------------------------------------------------------------------------
(* Lemmas about the data *)

\* The fields of a control message, by its kind.
LEMMA MessageFields ==
  ASSUME NEW m \in Messages
  PROVE  /\ m.op \in {"subscribe", "decref", "closed", "shutdown"}
         /\ m.op = "subscribe" => m.call \in Calls /\ m = SubscribeMsg(m.call)
         /\ m.op = "decref" => m.sym \in Symbols /\ m.kind \in Kinds /\ m.from \in Calls
         /\ m.op = "closed" => m.sym \in Symbols /\ m.from \in Calls
BY DEF Messages, SubscribeMsg, DecRefMsg, ClosedMsg, ShutdownMsg

\* The messages that callers and publishers send.
LEMMA MessageTypes ==
  /\ \A c \in Calls : SubscribeMsg(c) \in Messages
  /\ \A s \in Symbols, k \in Kinds, h \in Calls : DecRefMsg(s, k, h) \in Messages
  /\ \A s \in Symbols, h \in Calls : ClosedMsg(s, h) \in Messages
  /\ ShutdownMsg \in Messages
<1>1. \A c \in Calls : SubscribeMsg(c) \in Messages
  BY DEF Messages
<1>2. \A s \in Symbols, k \in Kinds, h \in Calls : DecRefMsg(s, k, h) \in Messages
  BY DEF Messages
<1>3. \A s \in Symbols, h \in Calls : ClosedMsg(s, h) \in Messages
  BY DEF Messages
<1>4. ShutdownMsg \in Messages
  BY DEF Messages
<1>. QED  BY <1>1, <1>2, <1>3, <1>4

\* Receiving takes the oldest message and keeps the order of the others.
LEMMA QueueTail ==
  ASSUME NEW q \in Seq(Messages), q # <<>>
  PROVE  /\ Head(q) \in Messages /\ Head(q) = q[1]
         /\ Tail(q) \in Seq(Messages)
         /\ Len(q) \in Nat \ {0}
         /\ Len(Tail(q)) = Len(q) - 1
         /\ \A i \in 1 .. Len(Tail(q)) : Tail(q)[i] = q[i + 1]
BY HeadTailProperties, EmptySeq, LenProperties

\* Sending adds a message behind the others.
LEMMA QueueAppend ==
  ASSUME NEW q \in Seq(Messages), NEW m \in Messages
  PROVE  /\ Append(q, m) \in Seq(Messages)
         /\ Len(q) \in Nat
         /\ Len(Append(q, m)) = Len(q) + 1
         /\ \A i \in 1 .. Len(q) : Append(q, m)[i] = q[i]
         /\ Append(q, m)[Len(q) + 1] = m
BY AppendProperties, LenProperties

\* What the type invariant says of a call.
LEMMA CallFields ==
  ASSUME TypeOK, NEW c \in Calls
  PROVE  /\ call[c] \in CallStates
         /\ call[c].st \in {"unused", "waiting", "abandoned", "holding", "over"}
         /\ call[c].st \in Pending => /\ call[c].sym \in Symbols
                                      /\ call[c].kind \in Kinds
                                      /\ call[c].hub = None
         /\ call[c].st = "holding" => /\ call[c].sym \in Symbols
                                      /\ call[c].kind \in Kinds
                                      /\ call[c].hub \in Calls
BY DEF TypeOK, CallStates, Pending, Unused, Over, Call

\* What the type invariant says of a publisher task.
LEMMA TaskFields ==
  ASSUME TypeOK, NEW t \in Calls
  PROVE  /\ task[t] \in TaskStates
         /\ task[t].st \in {"none", "running", "exiting", "done"}
         /\ task[t].st \in {"none", "done"} => task[t].hub = None
         /\ task[t].st = "none" => task[t] = NoTask
         /\ task[t].st \in {"running", "exiting"} => /\ task[t].sym \in Symbols
                                                     /\ task[t].lane \in Lanes
                                                     /\ task[t].hub \in Calls
         /\ task[t].st = "running" => /\ task[t].aborted \in BOOLEAN
                                      /\ task[t].streak \in 0 .. AutoExit - 1
         /\ task[t].st # "running" => task[t].aborted = FALSE /\ task[t].streak = 0
<1>. task[t] \in TaskStates
  BY DEF TypeOK
<1>1. CASE task[t] = NoTask
  BY <1>1 DEF NoTask, Task
<1>2. CASE task[t] = Finished
  BY <1>2 DEF Finished, Task
<1>3. CASE task[t] \in [st : {"running"}, sym : Symbols, lane : Lanes, hub : Calls,
                         aborted : BOOLEAN, streak : 0 .. AutoExit - 1]
  BY <1>3
<1>4. CASE task[t] \in [st : {"exiting"}, sym : Symbols, lane : Lanes, hub : Calls,
                         aborted : {FALSE}, streak : {0}]
  BY <1>4
<1>. QED  BY <1>1, <1>2, <1>3, <1>4 DEF TaskStates

\* Counting an item or marking an abort keeps a running task running.
LEMMA RunningTask ==
  ASSUME NEW x \in TaskStates, x.st = "running", NEW n \in 0 .. AutoExit - 1
  PROVE  /\ [x EXCEPT !.streak = n] \in TaskStates
         /\ [x EXCEPT !.aborted = TRUE] \in TaskStates
         /\ LET y == [x EXCEPT !.streak = n]
            IN  /\ y.st = x.st /\ y.hub = x.hub /\ y.lane = x.lane
                /\ y.sym = x.sym /\ y.aborted = x.aborted
         /\ LET y == [x EXCEPT !.aborted = TRUE]
            IN  /\ y.st = x.st /\ y.hub = x.hub /\ y.lane = x.lane
                /\ y.sym = x.sym /\ y.aborted = TRUE
<1>1. x \in [st : {"running"}, sym : Symbols, lane : Lanes, hub : Calls,
             aborted : BOOLEAN, streak : 0 .. AutoExit - 1]
  <2>1. x # NoTask /\ x # Finished
    BY DEF NoTask, Finished, Task
  <2>2. x \notin [st : {"exiting"}, sym : Symbols, lane : Lanes, hub : Calls,
                 aborted : {FALSE}, streak : {0}]
    OBVIOUS
  <2>. QED  BY <2>1, <2>2 DEF TaskStates
<1>2. /\ [x EXCEPT !.streak = n] \in TaskStates
      /\ [x EXCEPT !.aborted = TRUE] \in TaskStates
  BY <1>1 DEF TaskStates
<1>. QED  BY <1>1, <1>2

\* Sending any other message, or none, leaves the requests as they were.
LEMMA RequestsStay ==
  ASSUME IInv, NEW m \in Messages, m.op # "subscribe",
         queue' = queue \/ queue' = Append(queue, m),
         job' = job,
         \A c \in Calls : call[c].st \in Pending => call'[c].st \in Pending
  PROVE  RequestsPending'
<1>. queue \in Seq(Messages) /\ Len(queue) \in Nat /\ job \in Calls \cup {None}
  BY LenProperties DEF IInv, TypeOK
<1>1. ASSUME NEW i \in 1 .. Len(queue), queue[i].op = "subscribe"
      PROVE  call'[queue[i].call].st \in Pending
  <2>1. queue[i] \in Messages
    BY ElementOfSeq
  <2>. QED  BY <1>1, <2>1, MessageFields DEF IInv, RequestsPending, RequestsIn
<1>2. CASE queue' = queue
  BY <1>1, <1>2 DEF IInv, RequestsPending, RequestsIn, NoRequestOf
<1>3. CASE queue' = Append(queue, m)
  <2>1. RequestsIn(queue)'
    BY <1>1, <1>3, QueueAppend DEF IInv, RequestsPending, RequestsIn
  <2>2. job # None => NoRequestOf(queue, job)'
    BY <1>3, QueueAppend DEF IInv, RequestsPending, NoRequestOf, SubscribeMsg
  <2>. QED  BY <2>1, <2>2 DEF IInv, RequestsPending
<1>. QED  BY <1>2, <1>3

\* A request that is received is of a pending call, and was the only one of it.
LEMMA RequestsTail ==
  ASSUME IInv, queue # <<>>
  PROVE  /\ Tail(queue) \in Seq(Messages)
         /\ RequestsIn(Tail(queue))
         /\ \A c \in Calls : Head(queue) = SubscribeMsg(c) =>
                             call[c].st \in Pending /\ NoRequestOf(Tail(queue), c)
<1>. queue \in Seq(Messages)
  BY DEF IInv, TypeOK
<1>1. RequestsIn(Tail(queue))
  BY QueueTail DEF IInv, RequestsPending, RequestsIn
<1>2. ASSUME NEW c \in Calls, Head(queue) = SubscribeMsg(c)
      PROVE  call[c].st \in Pending /\ NoRequestOf(Tail(queue), c)
  <2>1. queue[1].op = "subscribe" /\ queue[1].call = c /\ queue[1] = SubscribeMsg(c)
    BY <1>2, QueueTail DEF SubscribeMsg
  <2>. QED  BY <2>1, QueueTail DEF IInv, RequestsPending, RequestsIn, NoRequestOf
<1>. QED  BY <1>1, <1>2, QueueTail

\* Answering a call settles it, whether or not its caller still waits.
LEMMA ReplyFacts ==
  ASSUME IInv, NEW c \in Calls, NEW h \in Calls, NEW q \in Seq(Messages),
         call[c].st \in Pending, RequestsIn(q), NoRequestOf(q, c), Reply(c, h, q)
  PROVE  /\ call' \in [Calls -> CallStates]
         /\ queue' \in Seq(Messages)
         /\ RequestsIn(queue)'
         /\ call'[c].st \in {"holding", "over"}
         /\ \A d \in Calls \ {c} : call'[d] = call[d]
<1>. /\ call \in [Calls -> CallStates]
     /\ call[c].sym \in Symbols /\ call[c].kind \in Kinds
  BY CallFields DEF IInv, TypeOK
<1>1. call' \in [Calls -> CallStates]
  BY CallFields DEF IInv, Reply, CallStates, Over, Call
<1>2. queue' \in Seq(Messages)
  BY MessageTypes, QueueAppend DEF Reply
<1>3. call'[c].st \in {"holding", "over"} /\ \A d \in Calls \ {c} : call'[d] = call[d]
  BY DEF Reply, Over, Call
<1>4. RequestsIn(queue)'
  <2>1. ASSUME NEW i \in 1 .. Len(q), q[i].op = "subscribe"
        PROVE  call'[q[i].call].st \in Pending
    <3>1. q[i] \in Messages
      BY ElementOfSeq, LenProperties
    <3>2. q[i].call \in Calls \ {c}
      BY <2>1, <3>1, MessageFields DEF NoRequestOf
    <3>. QED  BY <2>1, <3>2, <1>3 DEF RequestsIn
  <2>2. CASE call[c].st = "waiting"
    BY <2>1, <2>2 DEF Reply, RequestsIn
  <2>3. CASE call[c].st # "waiting"
    <3>. DEFINE m == DecRefMsg(call[c].sym, call[c].kind, h)
    <3>1. queue' = Append(q, m) /\ m \in Messages /\ m.op # "subscribe"
      BY <2>3, MessageTypes DEF Reply, DecRefMsg
    <3>. HIDE DEF m
    <3>. QED  BY <2>1, <3>1, QueueAppend DEF RequestsIn
  <2>. QED  BY <2>2, <2>3
<1>. QED  BY <1>1, <1>2, <1>3, <1>4

\* Steps that leave the hubs and tasks alone and make no call pending again.
LEMMA CallerFrame ==
  ASSUME IInv, UNCHANGED <<perSymbol, slot, task>>,
         job' = job \/ job' = None,
         \A c \in Calls : call'[c].st \in {"unused"} \cup Pending =>
                         /\ call[c].st \in {"unused"} \cup Pending
                         /\ call'[c].sym = call[c].sym /\ call'[c].kind = call[c].kind,
         job' # None => call'[job].st \in Pending
  PROVE  UnansweredIsFresh' /\ JobLaneIdle' /\ SlotTask' /\ PublisherOwned'
<1>1. UnansweredIsFresh'
  BY DEF IInv, UnansweredIsFresh
<1>2. JobLaneIdle'
  BY DEF IInv, TypeOK, JobLaneIdle, PublisherAlive
<1>3. SlotTask' /\ PublisherOwned'
  BY DEF IInv, SlotTask, PublisherOwned
<1>. QED  BY <1>1, <1>2, <1>3

\* Steps of a live publisher task: it keeps its hub and lane, or finishes.
LEMMA PublisherFrame ==
  ASSUME IInv, NEW t \in Calls, TaskLive(t), NEW x,
         task' = [task EXCEPT ![t] = x],
         x.st \in {"running", "exiting", "done"},
         IF x.st = "done" THEN x.hub = None
                          ELSE x.hub = task[t].hub /\ x.lane = task[t].lane,
         x.st = "exiting" => ~x.aborted,
         x.st = "running" => /\ task[t].st = "running"
                             /\ x.sym = task[t].sym
                             /\ x.aborted = task[t].aborted,
         UNCHANGED <<call, job, perSymbol, slot>>
  PROVE  UnansweredIsFresh' /\ JobLaneIdle' /\ SlotTask' /\ PublisherOwned'
<1>. task \in [Calls -> TaskStates] /\ None \notin Calls
  BY NoneAssumption DEF IInv, TypeOK
<1>. task'[t] = x /\ \A u \in Calls \ {t} : task'[u] = task[u]
  OBVIOUS
<1>1. UnansweredIsFresh'
  <2>1. SUFFICES ASSUME NEW c \in Calls, call[c].st \in {"unused"} \cup Pending
                 PROVE  task'[c] = NoTask /\ \A u \in Calls : task'[u].hub # c
    BY DEF IInv, UnansweredIsFresh
  <2>2. task[c] = NoTask /\ \A u \in Calls : task[u].hub # c
    BY <2>1 DEF IInv, UnansweredIsFresh
  <2>3. c # t
    BY <2>2 DEF TaskLive, NoTask, Task
  <2>4. x.hub # c
    BY <2>2
  <2>. QED  BY <2>2, <2>3, <2>4
<1>2. JobLaneIdle'
  <2>1. SUFFICES ASSUME job # None PROVE JobLaneIdle'
    BY DEF JobLaneIdle
  <2>. DEFINE h == perSymbol[call[job].sym]
              l == LaneOf(call[job].kind)
  <2>2. h \in Calls \cup {None} /\ l \in Lanes
    BY <2>1, CallFields DEF IInv, TypeOK, RequestsPending, LaneOf, Lanes
  <2>3. h = None \/ slot[h][l] = None \/ task[slot[h][l]].st = "done"
    BY <2>1 DEF IInv, JobLaneIdle, PublisherAlive
  <2>. HIDE DEF h, l
  <2>4. h = None \/ slot[h][l] = None \/ task'[slot[h][l]].st = "done"
    BY <2>2, <2>3 DEF IInv, TypeOK, TaskLive
  <2>. QED  BY <2>1, <2>4 DEF JobLaneIdle, PublisherAlive, h, l
<1>3. SlotTask'
  BY DEF IInv, TypeOK, SlotTask, TaskLive
<1>4. PublisherOwned'
  BY DEF IInv, PublisherOwned
<1>. QED  BY <1>1, <1>2, <1>3, <1>4

\* Teardown of the lanes L of the hubs H: a publisher that stays unaborted is in
\* a lane that was not torn down.
LEMMA TeardownFrame ==
  ASSUME IInv, NEW H \in SUBSET Calls, NEW L \in SUBSET Lanes,
         task' = Abort(H, L), slot' = TakeHandles(H, L),
         job = None, UNCHANGED <<call, job>>,
         \A s \in Symbols :
           \/ perSymbol'[s] = perSymbol[s]
           \/ perSymbol'[s] = None /\ L = Lanes /\ perSymbol[s] \in H \cup {None}
  PROVE  /\ task' \in [Calls -> TaskStates]
         /\ slot' \in [Calls -> [Lanes -> Calls \cup {None}]]
         /\ UnansweredIsFresh' /\ JobLaneIdle' /\ SlotTask' /\ PublisherOwned'
<1>. DEFINE Hit(t) == task[t].st = "running" /\ \E h \in H, l \in L : slot[h][l] = t
<1>0. /\ task \in [Calls -> TaskStates]
      /\ slot \in [Calls -> [Lanes -> Calls \cup {None}]]
      /\ None \notin Calls
  BY NoneAssumption DEF IInv, TypeOK
<1>1. ASSUME NEW t \in Calls
      PROVE  /\ task'[t] \in TaskStates
             /\ task'[t].st = task[t].st /\ task'[t].hub = task[t].hub
             /\ task'[t].lane = task[t].lane /\ task'[t].sym = task[t].sym
             /\ Hit(t) => task'[t].aborted
             /\ ~Hit(t) => task'[t] = task[t]
  <2>1. task'[t] = IF Hit(t) THEN [task[t] EXCEPT !.aborted = TRUE] ELSE task[t]
    BY DEF Abort
  <2>2. CASE Hit(t)
    <3>1. 0 \in 0 .. AutoExit - 1
      BY AutoExitAssumption
    <3>2. task[t] \in TaskStates /\ task[t].st = "running"
      BY <1>0, <2>2
    <3>. QED  BY <2>1, <2>2, <3>1, <3>2, RunningTask
  <2>3. CASE ~Hit(t)
    BY <1>0, <2>1, <2>3
  <2>. QED  BY <2>2, <2>3
<1>2. ASSUME NEW h \in Calls, NEW l \in Lanes
      PROVE  slot'[h][l] = IF h \in H /\ l \in L THEN None ELSE slot[h][l]
  BY <1>0 DEF TakeHandles
<1>3. task' \in [Calls -> TaskStates]
  BY <1>1 DEF Abort
<1>4. slot' \in [Calls -> [Lanes -> Calls \cup {None}]]
  BY <1>0 DEF TakeHandles
<1>5. UnansweredIsFresh'
  <2>1. ASSUME NEW c \in Calls, call[c].st \in {"unused"} \cup Pending
        PROVE  /\ task'[c] = NoTask /\ \A t \in Calls : task'[t].hub # c
               /\ \A s \in Symbols : perSymbol'[s] # c
    <3>1. task[c] = NoTask /\ \A t \in Calls : task[t].hub # c
      BY <2>1 DEF IInv, UnansweredIsFresh
    <3>2. ~Hit(c)
      BY <3>1 DEF NoTask, Task
    <3>3. \A s \in Symbols : perSymbol'[s] # c
      BY <1>0, <2>1 DEF IInv, UnansweredIsFresh
    <3>. QED  BY <1>1, <3>1, <3>2, <3>3
  <2>. QED  BY <2>1 DEF UnansweredIsFresh
<1>6. JobLaneIdle'
  BY DEF JobLaneIdle
<1>7. SlotTask'
  <2>1. SUFFICES ASSUME NEW h \in Calls, NEW l \in Lanes, slot'[h][l] # None,
                        task'[slot'[h][l]].st # "done"
                 PROVE  LET t == task'[slot'[h][l]]
                        IN  /\ t.st \in {"running", "exiting"}
                            /\ t.hub = h /\ t.lane = l /\ ~t.aborted
    BY DEF SlotTask
  <2>2. PICK t \in Calls : t = slot[h][l] /\ t = slot'[h][l] /\ ~(h \in H /\ l \in L)
    BY <1>0, <1>2, <2>1
  <2>3. /\ task[t].st \in {"running", "exiting"}
        /\ task[t].hub = h /\ task[t].lane = l /\ ~task[t].aborted
    <3>1. task[t].st # "done" /\ t # None
      BY <1>0, <1>1, <2>1, <2>2
    <3>2. slot[h][l] # None /\ task[slot[h][l]].st # "done"
      BY <2>2, <3>1
    <3>3. /\ task[slot[h][l]].st \in {"running", "exiting"}
          /\ task[slot[h][l]].hub = h /\ task[slot[h][l]].lane = l
          /\ ~task[slot[h][l]].aborted
      BY <3>2 DEF IInv, SlotTask
    <3>. QED  BY <2>2, <3>3
  <2>4. ~Hit(t)
    BY <1>0, <2>2, <2>3 DEF IInv, SlotTask
  <2>. QED  BY <1>1, <2>2, <2>3, <2>4
<1>8. PublisherOwned'
  <2>1. SUFFICES ASSUME NEW t \in Calls, task'[t].st = "running", ~task'[t].aborted
                 PROVE  /\ perSymbol'[task'[t].sym] = task'[t].hub
                        /\ slot'[task'[t].hub][task'[t].lane] = t
    BY DEF PublisherOwned
  <2>2. task'[t] = task[t] /\ ~Hit(t)
    BY <1>1, <2>1
  <2>. DEFINE h == task[t].hub
              l == task[t].lane
              s == task[t].sym
  <2>3. h \in Calls /\ l \in Lanes /\ s \in Symbols
    BY <2>1, <2>2, TaskFields DEF IInv
  <2>4. perSymbol[s] = h /\ slot[h][l] = t
    BY <2>1, <2>2 DEF IInv, PublisherOwned
  <2>5. ~(h \in H /\ l \in L)
    BY <2>1, <2>2, <2>4
  <2>6. slot'[h][l] = t
    BY <1>2, <2>3, <2>4, <2>5
  <2>7. perSymbol'[s] = h
    BY <1>0, <2>3, <2>4, <2>5
  <2>. QED  BY <2>2, <2>6, <2>7
<1>. QED  BY <1>3, <1>4, <1>5, <1>6, <1>7, <1>8

-----------------------------------------------------------------------------
(* Each action preserves the invariant *)

\* A new call sends its one request.
LEMMA SubscribeStep ==
  ASSUME IInv, NEW c \in Calls, NEW s \in Symbols, NEW k \in Kinds, Subscribe(c, s, k)
  PROVE  IInv'
<1>1. TypeOK'
  BY MessageTypes, QueueAppend DEF IInv, TypeOK, Subscribe, Send, CallStates, Call
<1>2. RequestsPending'
  <2>. queue \in Seq(Messages) /\ Len(queue) \in Nat /\ call[c].st = "unused"
    BY LenProperties DEF IInv, TypeOK, Subscribe
  <2>1. NoRequestOf(queue, c)
    BY DEF IInv, RequestsPending, RequestsIn, NoRequestOf, Pending, SubscribeMsg
  <2>2. /\ \A d \in Calls : call[d].st \in Pending => call'[d].st \in Pending
        /\ call'[c].st \in Pending /\ job' = job /\ job # c
    BY NoneAssumption DEF IInv, TypeOK, RequestsPending, Subscribe, Call, Pending
  <2>3. ASSUME NEW i \in 1 .. Len(queue), queue[i].op = "subscribe"
        PROVE  call'[queue[i].call].st \in Pending
    <3>1. queue[i] \in Messages
      BY ElementOfSeq
    <3>. QED  BY <2>2, <2>3, <3>1, MessageFields DEF IInv, RequestsPending, RequestsIn
  <2>4. CASE queue' = queue
    BY <2>2, <2>3, <2>4 DEF IInv, TypeOK, RequestsPending, RequestsIn, NoRequestOf
  <2>5. CASE queue' = Append(queue, SubscribeMsg(c))
    <3>. DEFINE m == SubscribeMsg(c)
    <3>1. m \in Messages /\ m.call = c /\ (job # None => m # SubscribeMsg(job))
      BY <2>2, MessageTypes DEF SubscribeMsg
    <3>2. \A i \in 1 .. Len(queue) : queue[i] # m
      BY <2>1 DEF NoRequestOf
    <3>3. queue' = Append(queue, m)
      BY <2>5
    <3>. HIDE DEF m
    <3>4. RequestsIn(queue)'
      BY <2>2, <2>3, <3>1, <3>2, <3>3, QueueAppend DEF IInv, RequestsPending, RequestsIn
    <3>5. job # None => NoRequestOf(queue, job)'
      BY <2>2, <3>1, <3>3, QueueAppend DEF IInv, RequestsPending, NoRequestOf
    <3>. QED  BY <2>2, <3>4, <3>5 DEF IInv, TypeOK, RequestsPending
  <2>. QED  BY <2>4, <2>5 DEF Subscribe, Send
<1>3. UnansweredIsFresh'
  BY DEF IInv, TypeOK, Subscribe, Call, UnansweredIsFresh, Pending
<1>4. JobLaneIdle'
  BY DEF IInv, TypeOK, Subscribe, JobLaneIdle, PublisherAlive, RequestsPending, Pending
<1>5. SlotTask'
  BY DEF IInv, Subscribe, SlotTask
<1>6. PublisherOwned'
  BY DEF IInv, Subscribe, PublisherOwned
<1>. QED  BY <1>1, <1>2, <1>3, <1>4, <1>5, <1>6 DEF IInv

\* A caller that gives up leaves its request in the channel.
LEMMA AbandonStep ==
  ASSUME IInv, NEW c \in Calls, Abandon(c)
  PROVE  IInv'
<1>1. TypeOK'
  BY CallFields DEF IInv, TypeOK, Abandon, CallStates, Call, Pending
<1>2. RequestsPending'
  BY MessageTypes, RequestsStay DEF IInv, TypeOK, Abandon, Call, Pending, ShutdownMsg
<1>3. UnansweredIsFresh' /\ JobLaneIdle' /\ SlotTask' /\ PublisherOwned'
  BY CallerFrame DEF IInv, TypeOK, Abandon, Call, Pending, RequestsPending
<1>. QED  BY <1>1, <1>2, <1>3 DEF IInv

\* A dropped handle's guard sends a DecRef, or nothing.
LEMMA DropHandleStep ==
  ASSUME IInv, NEW c \in Calls, DropHandle(c)
  PROVE  IInv'
<1>. DEFINE m == DecRefMsg(call[c].sym, call[c].kind, call[c].hub)
<1>1. m \in Messages /\ m.op # "subscribe"
  BY CallFields, MessageTypes DEF IInv, DropHandle, DecRefMsg
<1>2. queue' = queue \/ queue' = Append(queue, m)
  BY DEF DropHandle, Send
<1>. HIDE DEF m
<1>3. TypeOK'
  BY <1>1, <1>2, QueueAppend DEF IInv, TypeOK, DropHandle, CallStates
<1>4. RequestsPending'
  BY <1>1, <1>2, RequestsStay DEF IInv, TypeOK, DropHandle, Over, Call, Pending
<1>5. UnansweredIsFresh' /\ JobLaneIdle' /\ SlotTask' /\ PublisherOwned'
  BY CallerFrame DEF IInv, TypeOK, DropHandle, Over, Call, Pending, RequestsPending
<1>. QED  BY <1>3, <1>4, <1>5 DEF IInv

\* Dropping the router sends Shutdown.
LEMMA DropRouterStep ==
  ASSUME IInv, DropRouter
  PROVE  IInv'
<1>1. TypeOK'
  BY MessageTypes, QueueAppend DEF IInv, TypeOK, DropRouter, Send
<1>2. RequestsPending'
  BY MessageTypes, RequestsStay DEF DropRouter, Send, ShutdownMsg
<1>3. UnansweredIsFresh' /\ JobLaneIdle' /\ SlotTask' /\ PublisherOwned'
  BY CallerFrame DEF IInv, TypeOK, DropRouter, RequestsPending
<1>. QED  BY <1>1, <1>2, <1>3 DEF IInv

\* An item that finds a receiver resets the streak.
LEMMA PublishStep ==
  ASSUME IInv, NEW t \in Calls, Publish(t)
  PROVE  IInv'
<1>. DEFINE x == [task[t] EXCEPT !.streak = 0]
<1>1. /\ task' = [task EXCEPT ![t] = x] /\ x \in TaskStates
      /\ x.st = "running" /\ x.hub = task[t].hub /\ x.lane = task[t].lane
      /\ x.sym = task[t].sym /\ x.aborted = task[t].aborted
  <2>1. 0 \in 0 .. AutoExit - 1
    BY AutoExitAssumption
  <2>. QED  BY <2>1, RunningTask DEF IInv, TypeOK, Publish
<1>. HIDE DEF x
<1>2. TypeOK'
  BY <1>1 DEF IInv, TypeOK, Publish
<1>3. RequestsPending'
  BY MessageTypes, RequestsStay DEF Publish, ShutdownMsg
<1>4. UnansweredIsFresh' /\ JobLaneIdle' /\ SlotTask' /\ PublisherOwned'
  BY <1>1, PublisherFrame DEF Publish, TaskLive
<1>. QED  BY <1>2, <1>3, <1>4 DEF IInv

\* An item that finds none counts, up to the auto-exit.
LEMMA PublishToNobodyStep ==
  ASSUME IInv, NEW t \in Calls, PublishToNobody(t)
  PROVE  IInv'
<1>. PICK x : task' = [task EXCEPT ![t] = x] /\ x = IF task[t].streak + 1 >= AutoExit
                THEN Exiting(task[t]) ELSE [task[t] EXCEPT !.streak = task[t].streak + 1]
  BY DEF PublishToNobody
<1>1. /\ x \in TaskStates
      /\ x.st \in {"running", "exiting"} /\ x.hub = task[t].hub /\ x.lane = task[t].lane
      /\ x.st = "exiting" => ~x.aborted
      /\ x.st = "running" => x.sym = task[t].sym /\ x.aborted = task[t].aborted
  <2>. task[t].st = "running" /\ task[t] \in TaskStates
    BY DEF IInv, TypeOK, PublishToNobody
  <2>1. CASE task[t].streak + 1 >= AutoExit
    BY <2>1, TaskFields DEF IInv, TaskStates, Exiting, Task
  <2>2. CASE ~(task[t].streak + 1 >= AutoExit)
    <3>. task[t].streak \in 0 .. AutoExit - 1
      BY TaskFields DEF IInv
    <3>1. task[t].streak + 1 \in 0 .. AutoExit - 1
      BY <2>2, AutoExitAssumption
    <3>. QED  BY <2>2, <3>1, RunningTask
  <2>. QED  BY <2>1, <2>2
<1>2. TypeOK'
  BY <1>1 DEF IInv, TypeOK, PublishToNobody
<1>3. RequestsPending'
  BY MessageTypes, RequestsStay DEF PublishToNobody, ShutdownMsg
<1>4. UnansweredIsFresh' /\ JobLaneIdle' /\ SlotTask' /\ PublisherOwned'
  BY <1>1, PublisherFrame DEF PublishToNobody, TaskLive
<1>. QED  BY <1>2, <1>3, <1>4 DEF IInv

\* A publisher that loses its upstream notifies the actor and is past its last
\* await.
LEMMA LoseUpstreamStep ==
  ASSUME IInv, NEW t \in Calls, LoseUpstream(t)
  PROVE  IInv'
<1>. DEFINE x == Exiting(task[t])
            m == ClosedMsg(task[t].sym, task[t].hub)
<1>1. /\ task' = [task EXCEPT ![t] = x] /\ x \in TaskStates
      /\ x.st = "exiting" /\ x.hub = task[t].hub /\ x.lane = task[t].lane /\ ~x.aborted
  BY TaskFields DEF IInv, LoseUpstream, TaskStates, Exiting, Task
<1>2. m \in Messages /\ m.op # "subscribe"
  BY TaskFields, MessageTypes DEF IInv, LoseUpstream, ClosedMsg
<1>3. queue' = queue \/ queue' = Append(queue, m)
  BY DEF LoseUpstream, Send
<1>. HIDE DEF x, m
<1>4. TypeOK'
  <2>1. task[t].hub \in Calls
    BY TaskFields DEF IInv, LoseUpstream
  <2>2. task' \in [Calls -> TaskStates]
    BY <1>1 DEF IInv, TypeOK
  <2>3. queue \in Seq(Messages)
    BY DEF IInv, TypeOK
  <2>4. queue' \in Seq(Messages)
    BY <1>2, <1>3, <2>3, QueueAppend
  <2>. QED  BY <2>4, <2>1, <2>2, <2>3 DEF IInv, TypeOK, LoseUpstream
<1>5. RequestsPending'
  BY <1>2, <1>3, RequestsStay DEF LoseUpstream
<1>6. UnansweredIsFresh' /\ JobLaneIdle' /\ SlotTask' /\ PublisherOwned'
  BY <1>1, PublisherFrame DEF LoseUpstream, TaskLive
<1>. QED  BY <1>4, <1>5, <1>6 DEF IInv

\* A publisher ends, after an abort or past its last await.
LEMMA FinishStep ==
  ASSUME IInv, NEW t \in Calls, Finish(t)
  PROVE  IInv'
<1>1. TypeOK'
  BY DEF IInv, TypeOK, Finish, TaskStates
<1>2. RequestsPending'
  BY MessageTypes, RequestsStay DEF Finish, ShutdownMsg
<1>3. UnansweredIsFresh' /\ JobLaneIdle' /\ SlotTask' /\ PublisherOwned'
  <2>. Finished.st = "done" /\ Finished.hub = None
    BY DEF Finished, Task
  <2>. QED  BY PublisherFrame DEF Finish, TaskLive
<1>. QED  BY <1>1, <1>2, <1>3 DEF IInv

\* A subscribe on a lane with a publisher is answered at once.
LEMMA GrantSharedStep ==
  ASSUME IInv, NEW c \in Calls, GrantShared(c)
  PROVE  IInv'
<1>. DEFINE h == perSymbol[call[c].sym]
            q == Tail(queue)
<1>1. /\ queue # <<>> /\ Head(queue) = SubscribeMsg(c) /\ job = None /\ job' = None
      /\ h # None /\ Reply(c, h, q)
  BY DEF GrantShared, Receives, PublisherAlive
<1>2. /\ q \in Seq(Messages) /\ RequestsIn(q) /\ NoRequestOf(q, c)
      /\ call[c].st \in Pending
  BY <1>1, RequestsTail
<1>3. h \in Calls /\ call[c].kind \in Kinds
  BY <1>1, <1>2, CallFields DEF IInv, TypeOK
<1>. HIDE DEF h, q
<1>4. /\ call' \in [Calls -> CallStates] /\ queue' \in Seq(Messages)
      /\ RequestsIn(queue)'
      /\ call'[c].st \in {"holding", "over"}
      /\ \A d \in Calls \ {c} : call'[d] = call[d]
  BY <1>1, <1>2, <1>3, ReplyFacts
<1>5. refs' \in [Calls -> [Kinds -> Nat]]
  BY <1>3 DEF IInv, TypeOK, GrantShared, h
<1>6. TypeOK'
  BY <1>4, <1>5 DEF IInv, TypeOK, GrantShared
<1>7. RequestsPending'
  BY <1>1, <1>4 DEF RequestsPending
<1>8. UnansweredIsFresh' /\ JobLaneIdle' /\ SlotTask' /\ PublisherOwned'
  BY <1>1, <1>4, CallerFrame DEF GrantShared, Pending
<1>. QED  BY <1>6, <1>7, <1>8 DEF IInv

\* Any other subscribe becomes the job, and leaves the channel.
LEMMA BeginOpenStep ==
  ASSUME IInv, NEW c \in Calls, BeginOpen(c)
  PROVE  IInv'
<1>1. queue # <<>> /\ Head(queue) = SubscribeMsg(c) /\ job' = c /\ queue' = Tail(queue)
  BY DEF BeginOpen, Receives
<1>2. /\ Tail(queue) \in Seq(Messages) /\ RequestsIn(Tail(queue))
      /\ call[c].st \in Pending /\ NoRequestOf(Tail(queue), c)
  BY <1>1, RequestsTail
<1>3. TypeOK'
  BY <1>1, <1>2 DEF IInv, TypeOK, BeginOpen
<1>4. RequestsPending'
  BY <1>1, <1>2 DEF RequestsPending, RequestsIn, NoRequestOf, BeginOpen
<1>5. JobLaneIdle'
  BY <1>1 DEF JobLaneIdle, PublisherAlive, BeginOpen
<1>6. UnansweredIsFresh' /\ SlotTask' /\ PublisherOwned'
  BY DEF IInv, UnansweredIsFresh, SlotTask, PublisherOwned, BeginOpen
<1>. QED  BY <1>3, <1>4, <1>5, <1>6 DEF IInv

\* A failed open settles its call and touches no hub.
LEMMA OpenFailedStep ==
  ASSUME IInv, NEW c \in Calls, OpenFailed(c)
  PROVE  IInv'
<1>1. TypeOK'
  BY DEF IInv, TypeOK, OpenFailed, CallStates
<1>2. RequestsPending'
  <2>1. ASSUME NEW i \in 1 .. Len(queue), queue[i].op = "subscribe"
        PROVE  call'[queue[i].call].st \in Pending
    <3>1. queue[i] \in Messages
      BY ElementOfSeq, LenProperties DEF IInv, TypeOK
    <3>2. queue[i].call \in Calls \ {c}
      BY <2>1, <3>1, MessageFields, NoneAssumption
         DEF IInv, RequestsPending, NoRequestOf, OpenFailed
    <3>. QED  BY <2>1, <3>2 DEF IInv, TypeOK, RequestsPending, RequestsIn, OpenFailed
  <2>. QED  BY <2>1 DEF IInv, RequestsPending, RequestsIn, OpenFailed
<1>3. UnansweredIsFresh' /\ JobLaneIdle' /\ SlotTask' /\ PublisherOwned'
  BY CallerFrame DEF IInv, TypeOK, OpenFailed, Over, Call, Pending
<1>. QED  BY <1>1, <1>2, <1>3 DEF IInv

\* A DecRef that finds nothing to count is only received.
LEMMA DecRefIgnoredStep ==
  ASSUME IInv, DecRefIgnored
  PROVE  IInv'
<1>1. queue # <<>> /\ job = None /\ job' = None /\ queue' = Tail(queue)
  BY DEF DecRefIgnored, Receives
<1>2. Tail(queue) \in Seq(Messages) /\ RequestsIn(Tail(queue))
  BY <1>1, RequestsTail
<1>3. TypeOK'
  <2>. queue \in Seq(Messages)
    BY DEF IInv, TypeOK
  <2>1. Head(queue).sym \in Symbols
    BY <1>1, QueueTail, MessageFields DEF DecRefIgnored, Receives
  <2>2. crossed' \subseteq Calls
    BY <2>1 DEF IInv, TypeOK, DecRefIgnored, Cross
  <2>. QED  BY <1>1, <1>2, <2>2 DEF IInv, TypeOK, DecRefIgnored
<1>4. RequestsPending'
  BY <1>1, <1>2 DEF RequestsPending, RequestsIn, DecRefIgnored
<1>5. UnansweredIsFresh' /\ JobLaneIdle' /\ SlotTask' /\ PublisherOwned'
  BY <1>1, CallerFrame DEF DecRefIgnored, Pending
<1>. QED  BY <1>3, <1>4, <1>5 DEF IInv

\* A DecRef aborts the publishers of exactly the lanes whose handles it takes,
\* and removes the hub with both.
LEMMA DecRefStep ==
  ASSUME IInv, DecRef
  PROVE  IInv'
<1>. DEFINE m == Head(queue)
            h == perSymbol[m.sym]
            r == [refs[h] EXCEPT ![m.kind] = @ - 1]
            idle == IF r[m.kind] = 0 THEN IdleLanes(r) ELSE {}
<1>1. /\ queue # <<>> /\ job = None /\ job' = None /\ queue' = Tail(queue)
      /\ m.op = "decref" /\ Counted(h, m.kind) /\ refs' = [refs EXCEPT ![h] = r]
      /\ task' = Abort({h}, idle) /\ slot' = TakeHandles({h}, idle)
      /\ perSymbol' = IF idle = Lanes THEN [perSymbol EXCEPT ![m.sym] = None] ELSE perSymbol
      /\ crossed' = Cross(h, m.from)
      /\ UNCHANGED <<call, actor, dropped, ended, lost>>
  BY DEF DecRef, Receives
<1>2. /\ Tail(queue) \in Seq(Messages) /\ RequestsIn(Tail(queue))
      /\ m.sym \in Symbols /\ m.kind \in Kinds
  <2>. queue \in Seq(Messages)
    BY DEF IInv, TypeOK
  <2>. QED  BY <1>1, RequestsTail, QueueTail, MessageFields
<1>3. h \in Calls /\ idle \in SUBSET Lanes
  BY <1>1, <1>2 DEF IInv, TypeOK, Counted, IdleLanes
<1>4. refs' \in [Calls -> [Kinds -> Nat]]
  <2>1. refs[h] \in [Kinds -> Nat] /\ refs[h][m.kind] > 0
    BY <1>1, <1>3 DEF IInv, TypeOK, Counted
  <2>2. r \in [Kinds -> Nat]
    BY <1>2, <2>1
  <2>. QED  BY <1>1, <1>3, <2>2 DEF IInv, TypeOK
<1>5. perSymbol' \in [Symbols -> Calls \cup {None}]
  BY <1>1 DEF IInv, TypeOK
<1>6. \A s \in Symbols :
        \/ perSymbol'[s] = perSymbol[s]
        \/ perSymbol'[s] = None /\ idle = Lanes /\ perSymbol[s] \in {h} \cup {None}
  BY <1>1, <1>2 DEF IInv, TypeOK
<1>7. crossed' \subseteq Calls
  BY <1>1, <1>3 DEF IInv, TypeOK, Cross
<1>. HIDE DEF m, h, r, idle
<1>8. /\ task' \in [Calls -> TaskStates]
      /\ slot' \in [Calls -> [Lanes -> Calls \cup {None}]]
      /\ UnansweredIsFresh' /\ JobLaneIdle' /\ SlotTask' /\ PublisherOwned'
  <2>1. {h} \in SUBSET Calls
    BY <1>3
  <2>. QED  BY <1>1, <1>3, <1>6, <2>1, TeardownFrame
<1>9. TypeOK'
  BY <1>1, <1>2, <1>4, <1>5, <1>7, <1>8 DEF IInv, TypeOK
<1>10. RequestsPending'
  BY <1>1, <1>2 DEF RequestsPending, RequestsIn
<1>. QED  BY <1>8, <1>9, <1>10 DEF IInv

\* UpstreamClosed aborts both publishers of the hub that it removes.
LEMMA UpstreamClosedStep ==
  ASSUME IInv, UpstreamClosed
  PROVE  IInv'
<1>. DEFINE m == Head(queue)
            H == {perSymbol[m.sym]} \ {None}
<1>1. /\ queue # <<>> /\ job = None /\ job' = None /\ queue' = Tail(queue)
      /\ m.op = "closed" /\ ended' = ended \cup H
      /\ task' = Abort(H, Lanes) /\ slot' = TakeHandles(H, Lanes)
      /\ perSymbol' = [perSymbol EXCEPT ![m.sym] = None]
      /\ crossed' = Cross(perSymbol[m.sym], m.from)
      /\ UNCHANGED <<call, actor, dropped, refs, lost>>
  BY DEF UpstreamClosed, Receives
<1>2. Tail(queue) \in Seq(Messages) /\ RequestsIn(Tail(queue)) /\ m.sym \in Symbols
  <2>. queue \in Seq(Messages)
    BY DEF IInv, TypeOK
  <2>. QED  BY <1>1, RequestsTail, QueueTail, MessageFields
<1>3. H \in SUBSET Calls /\ perSymbol[m.sym] \in H \cup {None}
  BY <1>2 DEF IInv, TypeOK
<1>4. crossed' \subseteq Calls /\ perSymbol' \in [Symbols -> Calls \cup {None}]
  BY <1>1, <1>2 DEF IInv, TypeOK, Cross
<1>5. \A s \in Symbols :
        \/ perSymbol'[s] = perSymbol[s]
        \/ perSymbol'[s] = None /\ Lanes = Lanes /\ perSymbol[s] \in H \cup {None}
  BY <1>1, <1>3 DEF IInv, TypeOK
<1>. HIDE DEF m, H
<1>6. /\ task' \in [Calls -> TaskStates]
      /\ slot' \in [Calls -> [Lanes -> Calls \cup {None}]]
      /\ UnansweredIsFresh' /\ JobLaneIdle' /\ SlotTask' /\ PublisherOwned'
  BY <1>1, <1>3, <1>5, TeardownFrame
<1>7. TypeOK'
  BY <1>1, <1>2, <1>3, <1>4, <1>6 DEF IInv, TypeOK
<1>8. RequestsPending'
  BY <1>1, <1>2 DEF RequestsPending, RequestsIn
<1>. QED  BY <1>6, <1>7, <1>8 DEF IInv

\* Shutdown aborts the publishers of every hub in the map.
LEMMA ShutdownStep ==
  ASSUME IInv, Shutdown
  PROVE  IInv'
<1>. DEFINE H == {h \in Calls : InMap(h)}
<1>1. /\ job = None /\ job' = None /\ queue' = <<>> /\ actor' = "stopped"
      /\ task' = Abort(H, Lanes) /\ slot' = TakeHandles(H, Lanes)
      /\ perSymbol' = [s \in Symbols |-> None]
      /\ UNCHANGED <<call, dropped, refs, ended, crossed, lost>>
  BY DEF Shutdown, Receives
<1>2. H \in SUBSET Calls /\ \A s \in Symbols : perSymbol[s] \in H \cup {None}
  BY DEF IInv, TypeOK, InMap
<1>3. \A s \in Symbols :
        \/ perSymbol'[s] = perSymbol[s]
        \/ perSymbol'[s] = None /\ Lanes = Lanes /\ perSymbol[s] \in H \cup {None}
  BY <1>1, <1>2
<1>. HIDE DEF H
<1>4. /\ task' \in [Calls -> TaskStates]
      /\ slot' \in [Calls -> [Lanes -> Calls \cup {None}]]
      /\ UnansweredIsFresh' /\ JobLaneIdle' /\ SlotTask' /\ PublisherOwned'
  BY <1>1, <1>2, <1>3, TeardownFrame
<1>5. TypeOK'
  BY <1>1, <1>4, EmptySeq DEF IInv, TypeOK
<1>6. RequestsPending'
  BY <1>1, EmptySeq DEF RequestsPending, RequestsIn
<1>. QED  BY <1>4, <1>5, <1>6 DEF IInv

\* A successful open installs the new publisher in a slot whose previous
\* publisher, if any, has finished: the new one is the lane's only one.
LEMMA OpenOkStep ==
  ASSUME IInv, NEW c \in Calls, OpenOk(c)
  PROVE  IInv'
<1>. DEFINE s == call[c].sym
            k == call[c].kind
            l == LaneOf(k)
            h == IF perSymbol[s] = None THEN c ELSE perSymbol[s]
            x == NewTask(s, l, h)
<1>1. /\ job = c /\ job' = None /\ Reply(c, h, queue)
      /\ perSymbol' = [perSymbol EXCEPT ![s] = h]
      /\ refs' = [refs EXCEPT ![h][k] = @ + 1]
      /\ slot' = [slot EXCEPT ![h][l] = c]
      /\ task' = [task EXCEPT ![c] = x]
      /\ UNCHANGED <<actor, dropped, ended, crossed, lost>>
  BY DEF OpenOk
<1>2. /\ call[c].st \in Pending /\ queue \in Seq(Messages) /\ RequestsIn(queue)
      /\ NoRequestOf(queue, c) /\ c # None
  BY <1>1, NoneAssumption DEF IInv, TypeOK, RequestsPending
<1>3. /\ s \in Symbols /\ k \in Kinds /\ l \in Lanes /\ h \in Calls
      /\ task[c] = NoTask /\ \A t \in Calls : task[t].hub # c
  BY <1>2, CallFields DEF IInv, TypeOK, UnansweredIsFresh, LaneOf, Kinds, Lanes
<1>4. h # c \/ perSymbol[s] = None \/ perSymbol[s] = c
  OBVIOUS
<1>5. \/ h = c /\ perSymbol[s] \in {None, c}
      \/ h = perSymbol[s] /\ ~PublisherAlive(h, l)
  BY <1>1, <1>2 DEF IInv, JobLaneIdle
<1>6. /\ x \in TaskStates /\ x.st = "running" /\ x.sym = s /\ x.lane = l /\ x.hub = h
      /\ x.aborted = FALSE
  BY <1>3, AutoExitAssumption DEF NewTask, Task, TaskStates
<1>7. perSymbol'[s] = h /\ \A r \in Symbols \ {s} : perSymbol'[r] = perSymbol[r]
  BY <1>1, <1>3 DEF IInv, TypeOK
<1>8. perSymbol' \in [Symbols -> Calls \cup {None}] /\ refs' \in [Calls -> [Kinds -> Nat]]
  BY <1>1, <1>3 DEF IInv, TypeOK
<1>. HIDE DEF s, k, l, h, x
<1>9. /\ call' \in [Calls -> CallStates] /\ queue' \in Seq(Messages)
      /\ RequestsIn(queue)'
      /\ call'[c].st \in {"holding", "over"}
      /\ \A d \in Calls \ {c} : call'[d] = call[d]
  BY <1>1, <1>2, <1>3, ReplyFacts
<1>10. /\ slot' \in [Calls -> [Lanes -> Calls \cup {None}]]
       /\ slot'[h][l] = c
       /\ \A g \in Calls, m \in Lanes : g # h \/ m # l => slot'[g][m] = slot[g][m]
  BY <1>1, <1>3 DEF IInv, TypeOK
<1>11. /\ task' \in [Calls -> TaskStates] /\ task'[c] = x
       /\ \A t \in Calls \ {c} : task'[t] = task[t]
  BY <1>1, <1>6 DEF IInv, TypeOK
<1>12. TypeOK'
  BY <1>1, <1>8, <1>9, <1>10, <1>11 DEF IInv, TypeOK
<1>13. RequestsPending'
  BY <1>1, <1>9 DEF RequestsPending
<1>14. JobLaneIdle'
  BY <1>1 DEF JobLaneIdle
<1>15. UnansweredIsFresh'
  <2>1. SUFFICES ASSUME NEW d \in Calls, call'[d].st \in {"unused"} \cup Pending
                 PROVE  /\ task'[d] = NoTask /\ \A t \in Calls : task'[t].hub # d
                        /\ \A r \in Symbols : perSymbol'[r] # d
    BY DEF UnansweredIsFresh
  <2>2. d # c /\ call[d].st \in {"unused"} \cup Pending
    BY <1>9, <2>1 DEF Pending
  <2>3. /\ task[d] = NoTask /\ \A t \in Calls : task[t].hub # d
        /\ \A r \in Symbols : perSymbol[r] # d
    BY <2>2 DEF IInv, UnansweredIsFresh
  <2>4. h # d
    BY <1>3, <1>5, <2>2, <2>3
  <2>. QED  BY <1>6, <1>7, <1>11, <2>2, <2>3, <2>4
<1>16. SlotTask'
  <2>1. SUFFICES ASSUME NEW g \in Calls, NEW m \in Lanes, slot'[g][m] # None
                 PROVE  LET t == task'[slot'[g][m]]
                        IN  \/ t.st = "done"
                            \/ t.st \in {"running", "exiting"} /\ t.hub = g /\ t.lane = m
                               /\ ~t.aborted
    BY DEF SlotTask
  <2>2. CASE g = h /\ m = l
    BY <1>6, <1>10, <1>11, <2>2
  <2>3. CASE ~(g = h /\ m = l)
    <3>1. slot'[g][m] = slot[g][m] /\ slot[g][m] \in Calls
      BY <1>10, <2>1, <2>3 DEF IInv, TypeOK
    <3>2. slot[g][m] # c
      BY <1>3, <2>1, <3>1 DEF IInv, SlotTask, NoTask, Task
    <3>3. task'[slot'[g][m]] = task[slot[g][m]]
      BY <1>11, <3>1, <3>2
    <3>. QED  BY <2>1, <3>1, <3>3 DEF IInv, SlotTask
  <2>. QED  BY <2>2, <2>3
<1>17. PublisherOwned'
  <2>1. SUFFICES ASSUME NEW t \in Calls, task'[t].st = "running", ~task'[t].aborted
                 PROVE  /\ perSymbol'[task'[t].sym] = task'[t].hub
                        /\ slot'[task'[t].hub][task'[t].lane] = t
    BY DEF PublisherOwned
  <2>2. CASE t = c
    BY <1>6, <1>7, <1>10, <1>11, <2>2
  <2>3. CASE t # c
    <3>1. task'[t] = task[t]
      BY <1>11, <2>3
    <3>2. /\ perSymbol[task[t].sym] = task[t].hub
          /\ slot[task[t].hub][task[t].lane] = t
      BY <2>1, <3>1 DEF IInv, PublisherOwned
    <3>3. task[t].hub \in Calls \ {c} /\ task[t].lane \in Lanes /\ task[t].sym \in Symbols
      BY <1>3, <2>1, <3>1, TaskFields DEF IInv
    <3>4. task[t].hub # h \/ task[t].lane # l
      <4>1. SUFFICES ASSUME task[t].hub = h, task[t].lane = l PROVE FALSE
        OBVIOUS
      <4>2. ~PublisherAlive(h, l)
        BY <1>5, <3>3, <4>1
      <4>. QED  BY <2>1, <3>1, <3>2, <3>3, <4>1, <4>2, NoneAssumption DEF PublisherAlive
    <3>5. slot'[task[t].hub][task[t].lane] = t
      BY <1>10, <3>2, <3>3, <3>4
    <3>6. perSymbol'[task[t].sym] = task[t].hub
      BY <1>5, <1>7, <3>2, <3>3, NoneAssumption
    <3>. QED  BY <3>1, <3>5, <3>6
  <2>. QED  BY <2>2, <2>3
<1>. QED  BY <1>12, <1>13, <1>14, <1>15, <1>16, <1>17 DEF IInv

-----------------------------------------------------------------------------
(* Theorems *)

\* Nothing is pending, open or running at first.
LEMMA InitIInv == Init => IInv
<1>. SUFFICES ASSUME Init PROVE IInv
  OBVIOUS
<1>1. TypeOK
  BY EmptySeq DEF Init, TypeOK, CallStates, TaskStates, Unused, NoTask
<1>2. RequestsPending
  BY EmptySeq DEF Init, RequestsPending, RequestsIn
<1>3. UnansweredIsFresh
  BY NoneAssumption DEF Init, UnansweredIsFresh, NoTask, Task
<1>4. JobLaneIdle /\ SlotTask /\ PublisherOwned
  BY DEF Init, JobLaneIdle, SlotTask, PublisherOwned, NoTask, Task
<1>. QED  BY <1>1, <1>2, <1>3, <1>4 DEF IInv

\* A step of something else keeps the invariant.
LEMMA StutterStep ==
  ASSUME IInv, UNCHANGED vars
  PROVE  IInv'
<1>. UNCHANGED <<call, queue, actor, job, dropped, perSymbol, refs, slot, ended,
                 task, crossed, lost>>
  BY DEF vars
<1>1. TypeOK'
  BY DEF IInv, TypeOK
<1>2. RequestsPending'
  BY DEF IInv, RequestsPending, RequestsIn, NoRequestOf
<1>3. UnansweredIsFresh' /\ JobLaneIdle'
  BY DEF IInv, UnansweredIsFresh, JobLaneIdle, PublisherAlive
<1>4. SlotTask' /\ PublisherOwned'
  BY DEF IInv, SlotTask, PublisherOwned
<1>. QED  BY <1>1, <1>2, <1>3, <1>4 DEF IInv

\* Every step of the router keeps the invariant.
LEMMA NextIInv == IInv /\ [Next]_vars => IInv'
<1>. SUFFICES ASSUME IInv, [Next]_vars PROVE IInv'
  OBVIOUS
<1>1. CASE \E c \in Calls, s \in Symbols, k \in Kinds : Subscribe(c, s, k)
  BY <1>1, SubscribeStep
<1>2. CASE \E c \in Calls : Abandon(c) \/ DropHandle(c) \/ OpenOk(c) \/ OpenFailed(c)
  BY <1>2, AbandonStep, DropHandleStep, OpenOkStep, OpenFailedStep
<1>3. CASE \E t \in Calls : Publish(t) \/ PublishToNobody(t) \/ LoseUpstream(t) \/ Finish(t)
  BY <1>3, PublishStep, PublishToNobodyStep, LoseUpstreamStep, FinishStep
<1>4. CASE DropRouter
  BY <1>4, DropRouterStep
<1>5. CASE Receive
  <2>1. CASE \E c \in Calls : GrantShared(c) \/ BeginOpen(c)
    BY <2>1, GrantSharedStep, BeginOpenStep
  <2>2. CASE DecRefIgnored \/ DecRef
    BY <2>2, DecRefIgnoredStep, DecRefStep
  <2>3. CASE UpstreamClosed \/ Shutdown
    BY <2>3, UpstreamClosedStep, ShutdownStep
  <2>. QED  BY <1>5, <2>1, <2>2, <2>3 DEF Receive
<1>6. CASE UNCHANGED vars
  BY <1>6, StutterStep
<1>. QED  BY <1>1, <1>2, <1>3, <1>4, <1>5, <1>6 DEF Next

\* The inductive invariant holds in every behaviour of the router.
THEOREM Invariance == Spec => []IInv
BY InitIInv, NextIInv, PTL DEF Spec

\* The router's state is always of its types; in particular the messages that
\* the actor decodes and the refcounts that it decrements (handle_dec_ref).
THEOREM TypeCorrect == Spec => []TypeOK
<1>1. IInv => TypeOK
  BY DEF IInv
<1>. QED  BY <1>1, Invariance, PTL

\* For any number of callers, symbols and interleavings: a publisher task that
\* nobody aborted is in the slot of its lane in the symbol's hub, so a symbol
\* never has two unaborted upstreams in a lane and never one without a hub.
THEOREM PublishersOwned == Spec => []PublisherOwned
<1>1. IInv => PublisherOwned
  BY DEF IInv
<1>. QED  BY <1>1, Invariance, PTL

\* Only an answer of the actor turns a waiting call into a handle.
LEMMA GrantsAnswer ==
  ASSUME IInv, Next, NEW c \in Calls, call[c].st = "waiting", call'[c].st = "holding"
  PROVE  GrantShared(c) \/ OpenOk(c)
<1>0. call \in [Calls -> CallStates]
  BY DEF IInv, TypeOK
<1>1. CASE \E d \in Calls, s \in Symbols, k \in Kinds : Subscribe(d, s, k)
  BY <1>0, <1>1 DEF Subscribe, Call
<1>2. CASE \E d \in Calls : Abandon(d) \/ DropHandle(d) \/ OpenFailed(d)
  BY <1>0, <1>2 DEF Abandon, DropHandle, OpenFailed, Over, Call
<1>3. CASE \E d \in Calls : OpenOk(d) \/ GrantShared(d)
  <2>1. PICK d \in Calls : OpenOk(d) \/ GrantShared(d)
    BY <1>3
  <2>2. \E h, q : Reply(d, h, q)
    BY <2>1 DEF OpenOk, GrantShared
  <2>3. d = c
    BY <1>0, <2>2 DEF Reply
  <2>. QED  BY <2>1, <2>3
<1>4. CASE \E d \in Calls : BeginOpen(d)
  BY <1>4 DEF BeginOpen
<1>5. CASE DecRefIgnored \/ DecRef \/ UpstreamClosed \/ Shutdown \/ DropRouter
  BY <1>5 DEF DecRefIgnored, DecRef, UpstreamClosed, Shutdown, DropRouter
<1>6. CASE \E t \in Calls : Publish(t) \/ PublishToNobody(t) \/ LoseUpstream(t) \/ Finish(t)
  BY <1>6 DEF Publish, PublishToNobody, LoseUpstream, Finish
<1>. QED  BY <1>1, <1>2, <1>3, <1>4, <1>5, <1>6 DEF Next, Receive

\* An answer comes with the publisher that was found, or with a new one.
LEMMA GrantsHold ==
  ASSUME IInv, Next
  PROVE  GrantStep
<1>. SUFFICES ASSUME NEW c \in Calls, call[c].st = "waiting", call'[c].st = "holding"
              PROVE  LET h == call'[c].hub
                         t == slot'[h][LaneOf(call[c].kind)]
                     IN  /\ perSymbol'[call[c].sym] = h
                         /\ t # None /\ task'[t].st # "done" /\ ~task'[t].aborted
  BY DEF GrantStep
<1>. DEFINE s == call[c].sym
            l == LaneOf(call[c].kind)
<1>0. /\ call \in [Calls -> CallStates] /\ s \in Symbols /\ l \in Lanes
      /\ slot \in [Calls -> [Lanes -> Calls \cup {None}]]
      /\ perSymbol \in [Symbols -> Calls \cup {None}]
      /\ task \in [Calls -> TaskStates] /\ None \notin Calls
  BY CallFields, NoneAssumption DEF IInv, TypeOK, Pending, LaneOf, Kinds, Lanes
<1>1. CASE GrantShared(c)
  <2>. DEFINE h == perSymbol[s]
  <2>1. /\ PublisherAlive(h, l) /\ UNCHANGED <<perSymbol, slot, task>>
        /\ call'[c].hub = h
    BY <1>0, <1>1 DEF GrantShared, Reply, Call
  <2>2. h \in Calls /\ slot[h][l] # None /\ task[slot[h][l]].st # "done"
    BY <1>0, <2>1 DEF PublisherAlive
  <2>. HIDE DEF h, l
  <2>3. ~task[slot[h][l]].aborted
    BY <1>0, <2>2 DEF IInv, SlotTask
  <2>. QED  BY <2>1, <2>2, <2>3 DEF h, l
<1>2. CASE OpenOk(c)
  <2>. DEFINE h == IF perSymbol[s] = None THEN c ELSE perSymbol[s]
              x == NewTask(s, l, h)
  <2>1. /\ perSymbol' = [perSymbol EXCEPT ![s] = h] /\ slot' = [slot EXCEPT ![h][l] = c]
        /\ task' = [task EXCEPT ![c] = x]
        /\ call'[c].hub = h
    BY <1>0, <1>2 DEF OpenOk, Reply, Call
  <2>2. h \in Calls /\ x.st = "running" /\ x.aborted = FALSE
    BY <1>0 DEF NewTask, Task
  <2>. HIDE DEF h, l, x
  <2>3. perSymbol'[s] = h /\ slot'[h][l] = c /\ task'[c] = x
    BY <1>0, <2>1, <2>2
  <2>. QED  BY <1>0, <2>1, <2>2, <2>3 DEF l
<1>. QED  BY <1>1, <1>2, GrantsAnswer

\* No caller is ever handed a handle on a hub that left the map, or one whose
\* publisher was aborted or had finished when the actor answered.
THEOREM GrantsHavePublisher == Spec => GrantHasPublisher
<1>1. IInv /\ [Next]_vars => [GrantStep]_vars
  BY GrantsHold
<1>. QED  BY <1>1, Invariance, PTL DEF Spec, GrantHasPublisher

-----------------------------------------------------------------------------
(* Counting handles and the messages that give them back.  A use of a hub is *)
(* named by the DecRef that ends it: the one that a live handle's guard is   *)
(* going to send, or the one that is in the channel already.                 *)

DecRefs == {DecRefMsg(s, k, h) : s \in Symbols, k \in Kinds, h \in Calls}

\* The DecRef of a handle, and the messages in a channel.
GuardMsg(c) == DecRefMsg(call[c].sym, call[c].kind, call[c].hub)
Sent(q) == {q[i] : i \in 1 .. Len(q)}

\* The uses that are handles, those that are messages, and how many there are.
HeldOf(P) == {c \in Calls : call[c].st = "holding" /\ GuardMsg(c) \in P}
SentOf(q, P) == {i \in 1 .. Len(q) : q[i] \in P}
Uses(P) == Cardinality(HeldOf(P)) + Cardinality(SentOf(queue, P))

\* The uses of one hub, and of all hubs a symbol has had.
OfHub(h, k) == {DecRefMsg(s, k, h) : s \in Symbols}
OfSymbol(s, k) == {DecRefMsg(s, k, h) : h \in Calls}

HandlesFinite == IsFiniteSet({c \in Calls : call[c].st = "holding"})

\* A hub in the map is under one symbol, which is that of all its uses.
HubSymbol ==
  \A s \in Symbols :
    perSymbol[s] # None =>
      /\ \A r \in Symbols : perSymbol[r] = perSymbol[s] => r = s
      /\ \A c \in Calls : call[c].st = "holding" /\ call[c].hub = perSymbol[s] => call[c].sym = s
      /\ \A m \in Sent(queue) : m.op = "decref" /\ m.from = perSymbol[s] => m.sym = s

\* A hub that is not there yet has not been used or counted.
UnansweredIsUnused ==
  \A h \in Calls :
    call[h].st \in {"unused"} \cup Pending =>
      /\ \A k \in Kinds : refs[h][k] = 0
      /\ \A c \in Calls : call[c].st = "holding" => call[c].hub # h
      /\ \A m \in Sent(queue) : m.op = "decref" => m.from # h

StoppedIsEmpty ==
  actor = "stopped" => job = None /\ \A s \in Symbols : perSymbol[s] = None

\* What RefcountsExact says, by uses.
HubCounts ==
  \A s \in Symbols, k \in Kinds, h \in Calls :
    perSymbol[s] = h /\ h \notin crossed => refs[h][k] = Uses(OfHub(h, k))

\* Whatever crossed, a hub counts no more than its symbol's uses ...
SymbolCounts ==
  \A s \in Symbols, k \in Kinds :
    perSymbol[s] # None => refs[perSymbol[s]][k] <= Uses(OfSymbol(s, k))

\* ... and it counts something, or it would have been reaped.
HubIsUsed ==
  \A s \in Symbols : perSymbol[s] # None => \E k \in Kinds : refs[perSymbol[s]][k] > 0

Counts ==
  /\ HandlesFinite
  /\ HubSymbol
  /\ UnansweredIsUnused
  /\ StoppedIsEmpty
  /\ HubCounts
  /\ SymbolCounts
  /\ HubIsUsed
  /\ HandleKeepsHub

-----------------------------------------------------------------------------
(* Lemmas about counting *)

\* Sending adds one use if the message is one.
LEMMA SentAppend ==
  ASSUME NEW q \in Seq(Messages), NEW m \in Messages, NEW P
  PROVE  /\ IsFiniteSet(SentOf(q, P)) /\ Cardinality(SentOf(q, P)) \in Nat
         /\ Cardinality(SentOf(Append(q, m), P)) =
              Cardinality(SentOf(q, P)) + (IF m \in P THEN 1 ELSE 0)
         /\ Sent(Append(q, m)) = Sent(q) \cup {m}
<1>1. Len(q) \in Nat /\ Len(Append(q, m)) = Len(q) + 1
  BY QueueAppend
<1>2. IsFiniteSet(SentOf(q, P)) /\ Cardinality(SentOf(q, P)) \in Nat
  <2>1. IsFiniteSet(1 .. Len(q)) /\ SentOf(q, P) \in SUBSET (1 .. Len(q))
    BY <1>1, FS_Interval DEF SentOf
  <2>. QED  BY <2>1, FS_Subset, FS_CardinalityType
<1>3. SentOf(Append(q, m), P) =
        IF m \in P THEN SentOf(q, P) \cup {Len(q) + 1} ELSE SentOf(q, P)
  BY <1>1, QueueAppend DEF SentOf
<1>4. Len(q) + 1 \notin SentOf(q, P)
  BY <1>1 DEF SentOf
<1>5. Sent(Append(q, m)) = Sent(q) \cup {m}
  <2>1. ASSUME NEW x \in Sent(Append(q, m)) PROVE x \in Sent(q) \cup {m}
    BY <1>1, QueueAppend DEF Sent
  <2>2. ASSUME NEW x \in Sent(q) \cup {m} PROVE x \in Sent(Append(q, m))
    <3>1. CASE x = m
      BY <1>1, <3>1, QueueAppend DEF Sent
    <3>2. CASE x # m
      BY <1>1, <2>2, <3>2, QueueAppend DEF Sent
    <3>. QED  BY <3>1, <3>2
  <2>. QED  BY <2>1, <2>2
<1>6. Cardinality(SentOf(q, P) \cup {Len(q) + 1}) = Cardinality(SentOf(q, P)) + 1
  BY <1>2, <1>4, FS_AddElement, Zenon
<1>. QED  BY <1>2, <1>3, <1>5, <1>6

\* Receiving takes one use away if the message is one.
LEMMA SentTail ==
  ASSUME NEW q \in Seq(Messages), q # <<>>, NEW P
  PROVE  /\ Cardinality(SentOf(q, P)) \in Nat
         /\ Cardinality(SentOf(Tail(q), P)) \in Nat
         /\ Cardinality(SentOf(Tail(q), P)) =
              Cardinality(SentOf(q, P)) - (IF Head(q) \in P THEN 1 ELSE 0)
         /\ Sent(Tail(q)) \subseteq Sent(q)
         /\ Head(q) \in Sent(q)
<1>. DEFINE A == SentOf(Tail(q), P)
            B == SentOf(q, P) \ {1}
            f == [i \in A |-> i + 1]
<1>1. /\ Head(q) = q[1] /\ Tail(q) \in Seq(Messages)
      /\ Len(q) \in Nat \ {0} /\ Len(Tail(q)) = Len(q) - 1
      /\ \A i \in 1 .. Len(Tail(q)) : Tail(q)[i] = q[i + 1]
  BY QueueTail
<1>2. /\ IsFiniteSet(SentOf(q, P)) /\ Cardinality(SentOf(q, P)) \in Nat
      /\ IsFiniteSet(A) /\ Cardinality(A) \in Nat
  BY <1>1, SentAppend, MessageTypes
<1>3. f \in Bijection(A, B)
  <2>1. \A i \in A : i \in Nat /\ i + 1 \in B
    BY <1>1 DEF SentOf
  <2>2. \A j \in B : j - 1 \in A /\ j \in Nat /\ (j - 1) + 1 = j
    BY <1>1 DEF SentOf
  <2>. HIDE DEF A, B
  <2>3. f \in Injection(A, B)
    BY <2>1 DEF Injection, IsInjective
  <2>4. f \in Surjection(A, B)
    BY <2>1, <2>2 DEF Surjection
  <2>. QED  BY <2>3, <2>4 DEF Bijection
<1>4. Cardinality(A) = Cardinality(B)
  BY <1>2, <1>3, FS_Bijection DEF ExistsBijection
<1>5. 1 \in SentOf(q, P) <=> Head(q) \in P
  BY <1>1 DEF SentOf
<1>6. Cardinality(B) = Cardinality(SentOf(q, P)) - (IF Head(q) \in P THEN 1 ELSE 0)
  <2>1. Cardinality(B) = IF 1 \in SentOf(q, P) THEN Cardinality(SentOf(q, P)) - 1
                                               ELSE Cardinality(SentOf(q, P))
    BY <1>2, FS_RemoveElement, Zenon
  <2>. QED  BY <1>2, <1>5, <2>1
<1>7. Sent(Tail(q)) \subseteq Sent(q) /\ Head(q) \in Sent(q)
  <2>1. \A i \in 1 .. Len(Tail(q)) : Tail(q)[i] \in Sent(q)
    BY <1>1 DEF Sent
  <2>. QED  BY <1>1, <2>1 DEF Sent
<1>. QED  BY <1>2, <1>4, <1>6, <1>7

\* What is neither sent nor received is a use as before.
LEMMA QuietQueue ==
  ASSUME NEW q \in Seq(Messages), NEW r,
         \/ r = q
         \/ \E m \in Messages : m.op # "decref" /\ r = Append(q, m)
         \/ q # <<>> /\ Head(q).op # "decref" /\ r = Tail(q)
  PROVE  /\ r \in Seq(Messages)
         /\ \A P \in SUBSET DecRefs : Cardinality(SentOf(r, P)) = Cardinality(SentOf(q, P))
         /\ \A m \in Sent(r) : m.op = "decref" => m \in Sent(q)
<1>1. \A P \in SUBSET DecRefs : \A m : m.op # "decref" => m \notin P
  BY DEF DecRefs, DecRefMsg
<1>2. CASE r = q
  BY <1>2
<1>3. CASE \E m \in Messages : m.op # "decref" /\ r = Append(q, m)
  <2>1. PICK m \in Messages : m.op # "decref" /\ r = Append(q, m)
    BY <1>3
  <2>2. ASSUME NEW P \in SUBSET DecRefs
        PROVE  Cardinality(SentOf(r, P)) = Cardinality(SentOf(q, P))
    <3>1. m \notin P
      BY <1>1, <2>1
    <3>. QED  BY <2>1, <3>1, SentAppend
  <2>3. Sent(r) = Sent(q) \cup {m} /\ r \in Seq(Messages)
    BY <2>1, SentAppend, QueueAppend
  <2>. QED  BY <2>1, <2>2, <2>3
<1>4. CASE q # <<>> /\ Head(q).op # "decref" /\ r = Tail(q)
  <2>2. ASSUME NEW P \in SUBSET DecRefs
        PROVE  Cardinality(SentOf(r, P)) = Cardinality(SentOf(q, P))
    <3>1. Head(q) \notin P
      BY <1>1, <1>4
    <3>. QED  BY <1>4, <3>1, SentTail
  <2>3. Sent(r) \subseteq Sent(q) /\ r \in Seq(Messages)
    BY <1>4, SentTail, QueueTail
  <2>. QED  BY <2>2, <2>3
<1>. QED  BY <1>2, <1>3, <1>4

\* The handles among some uses are finitely many.
LEMMA HeldFinite ==
  ASSUME HandlesFinite, NEW P
  PROVE  IsFiniteSet(HeldOf(P)) /\ Cardinality(HeldOf(P)) \in Nat
<1>1. HeldOf(P) \in SUBSET {c \in Calls : call[c].st = "holding"}
  BY DEF HeldOf
<1>. QED  BY <1>1, FS_Subset, FS_CardinalityType DEF HandlesFinite

\* Steps of calls that hold nothing, before and after, change no handle.
LEMMA HeldStay ==
  ASSUME \A c \in Calls : /\ call'[c].st = "holding" <=> call[c].st = "holding"
                          /\ call[c].st = "holding" => call'[c] = call[c]
  PROVE  /\ HandlesFinite => HandlesFinite'
         /\ \A P : HeldOf(P)' = HeldOf(P)
<1>1. {c \in Calls : call'[c].st = "holding"} = {c \in Calls : call[c].st = "holding"}
  OBVIOUS
<1>2. ASSUME NEW P PROVE HeldOf(P)' = HeldOf(P)
  BY DEF HeldOf, GuardMsg
<1>. QED  BY <1>1, <1>2 DEF HandlesFinite

\* What the guard of a handle will send.
LEMMA GuardFields ==
  ASSUME TypeOK, NEW c \in Calls, call[c].st = "holding"
  PROVE  /\ GuardMsg(c) \in DecRefs /\ GuardMsg(c) \in Messages
         /\ GuardMsg(c).op = "decref" /\ GuardMsg(c).sym = call[c].sym
         /\ GuardMsg(c).kind = call[c].kind /\ GuardMsg(c).from = call[c].hub
<1>1. call[c].sym \in Symbols /\ call[c].kind \in Kinds /\ call[c].hub \in Calls
  BY CallFields
<1>. QED  BY <1>1, MessageTypes DEF GuardMsg, DecRefs, DecRefMsg

\* The uses of a hub and of a symbol, by the fields of the messages.
LEMMA UseFields ==
  ASSUME NEW m \in Messages, m.op = "decref"
  PROVE  /\ m \in DecRefs /\ m = DecRefMsg(m.sym, m.kind, m.from)
         /\ \A h \in Calls, k \in Kinds : m \in OfHub(h, k) <=> m.from = h /\ m.kind = k
         /\ \A s \in Symbols, k \in Kinds : m \in OfSymbol(s, k) <=> m.sym = s /\ m.kind = k
<1>1. m \in {DecRefMsg(s, k, h) : s \in Symbols, k \in Kinds, h \in Calls}
  BY DEF Messages, SubscribeMsg, ClosedMsg, ShutdownMsg
<1>2. PICK s \in Symbols, k \in Kinds, h \in Calls : m = DecRefMsg(s, k, h)
  BY <1>1
<1>3. m.sym = s /\ m.kind = k /\ m.from = h
  BY <1>2 DEF DecRefMsg
<1>4. m \in DecRefs
  BY <1>1 DEF DecRefs
<1>5. ASSUME NEW g \in Calls, NEW l \in Kinds
      PROVE  m \in OfHub(g, l) <=> m.from = g /\ m.kind = l
  BY <1>2, <1>3 DEF OfHub, DecRefMsg
<1>6. ASSUME NEW r \in Symbols, NEW l \in Kinds
      PROVE  m \in OfSymbol(r, l) <=> m.sym = r /\ m.kind = l
  BY <1>2, <1>3 DEF OfSymbol, DecRefMsg
<1>. QED  BY <1>2, <1>3, <1>4, <1>5, <1>6

\* Uses of hubs and symbols are DecRefs.
LEMMA UseSets ==
  /\ \A h \in Calls, k \in Kinds : OfHub(h, k) \in SUBSET DecRefs
  /\ \A s \in Symbols, k \in Kinds : OfSymbol(s, k) \in SUBSET DecRefs
BY DEF OfHub, OfSymbol, DecRefs

\* The number of uses is a number.
LEMMA UsesType ==
  ASSUME TypeOK, HandlesFinite, NEW P
  PROVE  /\ Uses(P) \in Nat
         /\ Cardinality(HeldOf(P)) \in Nat /\ Cardinality(SentOf(queue, P)) \in Nat
<1>1. queue \in Seq(Messages)
  BY DEF TypeOK
<1>2. Cardinality(SentOf(queue, P)) \in Nat
  BY <1>1, SentAppend, MessageTypes
<1>. QED  BY <1>2, HeldFinite DEF Uses

-----------------------------------------------------------------------------
(* Each action preserves the counts *)

\* Steps that neither count nor use anything.
LEMMA QuietFrame ==
  ASSUME IInv, Counts, UNCHANGED <<perSymbol, refs, slot, crossed, ended, actor>>,
         job' = job \/ job' = None \/ actor = "running",
         \A c \in Calls : /\ call'[c].st = "holding" <=> call[c].st = "holding"
                          /\ call[c].st = "holding" => call'[c] = call[c]
                          /\ call'[c].st \in {"unused"} \cup Pending =>
                             call[c].st \in {"unused"} \cup Pending,
         \/ queue' = queue
         \/ \E m \in Messages : m.op # "decref" /\ queue' = Append(queue, m)
         \/ queue # <<>> /\ Head(queue).op # "decref" /\ queue' = Tail(queue)
  PROVE  Counts'
<1>1. /\ \A P \in SUBSET DecRefs : Cardinality(SentOf(queue', P)) = Cardinality(SentOf(queue, P))
      /\ \A m \in Sent(queue') : m.op = "decref" => m \in Sent(queue)
  <2>. queue \in Seq(Messages)
    BY DEF IInv, TypeOK
  <2>. QED  BY QuietQueue
<1>2. HandlesFinite' /\ \A P : HeldOf(P)' = HeldOf(P)
  BY HeldStay DEF Counts
<1>3. ASSUME NEW P \in SUBSET DecRefs PROVE Uses(P)' = Uses(P)
  BY <1>1, <1>2 DEF Uses
<1>4. HubSymbol'
  BY <1>1 DEF Counts, HubSymbol
<1>5. UnansweredIsUnused'
  BY <1>1 DEF Counts, UnansweredIsUnused
<1>6. StoppedIsEmpty'
  BY DEF Counts, StoppedIsEmpty
<1>7. HubCounts' /\ SymbolCounts'
  BY <1>3, UseSets DEF Counts, HubCounts, SymbolCounts
<1>8. HubIsUsed' /\ HandleKeepsHub'
  BY DEF Counts, HubIsUsed, HandleKeepsHub
<1>. QED  BY <1>2, <1>4, <1>5, <1>6, <1>7, <1>8 DEF Counts

\* Callers' and publishers' steps, and those of the actor that only serve requests.
LEMMA QuietSteps ==
  ASSUME IInv, Counts, IInv',
         \/ \E c \in Calls, s \in Symbols, k \in Kinds : Subscribe(c, s, k)
         \/ \E c \in Calls : Abandon(c) \/ OpenFailed(c) \/ BeginOpen(c)
         \/ \E t \in Calls : Publish(t) \/ PublishToNobody(t) \/ LoseUpstream(t) \/ Finish(t)
         \/ DropRouter
         \/ UNCHANGED vars
  PROVE  Counts'
<1>0. call \in [Calls -> CallStates] /\ None \notin Calls
  BY NoneAssumption DEF IInv, TypeOK
<1>1. CASE \E c \in Calls, s \in Symbols, k \in Kinds : Subscribe(c, s, k)
  <2>1. PICK c \in Calls, s \in Symbols, k \in Kinds : Subscribe(c, s, k)
    BY <1>1
  <2>2. SubscribeMsg(c) \in Messages /\ SubscribeMsg(c).op # "decref"
    BY MessageTypes DEF SubscribeMsg
  <2>3. queue' = queue \/ queue' = Append(queue, SubscribeMsg(c))
    BY <2>1 DEF Subscribe, Send
  <2>. QED  BY <1>0, <2>1, <2>2, <2>3, QuietFrame DEF Subscribe, Call, Pending
<1>2. CASE \E c \in Calls : Abandon(c)
  BY <1>0, <1>2, QuietFrame DEF Abandon, Call, Pending
<1>3. CASE \E c \in Calls : OpenFailed(c)
  <2>1. PICK c \in Calls : OpenFailed(c)
    BY <1>3
  <2>2. call[c].st \in Pending
    BY <1>0, <2>1 DEF OpenFailed, IInv, RequestsPending
  <2>. QED  BY <1>0, <2>1, <2>2, QuietFrame DEF OpenFailed, Call, Over, Pending
<1>4. CASE \E c \in Calls : BeginOpen(c)
  <2>1. PICK c \in Calls : BeginOpen(c)
    BY <1>4
  <2>2. queue # <<>> /\ Head(queue).op # "decref" /\ queue' = Tail(queue) /\ actor = "running"
    BY <2>1 DEF BeginOpen, Receives
  <2>. QED  BY <2>1, <2>2, QuietFrame DEF BeginOpen
<1>5. CASE \E t \in Calls : Publish(t) \/ PublishToNobody(t) \/ Finish(t)
  BY <1>5, QuietFrame DEF Publish, PublishToNobody, Finish
<1>6. CASE \E t \in Calls : LoseUpstream(t)
  <2>1. PICK t \in Calls : LoseUpstream(t)
    BY <1>6
  <2>. DEFINE m == ClosedMsg(task[t].sym, task[t].hub)
  <2>2. m \in Messages /\ m.op # "decref"
    BY <2>1, TaskFields, MessageTypes DEF IInv, LoseUpstream, ClosedMsg
  <2>3. queue' = queue \/ queue' = Append(queue, m)
    BY <2>1 DEF LoseUpstream, Send
  <2>. HIDE DEF m
  <2>. QED  BY <2>1, <2>2, <2>3, QuietFrame DEF LoseUpstream
<1>7. CASE DropRouter
  <2>1. ShutdownMsg \in Messages /\ ShutdownMsg.op # "decref"
    BY MessageTypes DEF ShutdownMsg
  <2>2. queue' = queue \/ queue' = Append(queue, ShutdownMsg)
    BY <1>7 DEF DropRouter, Send
  <2>. QED  BY <1>7, <2>1, <2>2, QuietFrame DEF DropRouter
<1>8. CASE UNCHANGED vars
  BY <1>8, QuietFrame DEF vars
<1>. QED  BY <1>1, <1>2, <1>3, <1>4, <1>5, <1>6, <1>7, <1>8

\* Once the actor has stopped there is no hub to count for.
LEMMA StoppedFrame ==
  ASSUME HandlesFinite', UnansweredIsUnused', StoppedIsEmpty', actor' = "stopped",
         perSymbol' \in [Symbols -> Calls \cup {None}]
  PROVE  Counts'
<1>1. \A s \in Symbols : perSymbol'[s] = None
  BY DEF StoppedIsEmpty
<1>2. HubSymbol' /\ HubIsUsed' /\ SymbolCounts'
  BY <1>1 DEF HubSymbol, HubIsUsed, SymbolCounts
<1>3. HubCounts' /\ HandleKeepsHub'
  BY <1>1, NoneAssumption DEF HubCounts, HandleKeepsHub
<1>. QED  BY <1>2, <1>3 DEF Counts

\* A dropped handle's use goes on as the message in the channel.
LEMMA DropHandleCounts ==
  ASSUME IInv, Counts, IInv', NEW c \in Calls, DropHandle(c)
  PROVE  Counts'
<1>. DEFINE u == GuardMsg(c)
<1>0. /\ call \in [Calls -> CallStates] /\ queue \in Seq(Messages)
      /\ call[c].st = "holding" /\ call'[c].st = "over"
      /\ \A d \in Calls \ {c} : call'[d] = call[d]
      /\ UNCHANGED <<perSymbol, refs, slot, crossed, ended, actor, job>>
  BY DEF IInv, TypeOK, DropHandle, Call, Over
<1>1. /\ u \in DecRefs /\ u \in Messages /\ u.op = "decref"
      /\ u.sym = call[c].sym /\ u.kind = call[c].kind /\ u.from = call[c].hub
  BY <1>0, GuardFields DEF IInv
<1>2. queue' = IF actor = "stopped" THEN queue ELSE Append(queue, u)
  BY DEF DropHandle, Send, GuardMsg
<1>. HIDE DEF u
<1>3. \A P : HeldOf(P)' = HeldOf(P) \ {c}
  BY <1>0 DEF HeldOf, GuardMsg
<1>4. HandlesFinite'
  <2>1. {d \in Calls : call'[d].st = "holding"} \in SUBSET {d \in Calls : call[d].st = "holding"}
    BY <1>0
  <2>. QED  BY <2>1, FS_Subset DEF Counts, HandlesFinite
<1>5. \A m \in Sent(queue') : m \in Sent(queue) \/ m = u
  BY <1>0, <1>1, <1>2, SentAppend
<1>6. UnansweredIsUnused'
  <2>1. call[c].hub = u.from /\ \A h \in Calls : call'[h].st \in {"unused"} \cup Pending
                                   => h # c /\ call'[h] = call[h]
    BY <1>0, <1>1 DEF Pending
  <2>. QED  BY <1>0, <1>5, <2>1 DEF Counts, UnansweredIsUnused
<1>7. StoppedIsEmpty'
  BY <1>0 DEF Counts, StoppedIsEmpty
<1>8. CASE actor = "stopped"
  BY <1>0, <1>4, <1>6, <1>7, <1>8, StoppedFrame DEF IInv, TypeOK
<1>9. CASE actor # "stopped"
  <2>1. ASSUME NEW P PROVE Uses(P)' = Uses(P)
    <3>1. c \in HeldOf(P) <=> u \in P
      BY <1>0 DEF HeldOf, u
    <3>2. Cardinality(HeldOf(P)') = Cardinality(HeldOf(P)) - (IF u \in P THEN 1 ELSE 0)
      <4>1. Cardinality(HeldOf(P) \ {c}) =
              IF c \in HeldOf(P) THEN Cardinality(HeldOf(P)) - 1 ELSE Cardinality(HeldOf(P))
        BY HeldFinite, FS_RemoveElement, Zenon DEF Counts
      <4>. QED  BY <1>3, <3>1, <4>1, HeldFinite DEF Counts
    <3>3. Cardinality(SentOf(queue', P)) = Cardinality(SentOf(queue, P)) + (IF u \in P THEN 1 ELSE 0)
      BY <1>0, <1>1, <1>2, <1>9, SentAppend
    <3>4. Cardinality(HeldOf(P)) \in Nat /\ Cardinality(SentOf(queue, P)) \in Nat
      BY <1>0, <1>1, HeldFinite, SentAppend DEF Counts
    <3>. QED  BY <3>2, <3>3, <3>4 DEF Uses
  <2>2. HubSymbol'
    BY <1>0, <1>1, <1>5 DEF Counts, HubSymbol
  <2>3. HubCounts' /\ SymbolCounts'
    BY <1>0, <2>1 DEF Counts, HubCounts, SymbolCounts
  <2>4. HubIsUsed' /\ HandleKeepsHub'
    BY <1>0 DEF Counts, HubIsUsed, HandleKeepsHub
  <2>. QED  BY <1>4, <1>6, <1>7, <2>2, <2>3, <2>4 DEF Counts
<1>. QED  BY <1>8, <1>9

\* An answered call is one use more, of the hub in the answer: the handle, or the
\* message of the guard that was dropped with it.
LEMMA ReplyUses ==
  ASSUME IInv, Counts, NEW c \in Calls, NEW h \in Calls, NEW q \in Seq(Messages),
         call[c].st \in Pending, Reply(c, h, q)
  PROVE  LET u == DecRefMsg(call[c].sym, call[c].kind, h)
         IN  /\ HandlesFinite'
             /\ \A P : Uses(P)' = Cardinality(HeldOf(P)) + Cardinality(SentOf(q, P))
                                    + (IF u \in P THEN 1 ELSE 0)
             /\ \A m \in Sent(queue)' : m \in Sent(q) \/ m = u
             /\ call'[c].st = "holding" => /\ call'[c].hub = h
                                           /\ call'[c].sym = call[c].sym
                                           /\ call'[c].kind = call[c].kind
<1>. DEFINE u == DecRefMsg(call[c].sym, call[c].kind, h)
<1>0. /\ call \in [Calls -> CallStates] /\ c \notin {d \in Calls : call[d].st = "holding"}
      /\ call[c].sym \in Symbols /\ call[c].kind \in Kinds
  BY CallFields DEF IInv, TypeOK, Pending
<1>1. u \in Messages
  BY <1>0, MessageTypes
<1>2. ASSUME NEW P
      PROVE  /\ Cardinality(HeldOf(P)) \in Nat /\ Cardinality(SentOf(q, P)) \in Nat
             /\ IsFiniteSet(HeldOf(P)) /\ c \notin HeldOf(P)
  BY <1>0, <1>1, HeldFinite, SentAppend DEF Counts, HeldOf
<1>3. CASE call[c].st = "waiting"
  <2>1. /\ call'[c] = Call("holding", call[c].sym, call[c].kind, h) /\ queue' = q
        /\ \A d \in Calls \ {c} : call'[d] = call[d]
    BY <1>0, <1>3 DEF Reply
  <2>2. HandlesFinite'
    <3>1. {d \in Calls : call'[d].st = "holding"} = {d \in Calls : call[d].st = "holding"} \cup {c}
      BY <2>1 DEF Call
    <3>2. IsFiniteSet({d \in Calls : call[d].st = "holding"} \cup {c})
      BY FS_AddElement, Zenon DEF Counts, HandlesFinite
    <3>. QED  BY <3>1, <3>2 DEF HandlesFinite
  <2>3. ASSUME NEW P
        PROVE  Uses(P)' = Cardinality(HeldOf(P)) + Cardinality(SentOf(q, P))
                            + (IF u \in P THEN 1 ELSE 0)
    <3>1. HeldOf(P)' = IF u \in P THEN HeldOf(P) \cup {c} ELSE HeldOf(P)
      BY <1>0, <2>1 DEF HeldOf, GuardMsg, Call
    <3>2. Cardinality(HeldOf(P) \cup {c}) = Cardinality(HeldOf(P)) + 1
      BY <1>2, FS_AddElement, Zenon
    <3>. QED  BY <1>2, <2>1, <3>1, <3>2 DEF Uses
  <2>. QED  BY <2>1, <2>2, <2>3 DEF Call
<1>4. CASE call[c].st # "waiting"
  <2>1. /\ call'[c].st = "over" /\ queue' = Append(q, u)
        /\ \A d \in Calls \ {c} : call'[d] = call[d]
    BY <1>0, <1>4 DEF Reply, Over, Call
  <2>2. \A d \in Calls : /\ call'[d].st = "holding" <=> call[d].st = "holding"
                         /\ call[d].st = "holding" => call'[d] = call[d]
    BY <1>0, <2>1
  <2>3. HandlesFinite' /\ \A P : HeldOf(P)' = HeldOf(P)
    BY <2>2, HeldStay DEF Counts
  <2>. HIDE DEF u
  <2>4. ASSUME NEW P
        PROVE  Uses(P)' = Cardinality(HeldOf(P)) + Cardinality(SentOf(q, P))
                            + (IF u \in P THEN 1 ELSE 0)
    <3>1. Cardinality(SentOf(queue', P)) =
            Cardinality(SentOf(q, P)) + (IF u \in P THEN 1 ELSE 0)
      BY <1>1, <2>1, SentAppend
    <3>. QED  BY <1>2, <2>3, <3>1 DEF Uses
  <2>5. \A m \in Sent(queue') : m \in Sent(q) \/ m = u
    BY <1>1, <2>1, SentAppend
  <2>. QED  BY <2>1, <2>3, <2>4, <2>5 DEF u
<1>. QED  BY <1>3, <1>4

\* Granting a handle counts a use where there is one more: on the hub in the
\* map, or on a new one that nobody has used.
LEMMA GrantFrame ==
  ASSUME IInv, Counts, IInv', NEW c \in Calls, call[c].st \in Pending,
         NEW s \in Symbols, s = call[c].sym, NEW k \in Kinds, k = call[c].kind,
         NEW h \in Calls, h = perSymbol[s] \/ (perSymbol[s] = None /\ h = c),
         NEW q \in Seq(Messages), Reply(c, h, q),
         call'[c].st \in {"holding", "over"},
         \A d \in Calls \ {c} : call'[d] = call[d],
         \A P \in SUBSET DecRefs : Cardinality(SentOf(q, P)) = Cardinality(SentOf(queue, P)),
         \A m \in Sent(q) : m.op = "decref" => m \in Sent(queue),
         perSymbol' = [perSymbol EXCEPT ![s] = h],
         refs' = [refs EXCEPT ![h][k] = @ + 1],
         slot'[h][LaneOf(k)] # None,
         \A g \in Calls, l \in Lanes : slot[g][l] # None => slot'[g][l] # None,
         job' = None, actor = "running", UNCHANGED <<actor, crossed, ended>>
  PROVE  Counts'
<1>. DEFINE u == DecRefMsg(s, k, h)
<1>0. /\ perSymbol \in [Symbols -> Calls \cup {None}] /\ refs \in [Calls -> [Kinds -> Nat]]
      /\ None \notin Calls
      /\ \A d \in Calls : call[d].st = "holding" =>
           call[d].sym \in Symbols /\ call[d].hub \in Calls /\ LaneOf(call[d].kind) \in Lanes
  BY CallFields, NoneAssumption DEF IInv, TypeOK, LaneOf, Lanes
<1>1. /\ perSymbol'[s] = h /\ \A r \in Symbols \ {s} : perSymbol'[r] = perSymbol[r]
      /\ refs'[h][k] = refs[h][k] + 1
      /\ \A l \in Kinds \ {k} : refs'[h][l] = refs[h][l]
      /\ \A g \in Calls \ {h} : refs'[g] = refs[g]
  BY <1>0
<1>2. u \in Messages /\ u.op = "decref" /\ u.sym = s /\ u.kind = k /\ u.from = h
  BY MessageTypes DEF DecRefMsg
<1>3. /\ \A g \in Calls, l \in Kinds : u \in OfHub(g, l) <=> g = h /\ l = k
      /\ \A r \in Symbols, l \in Kinds : u \in OfSymbol(r, l) <=> r = s /\ l = k
  BY <1>2, UseFields
<1>. HIDE DEF u
<1>4. /\ HandlesFinite'
      /\ \A P : Uses(P)' = Cardinality(HeldOf(P)) + Cardinality(SentOf(q, P))
                             + (IF u \in P THEN 1 ELSE 0)
      /\ \A m \in Sent(queue)' : m \in Sent(q) \/ m = u
      /\ call'[c].st = "holding" => call'[c].hub = h /\ call'[c].sym = s /\ call'[c].kind = k
  BY ReplyUses DEF u
<1>5. ASSUME NEW P \in SUBSET DecRefs
      PROVE  /\ Uses(P)' = Uses(P) + (IF u \in P THEN 1 ELSE 0)
             /\ Uses(P) \in Nat
  BY <1>4, UsesType DEF Uses, Counts, IInv
<1>6. \A m \in Sent(queue)' : m.op = "decref" => m \in Sent(queue) \/ m = u
  BY <1>4
<1>7. /\ \A r \in Symbols \ {s} : perSymbol[r] # h
      /\ \A d \in Calls : call[d].st = "holding" /\ call[d].hub = h => call[d].sym = s
      /\ \A m \in Sent(queue) : m.op = "decref" /\ m.from = h => m.sym = s
  <2>1. CASE h = perSymbol[s]
    BY <1>0, <2>1 DEF Counts, HubSymbol
  <2>2. CASE h = c /\ perSymbol[s] = None
    BY <2>2 DEF Counts, UnansweredIsUnused, IInv, UnansweredIsFresh
  <2>. QED  BY <2>1, <2>2
<1>8. HubSymbol'
  <2>1. SUFFICES ASSUME NEW r \in Symbols, perSymbol'[r] # None
                 PROVE  /\ \A t \in Symbols : perSymbol'[t] = perSymbol'[r] => t = r
                        /\ \A d \in Calls : call'[d].st = "holding" /\ call'[d].hub = perSymbol'[r]
                                              => call'[d].sym = r
                        /\ \A m \in Sent(queue)' : m.op = "decref" /\ m.from = perSymbol'[r] => m.sym = r
    BY DEF HubSymbol
  <2>2. CASE r = s
    BY <1>1, <1>2, <1>4, <1>6, <1>7, <2>2
  <2>3. CASE r # s
    <3>1. perSymbol'[r] = perSymbol[r] /\ perSymbol[r] # h
      BY <1>1, <1>7, <2>3
    <3>. QED  BY <1>1, <1>2, <1>4, <1>6, <2>1, <2>3, <3>1 DEF Counts, HubSymbol
  <2>. QED  BY <2>2, <2>3
<1>9. UnansweredIsUnused'
  <2>1. SUFFICES ASSUME NEW g \in Calls, call'[g].st \in {"unused"} \cup Pending
                 PROVE  /\ \A l \in Kinds : refs'[g][l] = 0
                        /\ \A d \in Calls : call'[d].st = "holding" => call'[d].hub # g
                        /\ \A m \in Sent(queue)' : m.op = "decref" => m.from # g
    BY DEF UnansweredIsUnused
  <2>2. g # c /\ call[g].st \in {"unused"} \cup Pending
    BY <2>1 DEF Pending
  <2>3. g # h
    BY <2>2 DEF IInv, UnansweredIsFresh
  <2>4. /\ \A l \in Kinds : refs[g][l] = 0
        /\ \A d \in Calls : call[d].st = "holding" => call[d].hub # g
        /\ \A m \in Sent(queue) : m.op = "decref" => m.from # g
    BY <2>2 DEF Counts, UnansweredIsUnused
  <2>. QED  BY <1>1, <1>2, <1>4, <1>6, <2>3, <2>4
<1>10. StoppedIsEmpty'
  BY DEF StoppedIsEmpty
<1>11. HubCounts'
  <2>1. SUFFICES ASSUME NEW r \in Symbols, NEW l \in Kinds, NEW g \in Calls,
                        perSymbol'[r] = g, g \notin crossed
                 PROVE  refs'[g][l] = Uses(OfHub(g, l))'
    BY DEF HubCounts
  <2>2. Uses(OfHub(g, l))' = Uses(OfHub(g, l)) + (IF g = h /\ l = k THEN 1 ELSE 0)
    BY <1>3, <1>5, UseSets
  <2>3. refs'[g][l] = refs[g][l] + (IF g = h /\ l = k THEN 1 ELSE 0)
    BY <1>0, <1>1
  <2>4. refs[g][l] = Uses(OfHub(g, l))
    <3>1. CASE perSymbol[r] = g
      BY <2>1, <3>1 DEF Counts, HubCounts
    <3>2. CASE perSymbol[r] # g
      <4>1. g = c /\ g = h /\ r = s
        BY <1>1, <2>1, <3>2
      <4>2. /\ refs[c][l] = 0
            /\ \A d \in Calls : call[d].st = "holding" => call[d].hub # c
            /\ \A m \in Sent(queue) : m.op = "decref" => m.from # c
        BY DEF Counts, UnansweredIsUnused
      <4>3. HeldOf(OfHub(c, l)) = {}
        BY <4>2, GuardFields, UseFields DEF HeldOf, IInv
      <4>4. SentOf(queue, OfHub(c, l)) = {}
        BY <4>2 DEF SentOf, Sent, OfHub, DecRefMsg
      <4>5. Uses(OfHub(c, l)) = 0
        <5>1. Cardinality({}) = 0
          BY FS_EmptySet
        <5>. QED  BY <4>3, <4>4, <5>1 DEF Uses
      <4>. QED  BY <4>1, <4>2, <4>5
    <3>. QED  BY <3>1, <3>2
  <2>. QED  BY <2>2, <2>3, <2>4
<1>12. SymbolCounts'
  <2>1. SUFFICES ASSUME NEW r \in Symbols, NEW l \in Kinds, perSymbol'[r] # None
                 PROVE  refs'[perSymbol'[r]][l] <= Uses(OfSymbol(r, l))'
    BY DEF SymbolCounts
  <2>2. Uses(OfSymbol(r, l))' = Uses(OfSymbol(r, l)) + (IF r = s /\ l = k THEN 1 ELSE 0)
    BY <1>3, <1>5, UseSets
  <2>3. Uses(OfSymbol(r, l)) \in Nat
    BY <1>5, UseSets
  <2>4. CASE r = s
    <3>1. refs[h][l] <= Uses(OfSymbol(r, l))
      <4>1. CASE h = perSymbol[s]
        BY <1>0, <2>4, <4>1 DEF Counts, SymbolCounts
      <4>2. CASE h = c /\ perSymbol[s] = None
        BY <2>3, <4>2 DEF Counts, UnansweredIsUnused
      <4>. QED  BY <4>1, <4>2
    <3>2. refs'[h][l] = refs[h][l] + (IF l = k THEN 1 ELSE 0) /\ refs[h][l] \in Nat
      BY <1>0, <1>1
    <3>. QED  BY <1>1, <2>2, <2>3, <2>4, <3>1, <3>2
  <2>5. CASE r # s
    <3>1. perSymbol'[r] = perSymbol[r] /\ perSymbol[r] \in Calls \ {h}
      BY <1>0, <1>1, <1>7, <2>1, <2>5
    <3>2. refs'[perSymbol[r]][l] = refs[perSymbol[r]][l]
      BY <1>1, <3>1
    <3>. QED  BY <2>1, <2>2, <2>3, <2>5, <3>1, <3>2 DEF Counts, SymbolCounts
  <2>. QED  BY <2>4, <2>5
<1>13. HubIsUsed'
  <2>1. SUFFICES ASSUME NEW r \in Symbols, perSymbol'[r] # None
                 PROVE  \E l \in Kinds : refs'[perSymbol'[r]][l] > 0
    BY DEF HubIsUsed
  <2>2. CASE r = s
    <3>1. refs'[h][k] > 0
      BY <1>0, <1>1
    <3>. QED  BY <1>1, <2>2, <3>1
  <2>3. CASE r # s
    <3>1. perSymbol'[r] = perSymbol[r] /\ perSymbol[r] \in Calls \ {h}
      BY <1>0, <1>1, <1>7, <2>1, <2>3
    <3>2. PICK l \in Kinds : refs[perSymbol[r]][l] > 0
      BY <2>1, <3>1 DEF Counts, HubIsUsed
    <3>. QED  BY <1>1, <3>1, <3>2
  <2>. QED  BY <2>2, <2>3
<1>14. HandleKeepsHub'
  <2>1. SUFFICES ASSUME NEW d \in Calls, call'[d].st = "holding",
                        call'[d].hub \notin crossed \cup ended
                 PROVE  /\ perSymbol'[call'[d].sym] = call'[d].hub
                        /\ slot'[call'[d].hub][LaneOf(call'[d].kind)] # None
    BY DEF HandleKeepsHub
  <2>2. CASE d = c
    BY <1>1, <1>4, <2>1, <2>2
  <2>3. CASE d # c
    <3>1. call'[d] = call[d]
      BY <2>3
    <3>2. /\ perSymbol[call[d].sym] = call[d].hub
          /\ slot[call[d].hub][LaneOf(call[d].kind)] # None
      BY <2>1, <3>1 DEF Counts, HandleKeepsHub
    <3>3. /\ call[d].sym \in Symbols /\ call[d].hub \in Calls
          /\ LaneOf(call[d].kind) \in Lanes
      BY <1>0, <2>1, <3>1
    <3>4. perSymbol'[call[d].sym] = call[d].hub
      BY <1>0, <1>1, <3>2, <3>3
    <3>. QED  BY <3>1, <3>2, <3>3, <3>4
  <2>. QED  BY <2>2, <2>3
<1>. QED  BY <1>4, <1>8, <1>9, <1>10, <1>11, <1>12, <1>13, <1>14 DEF Counts

\* A subscribe that finds a publisher, or installs one.
LEMMA GrantCounts ==
  ASSUME IInv, Counts, IInv', NEW c \in Calls, GrantShared(c) \/ OpenOk(c)
  PROVE  Counts'
<1>. DEFINE s == call[c].sym
            k == call[c].kind
<1>0. /\ queue \in Seq(Messages) /\ call \in [Calls -> CallStates]
      /\ perSymbol \in [Symbols -> Calls \cup {None}] /\ None \notin Calls
      /\ slot \in [Calls -> [Lanes -> Calls \cup {None}]]
  BY NoneAssumption DEF IInv, TypeOK
<1>1. CASE GrantShared(c)
  <2>. DEFINE h == perSymbol[s]
              q == Tail(queue)
  <2>1. /\ queue # <<>> /\ Head(queue) = SubscribeMsg(c) /\ actor = "running" /\ job = None
        /\ PublisherAlive(h, LaneOf(k)) /\ Reply(c, h, q)
        /\ refs' = [refs EXCEPT ![h][k] = @ + 1]
        /\ UNCHANGED <<actor, job, perSymbol, slot, ended, crossed>>
    BY <1>1 DEF GrantShared, Receives
  <2>2. call[c].st \in Pending /\ q \in Seq(Messages)
    BY <2>1, RequestsTail
  <2>3. s \in Symbols /\ k \in Kinds /\ h \in Calls /\ slot[h][LaneOf(k)] # None
    BY <1>0, <2>1, <2>2, CallFields DEF IInv, PublisherAlive
  <2>4. /\ \A P \in SUBSET DecRefs : Cardinality(SentOf(q, P)) = Cardinality(SentOf(queue, P))
        /\ \A m \in Sent(q) : m.op = "decref" => m \in Sent(queue)
    <3>1. Head(queue).op # "decref"
      BY <2>1 DEF SubscribeMsg
    <3>. QED  BY <1>0, <2>1, <3>1, QuietQueue
  <2>5. call'[c].st \in {"holding", "over"} /\ \A d \in Calls \ {c} : call'[d] = call[d]
    BY <1>0, <2>1 DEF Reply, Over, Call
  <2>6. perSymbol' = [perSymbol EXCEPT ![s] = h]
    BY <1>0, <2>1, <2>3
  <2>. HIDE DEF s, k, h, q
  <2>. QED  BY <2>1, <2>2, <2>3, <2>4, <2>5, <2>6, GrantFrame DEF s, k, h
<1>2. CASE OpenOk(c)
  <2>. DEFINE h == IF perSymbol[s] = None THEN c ELSE perSymbol[s]
  <2>1. /\ job = c /\ job' = None /\ Reply(c, h, queue)
        /\ perSymbol' = [perSymbol EXCEPT ![s] = h]
        /\ refs' = [refs EXCEPT ![h][k] = @ + 1]
        /\ slot' = [slot EXCEPT ![h][LaneOf(k)] = c]
        /\ UNCHANGED <<actor, ended, crossed>>
    BY <1>2 DEF OpenOk
  <2>2. call[c].st \in Pending /\ actor = "running"
    BY <1>0, <2>1 DEF IInv, TypeOK, RequestsPending, Counts, StoppedIsEmpty
  <2>3. s \in Symbols /\ k \in Kinds /\ h \in Calls /\ LaneOf(k) \in Lanes
    BY <1>0, <2>2, CallFields DEF IInv, LaneOf, Lanes
  <2>4. h = perSymbol[s] \/ (perSymbol[s] = None /\ h = c)
    OBVIOUS
  <2>5. call'[c].st \in {"holding", "over"} /\ \A d \in Calls \ {c} : call'[d] = call[d]
    BY <1>0, <2>1 DEF Reply, Over, Call
  <2>. HIDE DEF h, k
  <2>6. /\ slot'[h][LaneOf(k)] # None
        /\ \A g \in Calls, l \in Lanes : slot[g][l] # None => slot'[g][l] # None
    BY <1>0, <2>1, <2>3
  <2>. HIDE DEF s
  <2>. QED  BY <1>0, <2>1, <2>2, <2>3, <2>4, <2>5, <2>6, GrantFrame DEF s, k
<1>. QED  BY <1>1, <1>2

\* A DecRef that is received, and what is left in the channel.
LEMMA DecRefMessage ==
  ASSUME IInv, Receives("decref"), queue' = Tail(queue), NEW m, m = Head(queue)
  PROVE  /\ m \in Messages /\ m.op = "decref" /\ m \in Sent(queue)
         /\ m.sym \in Symbols /\ m.kind \in Kinds /\ m.from \in Calls
         /\ Sent(queue') \subseteq Sent(queue)
         /\ \A h \in Calls, k \in Kinds : m \in OfHub(h, k) <=> m.from = h /\ m.kind = k
         /\ \A s \in Symbols, k \in Kinds : m \in OfSymbol(s, k) <=> m.sym = s /\ m.kind = k
<1>1. queue \in Seq(Messages) /\ queue # <<>> /\ m.op = "decref"
  BY DEF IInv, TypeOK, Receives
<1>2. m \in Messages /\ m \in Sent(queue) /\ Sent(queue') \subseteq Sent(queue)
  BY <1>1, QueueTail, SentTail
<1>3. m.sym \in Symbols /\ m.kind \in Kinds /\ m.from \in Calls
  BY <1>1, <1>2, MessageFields
<1>4. /\ \A h \in Calls, k \in Kinds : m \in OfHub(h, k) <=> m.from = h /\ m.kind = k
      /\ \A s \in Symbols, k \in Kinds : m \in OfSymbol(s, k) <=> m.sym = s /\ m.kind = k
  BY <1>1, <1>2, UseFields
<1>. QED  BY <1>1, <1>2, <1>3, <1>4

\* It is one use less.
LEMMA DecRefUses ==
  ASSUME IInv, Counts, Receives("decref"), queue' = Tail(queue), call' = call,
         NEW m, m = Head(queue), NEW P
  PROVE  /\ Uses(P) \in Nat /\ Uses(P)' \in Nat
         /\ HeldOf(P)' = HeldOf(P)
         /\ m \in P => Uses(P) > 0 /\ Uses(P)' = Uses(P) - 1
         /\ m \notin P => Uses(P)' = Uses(P)
<1>1. queue \in Seq(Messages) /\ queue # <<>>
  BY DEF IInv, TypeOK, Receives
<1>2. HeldOf(P)' = HeldOf(P)
  BY DEF HeldOf, GuardMsg
<1>3. /\ Cardinality(SentOf(queue, P)) \in Nat /\ Cardinality(SentOf(queue', P)) \in Nat
      /\ Cardinality(SentOf(queue', P)) =
           Cardinality(SentOf(queue, P)) - (IF m \in P THEN 1 ELSE 0)
  BY <1>1, SentTail
<1>4. Cardinality(HeldOf(P)) \in Nat
  BY HeldFinite DEF Counts
<1>. QED  BY <1>2, <1>3, <1>4 DEF Uses

\* A DecRef for a symbol without a hub, or for a kind that is not counted, can
\* only come from another hub.
LEMMA DecRefIgnoredCounts ==
  ASSUME IInv, Counts, IInv', DecRefIgnored
  PROVE  Counts'
<1>. SUFFICES ASSUME NEW m, m = Head(queue), NEW h, h = perSymbol[m.sym]
              PROVE  Counts'
  OBVIOUS
<1>0. /\ perSymbol \in [Symbols -> Calls \cup {None}] /\ refs \in [Calls -> [Kinds -> Nat]]
      /\ None \notin Calls
  BY NoneAssumption DEF IInv, TypeOK
<1>1. /\ Receives("decref") /\ queue' = Tail(queue) /\ ~Counted(h, m.kind)
      /\ crossed' = Cross(h, m.from)
      /\ UNCHANGED <<call, actor, job, perSymbol, refs, slot, ended>>
  BY DEF DecRefIgnored
<1>2. /\ m \in Messages /\ m.op = "decref" /\ m \in Sent(queue)
      /\ m.sym \in Symbols /\ m.kind \in Kinds /\ m.from \in Calls
      /\ Sent(queue') \subseteq Sent(queue)
      /\ \A g \in Calls, k \in Kinds : m \in OfHub(g, k) <=> m.from = g /\ m.kind = k
      /\ \A s \in Symbols, k \in Kinds : m \in OfSymbol(s, k) <=> m.sym = s /\ m.kind = k
  BY <1>1, DecRefMessage
<1>3. crossed \subseteq crossed'
  BY <1>1 DEF Cross
<1>4. h \in Calls => refs[h][m.kind] = 0
  BY <1>0, <1>1, <1>2 DEF Counted
<1>5. HubSymbol' /\ UnansweredIsUnused'
  BY <1>1, <1>2 DEF Counts, HubSymbol, UnansweredIsUnused
<1>6. HandlesFinite' /\ StoppedIsEmpty' /\ HubIsUsed'
  BY <1>1 DEF Counts, HandlesFinite, StoppedIsEmpty, HubIsUsed
<1>7. HubCounts'
  <2>1. SUFFICES ASSUME NEW s \in Symbols, NEW k \in Kinds, NEW g \in Calls,
                        perSymbol[s] = g, g \notin crossed'
                 PROVE  refs[g][k] = Uses(OfHub(g, k))'
    BY <1>1 DEF HubCounts
  <2>2. refs[g][k] = Uses(OfHub(g, k))
    BY <1>3, <2>1 DEF Counts, HubCounts
  <2>3. m \notin OfHub(g, k)
    <3>1. SUFFICES ASSUME m \in OfHub(g, k) PROVE FALSE
      OBVIOUS
    <3>2. m.from = g /\ m.kind = k
      BY <1>2, <3>1
    <3>3. m.sym = s
      BY <1>0, <1>2, <2>1, <3>2 DEF Counts, HubSymbol
    <3>4. refs[g][k] = 0
      BY <1>4, <2>1, <3>2, <3>3
    <3>5. Uses(OfHub(g, k)) > 0
      BY <1>1, <3>1, DecRefUses
    <3>. QED  BY <2>2, <3>4, <3>5
  <2>4. Uses(OfHub(g, k))' = Uses(OfHub(g, k))
    BY <1>1, <2>3, DecRefUses
  <2>. QED  BY <2>2, <2>4
<1>8. SymbolCounts'
  <2>1. SUFFICES ASSUME NEW s \in Symbols, NEW k \in Kinds, perSymbol[s] # None
                 PROVE  refs[perSymbol[s]][k] <= Uses(OfSymbol(s, k))'
    BY <1>1 DEF SymbolCounts
  <2>2. refs[perSymbol[s]][k] <= Uses(OfSymbol(s, k))
    BY <2>1 DEF Counts, SymbolCounts
  <2>3. CASE m \in OfSymbol(s, k)
    <3>1. refs[perSymbol[s]][k] = 0
      BY <1>0, <1>2, <1>4, <2>1, <2>3
    <3>2. Uses(OfSymbol(s, k))' \in Nat
      BY <1>1, DecRefUses
    <3>. QED  BY <3>1, <3>2
  <2>4. CASE m \notin OfSymbol(s, k)
    <3>1. Uses(OfSymbol(s, k))' = Uses(OfSymbol(s, k))
      BY <1>1, <2>4, DecRefUses
    <3>. QED  BY <2>2, <3>1
  <2>. QED  BY <2>3, <2>4
<1>9. HandleKeepsHub'
  BY <1>1, <1>3 DEF Counts, HandleKeepsHub
<1>. QED  BY <1>5, <1>6, <1>7, <1>8, <1>9 DEF Counts

\* The count goes down with the use; when the last count of a hub is gone so is the
\* hub, and then nobody holds a handle on it unless a message has crossed.
LEMMA DecRefCounts ==
  ASSUME IInv, Counts, IInv', DecRef
  PROVE  Counts'
<1>. SUFFICES ASSUME NEW m, m = Head(queue), NEW h, h = perSymbol[m.sym]
              PROVE  Counts'
  OBVIOUS
<1>d. SUFFICES ASSUME NEW r, r = [refs[h] EXCEPT ![m.kind] = @ - 1],
                      NEW idle, idle = IF r[m.kind] = 0 THEN IdleLanes(r) ELSE {}
               PROVE  Counts'
  OBVIOUS
<1>0. /\ perSymbol \in [Symbols -> Calls \cup {None}] /\ refs \in [Calls -> [Kinds -> Nat]]
      /\ slot \in [Calls -> [Lanes -> Calls \cup {None}]]
      /\ None \notin Calls
      /\ \A c \in Calls : call[c].st = "holding" =>
           /\ call[c].sym \in Symbols /\ call[c].hub \in Calls
           /\ call[c].kind \in Kinds /\ LaneOf(call[c].kind) \in Lanes
  BY CallFields, NoneAssumption DEF IInv, TypeOK, LaneOf, Lanes
<1>1. /\ Receives("decref") /\ queue' = Tail(queue) /\ Counted(h, m.kind)
      /\ refs' = [refs EXCEPT ![h] = r]
      /\ slot' = TakeHandles({h}, idle)
      /\ perSymbol' = IF idle = Lanes THEN [perSymbol EXCEPT ![m.sym] = None] ELSE perSymbol
      /\ crossed' = Cross(h, m.from)
      /\ UNCHANGED <<call, actor, job, ended>>
  BY <1>d DEF DecRef
<1>2. /\ m \in Messages /\ m.op = "decref" /\ m \in Sent(queue)
      /\ m.sym \in Symbols /\ m.kind \in Kinds /\ m.from \in Calls
      /\ Sent(queue') \subseteq Sent(queue)
      /\ \A g \in Calls, k \in Kinds : m \in OfHub(g, k) <=> m.from = g /\ m.kind = k
      /\ \A s \in Symbols, k \in Kinds : m \in OfSymbol(s, k) <=> m.sym = s /\ m.kind = k
  BY <1>1, DecRefMessage
<1>3. h \in Calls /\ refs[h][m.kind] > 0
  BY <1>0, <1>1, <1>2 DEF Counted
<1>4. /\ r \in [Kinds -> Nat] /\ r[m.kind] = refs[h][m.kind] - 1
      /\ \A k \in Kinds \ {m.kind} : r[k] = refs[h][k]
      /\ refs'[h] = r /\ \A g \in Calls \ {h} : refs'[g] = refs[g]
  <2>1. refs[h] \in [Kinds -> Nat]
    BY <1>0, <1>3
  <2>2. refs' = [refs EXCEPT ![h] = r]
    BY <1>1
  <2>3. r \in [Kinds -> Int] /\ r[m.kind] = refs[h][m.kind] - 1
    BY <1>d, <1>2, <2>1
  <2>4. \A k \in Kinds \ {m.kind} : r[k] = refs[h][k]
    BY <1>d, <1>2, <2>1
  <2>5. r \in [Kinds -> Nat]
    <3>1. \A k \in Kinds : r[k] \in Nat
      BY <1>2, <1>3, <2>1, <2>3, <2>4
    <3>. QED  BY <2>3, <3>1
  <2>. QED  BY <1>0, <1>3, <2>2, <2>3, <2>4, <2>5
<1>5. /\ \A s \in Symbols \ {m.sym} : perSymbol'[s] = perSymbol[s]
      /\ perSymbol'[m.sym] = IF idle = Lanes THEN None ELSE h
      /\ \A s \in Symbols : perSymbol[s] = h => s = m.sym
  <2>1. \A s \in Symbols : perSymbol[s] = h => s = m.sym
    BY <1>0, <1>2, <1>3 DEF Counts, HubSymbol
  <2>. QED  BY <1>0, <1>1, <1>2, <2>1
<1>6. /\ crossed \subseteq crossed'
      /\ h \notin crossed' => m.from = h
  BY <1>1, <1>2, <1>3, <1>0 DEF Cross
<1>7. /\ \A g \in Calls \ {h}, l \in Lanes : slot'[g][l] = slot[g][l]
      /\ \A l \in Lanes : l \notin idle => slot'[h][l] = slot[h][l]
  BY <1>0, <1>1, <1>3 DEF TakeHandles
<1>8. \A l \in Lanes : l \in idle => \A k \in Kinds : LaneOf(k) = l => r[k] = 0
  BY <1>d DEF IdleLanes
<1>9. idle # Lanes => \E k \in Kinds : r[k] > 0
  <2>1. CASE r[m.kind] # 0
    <3>1. r[m.kind] \in Nat
      BY <1>2, <1>4
    <3>. QED  BY <1>2, <2>1, <3>1
  <2>2. CASE r[m.kind] = 0
    <3>1. CASE \A k \in Kinds : r[k] = 0
      <4>1. idle = Lanes
        BY <1>d, <2>2, <3>1 DEF IdleLanes
      <4>. QED  BY <4>1
    <3>2. CASE \E k \in Kinds : r[k] # 0
      <4>1. PICK k \in Kinds : r[k] # 0
        BY <3>2
      <4>2. r[k] \in Nat
        BY <1>4
      <4>. QED  BY <4>1, <4>2
    <3>. QED  BY <3>1, <3>2
  <2>. QED  BY <2>1, <2>2
<1>10. ASSUME NEW k \in Kinds, h \notin crossed'
       PROVE  r[k] = Uses(OfHub(h, k))'
  <2>1. refs[h][k] = Uses(OfHub(h, k))
    BY <1>2, <1>3, <1>6, <1>10 DEF Counts, HubCounts
  <2>2. m \in OfHub(h, k) <=> k = m.kind
    BY <1>2, <1>3, <1>6, <1>10
  <2>3. Uses(OfHub(h, k))' = IF k = m.kind THEN Uses(OfHub(h, k)) - 1 ELSE Uses(OfHub(h, k))
    BY <1>1, <2>2, DecRefUses
  <2>. QED  BY <1>4, <1>10, <2>1, <2>3
<1>11. HandlesFinite' /\ StoppedIsEmpty'
  BY <1>1 DEF Counts, HandlesFinite, StoppedIsEmpty, Receives
<1>12. HubSymbol'
  <2>1. \A s \in Symbols : perSymbol'[s] # None => perSymbol'[s] = perSymbol[s]
    BY <1>5
  <2>. QED  BY <1>1, <1>2, <2>1 DEF Counts, HubSymbol
<1>13. UnansweredIsUnused'
  <2>1. SUFFICES ASSUME NEW g \in Calls, call[g].st \in {"unused"} \cup Pending
                 PROVE  /\ \A l \in Kinds : refs'[g][l] = 0
                        /\ \A d \in Calls : call[d].st = "holding" => call[d].hub # g
                        /\ \A n \in Sent(queue') : n.op = "decref" => n.from # g
    BY <1>1 DEF UnansweredIsUnused
  <2>2. g # h
    BY <1>2, <2>1 DEF IInv, UnansweredIsFresh
  <2>. QED  BY <1>2, <1>4, <2>1, <2>2 DEF Counts, UnansweredIsUnused
<1>14. HubCounts'
  <2>1. SUFFICES ASSUME NEW s \in Symbols, NEW k \in Kinds, NEW g \in Calls,
                        perSymbol'[s] = g, g \notin crossed'
                 PROVE  refs'[g][k] = Uses(OfHub(g, k))'
    BY DEF HubCounts
  <2>2. CASE g = h
    BY <1>4, <1>10, <2>1, <2>2
  <2>3. CASE g # h
    <3>1. s # m.sym /\ perSymbol[s] = g
      BY <1>0, <1>2, <1>5, <2>1, <2>3
    <3>2. m.from # g
      BY <1>0, <1>2, <3>1 DEF Counts, HubSymbol
    <3>3. refs[g][k] = Uses(OfHub(g, k)) /\ m \notin OfHub(g, k)
      BY <1>2, <1>6, <2>1, <3>1, <3>2 DEF Counts, HubCounts
    <3>4. Uses(OfHub(g, k))' = Uses(OfHub(g, k))
      BY <1>1, <3>3, DecRefUses
    <3>. QED  BY <1>4, <2>3, <3>3, <3>4
  <2>. QED  BY <2>2, <2>3
<1>15. SymbolCounts'
  <2>1. SUFFICES ASSUME NEW s \in Symbols, NEW k \in Kinds, perSymbol'[s] # None
                 PROVE  refs'[perSymbol'[s]][k] <= Uses(OfSymbol(s, k))'
    BY DEF SymbolCounts
  <2>2. perSymbol'[s] = perSymbol[s] /\ perSymbol[s] \in Calls
    BY <1>0, <1>2, <1>5, <2>1
  <2>3. refs[perSymbol[s]][k] <= Uses(OfSymbol(s, k)) /\ refs[perSymbol[s]][k] \in Nat
    BY <1>0, <2>1, <2>2 DEF Counts, SymbolCounts
  <2>4. CASE s = m.sym
    <3>1. perSymbol[s] = h
      BY <2>4
    <3>2. m \in OfSymbol(s, k) <=> k = m.kind
      BY <1>2, <2>4
    <3>3. Uses(OfSymbol(s, k))' =
            IF k = m.kind THEN Uses(OfSymbol(s, k)) - 1 ELSE Uses(OfSymbol(s, k))
      BY <1>1, <3>2, DecRefUses
    <3>4. Uses(OfSymbol(s, k)) \in Nat
      BY <1>1, DecRefUses
    <3>. QED  BY <1>4, <2>2, <2>3, <3>1, <3>3, <3>4
  <2>5. CASE s # m.sym
    <3>1. perSymbol[s] # h /\ m \notin OfSymbol(s, k)
      BY <1>2, <1>5, <2>5
    <3>2. Uses(OfSymbol(s, k))' = Uses(OfSymbol(s, k))
      BY <1>1, <3>1, DecRefUses
    <3>. QED  BY <1>4, <2>2, <2>3, <3>1, <3>2
  <2>. QED  BY <2>4, <2>5
<1>16. HubIsUsed'
  <2>1. SUFFICES ASSUME NEW s \in Symbols, perSymbol'[s] # None
                 PROVE  \E k \in Kinds : refs'[perSymbol'[s]][k] > 0
    BY DEF HubIsUsed
  <2>2. CASE s = m.sym
    BY <1>4, <1>5, <1>9, <2>1, <2>2
  <2>3. CASE s # m.sym
    <3>1. perSymbol'[s] = perSymbol[s] /\ perSymbol[s] \in Calls \ {h}
      BY <1>0, <1>5, <2>1, <2>3
    <3>2. PICK k \in Kinds : refs[perSymbol[s]][k] > 0
      BY <2>1, <3>1 DEF Counts, HubIsUsed
    <3>. QED  BY <1>4, <3>1, <3>2
  <2>. QED  BY <2>2, <2>3
<1>17. HandleKeepsHub'
  <2>0. SUFFICES ASSUME NEW c \in Calls, call[c].st = "holding", actor = "running",
                        call[c].hub \notin crossed' \cup ended
                 PROVE  /\ perSymbol'[call[c].sym] = call[c].hub
                        /\ slot'[call[c].hub][LaneOf(call[c].kind)] # None
    BY <1>1 DEF HandleKeepsHub
  <2>1. SUFFICES ASSUME NEW g, g = call[c].hub, NEW s, s = call[c].sym,
                        NEW k, k = call[c].kind, NEW l, l = LaneOf(k)
                 PROVE  perSymbol'[s] = g /\ slot'[g][l] # None
    OBVIOUS
  <2>2. /\ perSymbol[s] = g /\ slot[g][l] # None
        /\ s \in Symbols /\ k \in Kinds /\ l \in Lanes /\ g \in Calls
    BY <1>0, <1>6, <2>0, <2>1 DEF Counts, HandleKeepsHub
  <2>3. CASE g = h
    <3>1. s = m.sym /\ r[k] = Uses(OfHub(h, k))'
      <4>1. h \notin crossed'
        BY <2>0, <2>1, <2>3
      <4>. QED  BY <1>5, <1>10, <2>2, <2>3, <4>1
    <3>2. c \in HeldOf(OfHub(h, k))
      <4>1. /\ GuardMsg(c) \in Messages /\ GuardMsg(c).op = "decref"
            /\ GuardMsg(c).from = h /\ GuardMsg(c).kind = k
        BY <2>0, <2>1, <2>3, GuardFields DEF IInv
      <4>. QED  BY <1>3, <2>0, <2>2, <4>1, UseFields DEF HeldOf
    <3>3. Uses(OfHub(h, k))' > 0
      <4>1. c \in HeldOf(OfHub(h, k))'
        BY <1>1, <3>2, DecRefUses
      <4>2. /\ IsFiniteSet(HeldOf(OfHub(h, k))') /\ Cardinality(HeldOf(OfHub(h, k))') \in Nat
        BY <1>1, HeldFinite, DecRefUses DEF Counts
      <4>3. Cardinality(HeldOf(OfHub(h, k))') # 0
        BY <4>1, <4>2, FS_EmptySet, Zenon
      <4>4. Cardinality(SentOf(queue', OfHub(h, k))) \in Nat
        BY <1>2, SentAppend DEF IInv, TypeOK
      <4>. QED  BY <4>2, <4>3, <4>4 DEF Uses
    <3>4. l \notin idle
      BY <1>8, <2>1, <2>2, <3>1, <3>3
    <3>. QED  BY <1>5, <1>7, <2>2, <2>3, <3>1, <3>4
  <2>4. CASE g # h
    <3>1. s # m.sym
      BY <2>2, <2>4
    <3>. QED  BY <1>5, <1>7, <2>2, <2>4, <3>1
  <2>. QED  BY <2>3, <2>4
<1>. QED  BY <1>11, <1>12, <1>13, <1>14, <1>15, <1>16, <1>17 DEF Counts

\* The end of an upstream takes its symbol's hub out of the map, with a reason.
LEMMA UpstreamClosedCounts ==
  ASSUME IInv, Counts, IInv', UpstreamClosed
  PROVE  Counts'
<1>. SUFFICES ASSUME NEW m, m = Head(queue), NEW h, h = perSymbol[m.sym]
              PROVE  Counts'
  OBVIOUS
<1>0. /\ queue \in Seq(Messages) /\ queue # <<>> /\ m.op = "closed" /\ None \notin Calls
      /\ perSymbol \in [Symbols -> Calls \cup {None}]
      /\ slot \in [Calls -> [Lanes -> Calls \cup {None}]]
      /\ \A c \in Calls : call[c].st = "holding" =>
           call[c].sym \in Symbols /\ call[c].hub \in Calls /\ LaneOf(call[c].kind) \in Lanes
  BY CallFields, NoneAssumption DEF IInv, TypeOK, UpstreamClosed, Receives, LaneOf, Lanes
<1>1. /\ queue' = Tail(queue) /\ ended' = ended \cup ({h} \ {None})
      /\ slot' = TakeHandles({h} \ {None}, Lanes)
      /\ perSymbol' = [perSymbol EXCEPT ![m.sym] = None]
      /\ crossed' = Cross(h, m.from)
      /\ UNCHANGED <<call, actor, job, refs>> /\ actor = "running"
  BY DEF UpstreamClosed, Receives
<1>2. m.sym \in Symbols
  BY <1>0, QueueTail, MessageFields
<1>3. /\ \A P \in SUBSET DecRefs : Cardinality(SentOf(queue', P)) = Cardinality(SentOf(queue, P))
      /\ \A n \in Sent(queue') : n.op = "decref" => n \in Sent(queue)
  BY <1>0, <1>1, QuietQueue
<1>4. HandlesFinite' /\ \A P : HeldOf(P)' = HeldOf(P)
  BY <1>1, HeldStay DEF Counts
<1>5. ASSUME NEW P \in SUBSET DecRefs PROVE Uses(P)' = Uses(P)
  BY <1>3, <1>4 DEF Uses
<1>6. /\ perSymbol'[m.sym] = None
      /\ \A s \in Symbols \ {m.sym} : perSymbol'[s] = perSymbol[s]
      /\ crossed \subseteq crossed'
  BY <1>0, <1>1, <1>2 DEF Cross
<1>7. HubSymbol'
  BY <1>1, <1>3, <1>6 DEF Counts, HubSymbol
<1>8. UnansweredIsUnused' /\ StoppedIsEmpty'
  BY <1>1, <1>3 DEF Counts, UnansweredIsUnused, StoppedIsEmpty
<1>9. HubCounts'
  BY <1>0, <1>1, <1>5, <1>6, UseSets DEF Counts, HubCounts
<1>10. SymbolCounts'
  <2>1. SUFFICES ASSUME NEW s \in Symbols, NEW k \in Kinds, perSymbol'[s] # None
                 PROVE  refs[perSymbol'[s]][k] <= Uses(OfSymbol(s, k))'
    BY <1>1 DEF SymbolCounts
  <2>2. Uses(OfSymbol(s, k))' = Uses(OfSymbol(s, k))
    BY <1>5, UseSets
  <2>3. perSymbol'[s] = perSymbol[s]
    BY <1>6, <2>1
  <2>. QED  BY <2>1, <2>2, <2>3 DEF Counts, SymbolCounts
<1>11. HubIsUsed'
  BY <1>1, <1>6 DEF Counts, HubIsUsed
<1>12. HandleKeepsHub'
  <2>1. SUFFICES ASSUME NEW c \in Calls, call[c].st = "holding",
                        call[c].hub \notin crossed' \cup ended'
                 PROVE  /\ perSymbol'[call[c].sym] = call[c].hub
                        /\ slot'[call[c].hub][LaneOf(call[c].kind)] # None
    BY <1>1 DEF HandleKeepsHub
  <2>2. /\ perSymbol[call[c].sym] = call[c].hub
        /\ slot[call[c].hub][LaneOf(call[c].kind)] # None
    BY <1>1, <1>6, <2>1 DEF Counts, HandleKeepsHub
  <2>3. call[c].hub # h /\ call[c].hub \in Calls /\ call[c].sym \in Symbols
    BY <1>0, <1>1, <2>1
  <2>4. call[c].sym # m.sym
    BY <2>2, <2>3
  <2>5. slot'[call[c].hub] = slot[call[c].hub]
    BY <1>1, <2>3 DEF TakeHandles
  <2>. QED  BY <1>6, <2>2, <2>3, <2>4, <2>5
<1>. QED  BY <1>4, <1>7, <1>8, <1>9, <1>10, <1>11, <1>12 DEF Counts

\* Shutdown empties the map.
LEMMA ShutdownCounts ==
  ASSUME IInv, Counts, IInv', Shutdown
  PROVE  Counts'
<1>1. /\ actor' = "stopped" /\ queue' = <<>> /\ perSymbol' = [s \in Symbols |-> None]
      /\ job' = None /\ UNCHANGED <<call, refs>>
  BY DEF Shutdown, Receives
<1>2. HandlesFinite' /\ StoppedIsEmpty'
  BY <1>1 DEF Counts, HandlesFinite, StoppedIsEmpty
<1>3. UnansweredIsUnused'
  BY <1>1, EmptySeq DEF Counts, UnansweredIsUnused, Sent
<1>. QED  BY <1>1, <1>2, <1>3, StoppedFrame DEF IInv, TypeOK

\* At first nothing is used and nothing counted.
LEMMA InitCounts == Init => Counts
<1>. SUFFICES ASSUME Init PROVE Counts
  OBVIOUS
<1>1. \A c \in Calls : call[c].st = "unused"
  BY DEF Init, Unused, Call
<1>2. HandlesFinite
  <2>1. {c \in Calls : call[c].st = "holding"} = {}
    BY <1>1
  <2>. QED  BY <2>1, FS_EmptySet DEF HandlesFinite
<1>3. UnansweredIsUnused
  BY <1>1, EmptySeq DEF Init, UnansweredIsUnused, Sent
<1>4. HubSymbol /\ StoppedIsEmpty /\ SymbolCounts /\ HubIsUsed
  BY DEF Init, HubSymbol, StoppedIsEmpty, SymbolCounts, HubIsUsed
<1>5. HubCounts /\ HandleKeepsHub
  BY <1>1, NoneAssumption DEF Init, HubCounts, HandleKeepsHub
<1>. QED  BY <1>2, <1>3, <1>4, <1>5 DEF Counts

\* Every step of the router keeps the counts.
LEMMA NextCounts == IInv /\ IInv' /\ Counts /\ [Next]_vars => Counts'
<1>. SUFFICES ASSUME IInv, IInv', Counts, [Next]_vars PROVE Counts'
  OBVIOUS
<1>1. CASE \E c \in Calls, s \in Symbols, k \in Kinds : Subscribe(c, s, k)
  BY <1>1, QuietSteps
<1>2. CASE \E c \in Calls : Abandon(c) \/ DropHandle(c) \/ OpenOk(c) \/ OpenFailed(c)
  BY <1>2, QuietSteps, DropHandleCounts, GrantCounts
<1>3. CASE \E t \in Calls : Publish(t) \/ PublishToNobody(t) \/ LoseUpstream(t) \/ Finish(t)
  BY <1>3, QuietSteps
<1>4. CASE DropRouter
  BY <1>4, QuietSteps
<1>5. CASE Receive
  <2>1. CASE \E c \in Calls : GrantShared(c) \/ BeginOpen(c)
    BY <2>1, QuietSteps, GrantCounts
  <2>2. CASE DecRefIgnored \/ DecRef
    BY <2>2, DecRefIgnoredCounts, DecRefCounts
  <2>3. CASE UpstreamClosed \/ Shutdown
    BY <2>3, UpstreamClosedCounts, ShutdownCounts
  <2>. QED  BY <1>5, <2>1, <2>2, <2>3 DEF Receive
<1>6. CASE UNCHANGED vars
  BY <1>6, QuietSteps
<1>. QED  BY <1>1, <1>2, <1>3, <1>4, <1>5, <1>6 DEF Next

\* The counts are invariant too.
THEOREM CountsInvariant == Spec => []Counts
BY InitIInv, NextIInv, InitCounts, NextCounts, PTL DEF Spec

\* The two ways to say how a hub is used: by kinds and hubs, and by uses.
LEMMA UsesOfHub ==
  ASSUME TypeOK, NEW h \in Calls, NEW k \in Kinds
  PROVE  Uses(OfHub(h, k)) = Cardinality(Holding(h, k)) + Cardinality(PendingDecRefs(h, k))
<1>1. HeldOf(OfHub(h, k)) = Holding(h, k)
  BY GuardFields, UseFields DEF HeldOf, Holding
<1>2. SentOf(queue, OfHub(h, k)) = PendingDecRefs(h, k)
  <2>1. queue \in Seq(Messages) /\ DOMAIN queue = 1 .. Len(queue)
    BY LenProperties DEF TypeOK
  <2>2. ASSUME NEW i \in 1 .. Len(queue)
        PROVE  queue[i] \in OfHub(h, k) <=>
                 queue[i].op = "decref" /\ queue[i].from = h /\ queue[i].kind = k
    <3>1. queue[i] \in Messages
      BY <2>1, ElementOfSeq
    <3>2. queue[i] \in OfHub(h, k) => queue[i].op = "decref"
      BY DEF OfHub, DecRefMsg
    <3>. QED  BY <3>1, <3>2, UseFields
  <2>. QED  BY <2>1, <2>2 DEF SentOf, PendingDecRefs
<1>. QED  BY <1>1, <1>2 DEF Uses

\* For any number of callers, symbols and messages under way: while a hub has only
\* been hit by messages of its own handles, its three refcounts are exactly its
\* live handles and the DecRefs that are still in the channel.
THEOREM CountsExact == Spec => []RefcountsExact
<1>1. IInv /\ Counts => RefcountsExact
  <2>1. SUFFICES ASSUME IInv, Counts, NEW s \in Symbols, NEW k \in Kinds,
                        NEW h, h = perSymbol[s], h # None, h \notin crossed
                 PROVE  refs[h][k] = Cardinality(Holding(h, k)) + Cardinality(PendingDecRefs(h, k))
    BY DEF RefcountsExact
  <2>2. h \in Calls
    BY <2>1 DEF IInv, TypeOK
  <2>. QED  BY <2>1, <2>2, UsesOfHub DEF IInv, Counts, HubCounts
<1>. QED  BY <1>1, Invariance, CountsInvariant, PTL

\* Nobody is cut off by others leaving: a live handle's hub stays in the map with a
\* publisher installed, until its upstream ends, the router goes, or a message of
\* an older hub hits it.
THEOREM HandlesKeepHub == Spec => []HandleKeepsHub
<1>1. Counts => HandleKeepsHub
  BY DEF Counts
<1>. QED  BY <1>1, CountsInvariant, PTL

\* Whatever has crossed, a symbol that nobody uses any more, with nothing under
\* way, has no hub and no publisher that was not aborted.
THEOREM NoLeaks == Spec => []NothingLeaks
<1>1. IInv /\ Counts => NothingLeaks
  <2>1. SUFFICES ASSUME IInv, Counts, NEW s \in Symbols, queue = <<>>,
                        \A c \in Calls : call[c].sym # s
                 PROVE  /\ perSymbol[s] = None
                        /\ \A t \in Calls :
                             task[t].sym = s /\ task[t].st = "running" => task[t].aborted
    BY DEF NothingLeaks
  <2>2. ASSUME NEW k \in Kinds PROVE Uses(OfSymbol(s, k)) = 0
    <3>1. HeldOf(OfSymbol(s, k)) = {}
      BY <2>1, GuardFields, UseFields DEF HeldOf, IInv
    <3>2. SentOf(queue, OfSymbol(s, k)) = {}
      BY <2>1, EmptySeq DEF SentOf
    <3>3. Cardinality({}) = 0
      BY FS_EmptySet
    <3>. QED  BY <3>1, <3>2, <3>3 DEF Uses
  <2>3. perSymbol[s] = None
    <3>1. SUFFICES ASSUME perSymbol[s] # None PROVE FALSE
      OBVIOUS
    <3>2. PICK k \in Kinds : refs[perSymbol[s]][k] > 0
      BY <2>1, <3>1 DEF Counts, HubIsUsed
    <3>3. refs[perSymbol[s]][k] <= 0 /\ refs[perSymbol[s]][k] \in Nat
      BY <2>1, <2>2, <3>1 DEF Counts, SymbolCounts, IInv, TypeOK
    <3>. QED  BY <3>2, <3>3
  <2>4. ASSUME NEW t \in Calls, task[t].sym = s, task[t].st = "running", ~task[t].aborted
        PROVE  FALSE
    BY <2>1, <2>3, <2>4, TaskFields, NoneAssumption DEF IInv, PublisherOwned
  <2>5. \A t \in Calls : task[t].sym = s /\ task[t].st = "running" => task[t].aborted
    BY <2>1, <2>4, TaskFields DEF IInv
  <2>. QED  BY <2>3, <2>5
<1>. QED  BY <1>1, Invariance, CountsInvariant, PTL
=============================================================================
