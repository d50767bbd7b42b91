--------------------------- MODULE BarProofs ---------------------------
(***************************************************************************)
(* What run_aggregator keeps, for every timeframe, ring, streak and number *)
(* of 5 s bars, and the registry that starts, shares and ends its tasks,   *)
(* for every set of calls and keys.                                        *)
(***************************************************************************)
EXTENDS Aggregator, FiniteSetTheorems, SequenceTheorems, TLAPS

Elts(s) == {s[i] : i \in DOMAIN s}

\* What is or will be in the ring.
Ahead(n) == n \in Elts(ring) \/ \A m \in published : m < n

\* The ring holds published bars in their order.
RingOK ==
  /\ \A i \in DOMAIN ring : ring[i] \in published
  /\ \A i, j \in DOMAIN ring : i < j => ring[i] < ring[j]

\* A bar is of its window, and nothing of an earlier window is to come.
Placed(bar) ==
  /\ \A m \in bar.bars : m \in published /\ Window(m) = bar.win
  /\ \A n \in FiveSecondBars : Ahead(n) => bar.win <= Window(n)

\* An open bar is not of a window that has been completed.
CurrentOK ==
  current # None =>
    /\ ~current.done
    /\ Placed(current)
    /\ \A i \in DOMAIN out : out[i].win <= current.win /\ (out[i].done => out[i].win < current.win)

\* Once a window is completed, only later ones are to come.
OutOK ==
  \A i \in DOMAIN out :
    /\ Placed(out[i])
    /\ out[i].done => \A n \in FiveSecondBars : Ahead(n) => out[i].win < Window(n)

\* Without a lag, every 5 s bar is still in the ring, or in the open bar, or in
\* a completed one, which has all of its window.
NoneLost ==
  ~lagged /\ ~missed =>
    /\ \A n \in published :
         \/ n \in Elts(ring)
         \/ current # None /\ n \in current.bars
         \/ \E i \in DOMAIN out : out[i].done /\ n \in out[i].bars
    /\ \A i \in DOMAIN out, n \in published :
         out[i].done /\ Window(n) = out[i].win => n \in out[i].bars

\* A task that stores has emitted, and one that goes on has not seen enough silence.
TaskOK ==
  /\ task \in {"store", "check"} => out # <<>>
  /\ task # "done" => streak < AutoExit

IInv ==
  /\ TypeOK /\ RingOK /\ CurrentOK /\ OutOK /\ NoneLost /\ TaskOK
  /\ OutInOrder /\ SlotIsLatest

-----------------------------------------------------------------------------
(* Lemmas on windows and sequences *)

LEMMA DivBounds ==
  ASSUME NEW w \in Nat \ {0}, NEW s \in Nat
  PROVE  /\ s \div w \in Nat
         /\ (s \div w) * w <= s
         /\ s < (s \div w + 1) * w
  OBVIOUS

LEMMA DivMonotone ==
  ASSUME NEW w \in Nat \ {0}, NEW s \in Nat, NEW t \in Nat, s <= t
  PROVE  s \div w <= t \div w
  <1> DEFINE p == s \div w
             q == t \div w
  <1>1. /\ p \in Nat /\ p * w <= s
        /\ q \in Nat /\ t < (q + 1) * w
    BY DivBounds
  <1> HIDE DEF p, q
  <1>2. SUFFICES ASSUME q + 1 <= p PROVE FALSE
    BY <1>1 DEF p, q
  <1>3. (q + 1) * w <= p * w
    BY <1>1, <1>2
  <1> QED
    BY <1>1, <1>3

\* Windows are numbered in the order of their bars.
LEMMA Windows ==
  /\ \A n \in FiveSecondBars : Window(n) \in 0 .. Window(LastBar)
  /\ \A m, n \in FiveSecondBars : m <= n => Window(m) <= Window(n)
  <1>1. ASSUME NEW m \in FiveSecondBars PROVE m - 1 \in Nat /\ Window(m) \in Nat
    BY PerWindowAssumption, LastBarAssumption, DivBounds DEF FiveSecondBars, Window
  <1>2. ASSUME NEW m \in FiveSecondBars, NEW n \in FiveSecondBars, m <= n
        PROVE  Window(m) <= Window(n)
    <2>1. m - 1 \in Nat /\ n - 1 \in Nat /\ m - 1 <= n - 1
      BY <1>1, <1>2, LastBarAssumption DEF FiveSecondBars
    <2> QED
      BY <2>1, PerWindowAssumption, DivMonotone DEF Window
  <1>3. ASSUME NEW n \in FiveSecondBars PROVE Window(n) \in 0 .. Window(LastBar)
    <2>1. LastBar \in FiveSecondBars /\ n <= LastBar
      BY LastBarAssumption DEF FiveSecondBars
    <2> QED
      BY <2>1, <1>1, <1>2
  <1> QED
    BY <1>2, <1>3

\* A window has the bars between its bounds.
LEMMA WindowSpans ==
  ASSUME NEW n \in FiveSecondBars, NEW w \in Nat
  PROVE  /\ Window(n) = w <=> w * PerWindow < n /\ n <= (w + 1) * PerWindow
         /\ Window(n) < w <=> n <= w * PerWindow
  <1> DEFINE v == Window(n)
  <1>1. n \in Nat /\ v \in Nat /\ v * PerWindow < n /\ n <= (v + 1) * PerWindow
    BY PerWindowAssumption, LastBarAssumption, DivBounds DEF FiveSecondBars, Window
  <1> HIDE DEF v
  <1>2. ASSUME v < w PROVE n <= w * PerWindow
    <2>1. (v + 1) * PerWindow <= w * PerWindow
      BY <1>1, <1>2, PerWindowAssumption
    <2> QED
      BY <1>1, <2>1, PerWindowAssumption
  <1>3. ASSUME w < v PROVE (w + 1) * PerWindow < n
    <2>1. (w + 1) * PerWindow <= v * PerWindow
      BY <1>1, <1>3, PerWindowAssumption
    <2> QED
      BY <1>1, <2>1, PerWindowAssumption
  <1>4. CASE v = w
    BY <1>1, <1>4, PerWindowAssumption DEF v
  <1>5. CASE v < w
    BY <1>1, <1>2, <1>5, PerWindowAssumption DEF v
  <1>6. CASE w < v
    <2>1. w * PerWindow < (w + 1) * PerWindow
      BY PerWindowAssumption
    <2> QED
      BY <1>1, <1>3, <1>6, <2>1, PerWindowAssumption DEF v
  <1> QED
    BY <1>1, <1>4, <1>5, <1>6

\* Receiving takes the least bar of a ring in order.
LEMMA TailTakesHead ==
  ASSUME NEW S, S \subseteq Nat, NEW s \in Seq(S), s # <<>>,
         \A i, j \in DOMAIN s : i < j => s[i] < s[j]
  PROVE  /\ Head(s) \in S /\ Tail(s) \in Seq(S) /\ Len(Tail(s)) = Len(s) - 1
         /\ Head(s) \in Elts(s)
         /\ Elts(s) = Elts(Tail(s)) \cup {Head(s)}
         /\ \A n \in Elts(Tail(s)) : Head(s) < n
         /\ \A i, j \in DOMAIN Tail(s) : i < j => Tail(s)[i] < Tail(s)[j]
  <1>1. /\ Head(s) \in S /\ Tail(s) \in Seq(S) /\ Len(Tail(s)) = Len(s) - 1
        /\ \A i \in 1 .. Len(Tail(s)) : Tail(s)[i] = s[i + 1]
    BY HeadTailProperties
  <1>2. /\ Len(s) \in Nat \ {0} /\ DOMAIN s = 1 .. Len(s) /\ Head(s) = s[1]
        /\ DOMAIN Tail(s) = 1 .. (Len(s) - 1)
        /\ \A i \in 1 .. (Len(s) - 1) : Tail(s)[i] = s[i + 1]
    BY <1>1, EmptySeq, LenProperties
  <1>3. \A n \in Elts(Tail(s)) : Head(s) < n
    BY <1>2 DEF Elts
  <1>4. Elts(s) \subseteq Elts(Tail(s)) \cup {Head(s)}
    <2> SUFFICES ASSUME NEW i \in 1 .. Len(s), i # 1 PROVE s[i] \in Elts(Tail(s))
      BY <1>2 DEF Elts
    <2>1. i - 1 \in 1 .. (Len(s) - 1) /\ Tail(s)[i - 1] = s[i]
      BY <1>2
    <2> QED
      BY <2>1, <1>2 DEF Elts
  <1>5. Elts(Tail(s)) \cup {Head(s)} \subseteq Elts(s)
    BY <1>2 DEF Elts
  <1>6. \A i, j \in DOMAIN Tail(s) : i < j => Tail(s)[i] < Tail(s)[j]
    BY <1>2
  <1> QED
    BY <1>1, <1>2, <1>3, <1>4, <1>5, <1>6 DEF Elts

\* A bar that is later than all others goes to the end of the ring.
LEMMA AppendAddsLast ==
  ASSUME NEW S, S \subseteq Nat, NEW s \in Seq(S), NEW n \in S,
         \A i, j \in DOMAIN s : i < j => s[i] < s[j],
         \A i \in DOMAIN s : s[i] < n
  PROVE  /\ Append(s, n) \in Seq(S) /\ Len(Append(s, n)) = Len(s) + 1
         /\ Elts(Append(s, n)) = Elts(s) \cup {n}
         /\ \A i, j \in DOMAIN Append(s, n) : i < j => Append(s, n)[i] < Append(s, n)[j]
  <1> DEFINE t == Append(s, n)
  <1>1. /\ t \in Seq(S) /\ Len(t) = Len(s) + 1 /\ t[Len(s) + 1] = n
        /\ \A i \in 1 .. Len(s) : t[i] = s[i]
    BY AppendProperties
  <1>2. /\ Len(s) \in Nat /\ DOMAIN s = 1 .. Len(s) /\ DOMAIN t = 1 .. (Len(s) + 1)
    BY <1>1, LenProperties
  <1> HIDE DEF t
  <1>3. Elts(t) \subseteq Elts(s) \cup {n} /\ Elts(s) \cup {n} \subseteq Elts(t)
    BY <1>1, <1>2 DEF Elts
  <1>4. \A i, j \in DOMAIN t : i < j => t[i] < t[j]
    <2> SUFFICES ASSUME NEW i \in DOMAIN t, NEW j \in DOMAIN t, i < j PROVE t[i] < t[j]
      OBVIOUS
    <2>1. i \in DOMAIN s /\ t[i] = s[i]
      BY <1>1, <1>2
    <2>2. CASE j \in DOMAIN s
      BY <2>1, <2>2, <1>1, <1>2
    <2>3. CASE j = Len(s) + 1
      BY <2>1, <2>3, <1>1, <1>2
    <2> QED
      BY <2>2, <2>3, <1>2
  <1> QED
    BY <1>1, <1>3, <1>4 DEF t

-----------------------------------------------------------------------------
(* The invariant *)

foldVars == <<published, ring, missed, current, dirty, out, lagged>>

LEMMA BarIsNotNone == \A bar \in BarStates : bar # None
  <1>1. BarStates \subseteq [win : Nat, bars : SUBSET Nat, done : BOOLEAN]
    BY LastBarAssumption, Windows DEF BarStates, FiveSecondBars
  <1> QED
    BY <1>1, FoldNoneAssumption

LEMMA BarWindow == \A bar \in BarStates : bar.win \in Nat
  BY DEF BarStates

LEMMA OutBars ==
  ASSUME out \in Seq(BarStates)
  PROVE  \A i \in DOMAIN out : out[i] \in BarStates /\ out[i].win \in Nat
  <1>1. \A i \in 1 .. Len(out) : out[i] \in BarStates
    BY ElementOfSeq
  <1> QED
    BY <1>1, LenProperties, BarWindow

LEMMA InitInv == Init => IInv
  <1> SUFFICES ASSUME Init PROVE IInv
    OBVIOUS
  <1>1. /\ published = {} /\ ring = <<>> /\ out = <<>> /\ current = None /\ slot = None
        /\ missed = FALSE /\ dirty = FALSE /\ lagged = FALSE /\ consumer = FALSE /\ streak = 0
        /\ upstream = "open" /\ task = "select"
    BY DEF Init
  <1>2. ring \in Seq(FiveSecondBars) /\ Len(ring) = 0 /\ out \in Seq(BarStates)
        /\ DOMAIN ring = {} /\ DOMAIN out = {}
    BY <1>1, EmptySeq
  <1>3. TypeOK
    <2>1. missed \in BOOLEAN /\ dirty \in BOOLEAN /\ consumer \in BOOLEAN /\ lagged \in BOOLEAN
          /\ (dirty => current # None)
      BY <1>1, Zenon
    <2> QED
      BY <1>1, <1>2, <2>1, RingCapAssumption, FoldAutoExitAssumption DEF TypeOK
  <1>4. RingOK /\ CurrentOK /\ OutOK /\ NoneLost /\ OutInOrder
    BY <1>1, <1>2 DEF RingOK, CurrentOK, OutOK, NoneLost, OutInOrder
  <1>5. TaskOK /\ SlotIsLatest
    BY <1>1, FoldAutoExitAssumption DEF TaskOK, SlotIsLatest
  <1> QED
    BY <1>3, <1>4, <1>5 DEF IInv

\* Steps that touch neither the bars nor what has been emitted.
LEMMA FoldFrame ==
  ASSUME IInv, UNCHANGED foldVars
  PROVE  RingOK' /\ CurrentOK' /\ OutOK' /\ NoneLost' /\ OutInOrder'
  BY DEF IInv, foldVars, RingOK, CurrentOK, OutOK, NoneLost, OutInOrder, Placed, Ahead, Elts

LEMMA AroundInv ==
  ASSUME IInv, CloseUpstream \/ Attach \/ Detach \/ Abort \/ Closed
  PROVE  IInv'
  <1>1. UNCHANGED foldVars /\ UNCHANGED <<streak, slot>>
    BY DEF CloseUpstream, Attach, Detach, Abort, Closed, foldVars
  <1>2. TypeOK'
    <2>1. (consumer \in BOOLEAN)'
      BY Zenon DEF IInv, TypeOK, CloseUpstream, Attach, Detach, Abort, Closed
    <2>2. (task \in {"select", "store", "check", "done"} /\ upstream \in {"open", "closed"})'
      BY DEF IInv, TypeOK, CloseUpstream, Attach, Detach, Abort, Closed
    <2> QED
      BY <1>1, <2>1, <2>2 DEF IInv, TypeOK, foldVars
  <1>3. TaskOK' /\ SlotIsLatest'
    BY DEF IInv, TaskOK, SlotIsLatest, CloseUpstream, Attach, Detach, Abort, Closed
  <1> QED
    BY <1>1, <1>2, <1>3, FoldFrame DEF IInv

\* The bar emitted last reaches last_bar before the loop goes on.
LEMMA StoreInv ==
  ASSUME IInv, Store \/ StoreAndCheck
  PROVE  IInv'
  <1>1. UNCHANGED foldVars /\ UNCHANGED <<upstream, consumer>> /\ slot' = out[Len(out)]
    BY DEF Store, StoreAndCheck, foldVars
  <1>2. task \in {"store", "check"} /\ task # "done"
    BY DEF Store, StoreAndCheck
  <1>3. slot' \in BarStates
    <2>1. out # <<>> /\ out \in Seq(BarStates)
      BY <1>2 DEF IInv, TaskOK, TypeOK
    <2>2. Len(out) \in 1 .. Len(out)
      BY <2>1, EmptySeq
    <2> QED
      BY <1>1, <2>1, <2>2, ElementOfSeq
  <1>4. streak' \in 0 .. AutoExit /\ TaskOK' /\ task' \in {"select", "done"}
    BY <1>2, FoldAutoExitAssumption DEF IInv, TypeOK, TaskOK, Store, StoreAndCheck
  <1>5. TypeOK'
    <2>1. (missed \in BOOLEAN /\ dirty \in BOOLEAN /\ consumer \in BOOLEAN /\ lagged \in BOOLEAN
           /\ (dirty => current # None))'
      BY <1>1, Zenon DEF IInv, TypeOK, foldVars
    <2> QED
      BY <1>1, <1>3, <1>4, <2>1 DEF IInv, TypeOK, foldVars
  <1>6. SlotIsLatest'
    BY <1>1 DEF SlotIsLatest, foldVars
  <1> QED
    BY <1>1, <1>4, <1>5, <1>6, FoldFrame DEF IInv

\* RecvError::Lagged.
LEMMA LaggedInv ==
  ASSUME IInv, Lagged
  PROVE  IInv'
  <1>1. /\ current' = None /\ dirty' = FALSE /\ missed' = FALSE /\ lagged' = TRUE /\ task = "select"
        /\ UNCHANGED <<published, ring, upstream, consumer, task, streak, out, slot>>
    BY DEF Lagged
  <1>2. TypeOK'
    BY <1>1 DEF IInv, TypeOK
  <1>3. RingOK' /\ CurrentOK' /\ NoneLost' /\ TaskOK' /\ OutInOrder' /\ SlotIsLatest'
    BY <1>1 DEF IInv, RingOK, CurrentOK, NoneLost, TaskOK, OutInOrder, SlotIsLatest
  <1>4. OutOK'
    BY <1>1 DEF IInv, OutOK, Placed, Ahead, Elts
  <1> QED
    BY <1>2, <1>3, <1>4 DEF IInv

\* A bar that is not before the last window emitted may be emitted next.
LEMMA Emits ==
  ASSUME IInv, NEW b \in BarStates, out' = Append(out, b),
         \A i \in DOMAIN out : out[i].win <= b.win /\ (out[i].done => out[i].win < b.win)
  PROVE  /\ out' \in Seq(BarStates) /\ out' # <<>>
         /\ DOMAIN out' = DOMAIN out \cup {Len(out) + 1} /\ Len(out) + 1 \notin DOMAIN out
         /\ \A i \in DOMAIN out : out'[i] = out[i]
         /\ out'[Len(out) + 1] = b
         /\ OutInOrder'
  <1>1. out \in Seq(BarStates)
    BY DEF IInv, TypeOK
  <1>2. /\ out' \in Seq(BarStates) /\ out' # <<>> /\ Len(out') = Len(out) + 1
        /\ \A i \in 1 .. Len(out) : out'[i] = out[i]
        /\ out'[Len(out) + 1] = b
    BY <1>1, AppendProperties
  <1>3. /\ Len(out) \in Nat /\ DOMAIN out = 1 .. Len(out) /\ DOMAIN out' = 1 .. (Len(out) + 1)
    BY <1>1, <1>2, LenProperties
  <1>4. DOMAIN out' = DOMAIN out \cup {Len(out) + 1} /\ Len(out) + 1 \notin DOMAIN out
    BY <1>3
  <1>5. OutInOrder'
    <2> SUFFICES ASSUME NEW i \in DOMAIN out', NEW j \in DOMAIN out', i < j
                 PROVE  out'[i].win <= out'[j].win /\ (out'[i].done => out'[i].win < out'[j].win)
      BY DEF OutInOrder
    <2>1. i \in DOMAIN out /\ out'[i] = out[i]
      BY <1>2, <1>3
    <2>2. CASE j \in DOMAIN out
      BY <2>1, <2>2, <1>2, <1>3 DEF IInv, OutInOrder
    <2>3. CASE j = Len(out) + 1
      BY <2>1, <2>3, <1>2
    <2> QED
      BY <2>2, <2>3, <1>4
  <1> QED
    BY <1>2, <1>3, <1>4, <1>5

\* Receiving the next bar leaves only later ones.
LEMMA Receives ==
  ASSUME IInv, ring # <<>>, ring' = Tail(ring), published' = published
  PROVE  /\ Head(ring) \in FiveSecondBars /\ Head(ring) \in published /\ Ahead(Head(ring))
         /\ Elts(ring) = Elts(ring') \cup {Head(ring)}
         /\ ring' \in Seq(FiveSecondBars) /\ Len(ring') <= RingCap
         /\ RingOK'
         /\ \A n \in FiveSecondBars : Ahead(n)' => Ahead(n) /\ Head(ring) < n
  <1>1. FiveSecondBars \subseteq Nat /\ ring \in Seq(FiveSecondBars)
        /\ \A i, j \in DOMAIN ring : i < j => ring[i] < ring[j]
    BY LastBarAssumption DEF IInv, TypeOK, RingOK, FiveSecondBars
  <1>2. /\ Head(ring) \in FiveSecondBars /\ ring' \in Seq(FiveSecondBars)
        /\ Len(ring') = Len(ring) - 1
        /\ Head(ring) \in Elts(ring)
        /\ Elts(ring) = Elts(ring') \cup {Head(ring)}
        /\ \A n \in Elts(ring') : Head(ring) < n
        /\ \A i, j \in DOMAIN ring' : i < j => ring'[i] < ring'[j]
    <2> HIDE DEF FiveSecondBars
    <2> QED
      BY <1>1, TailTakesHead
  <1>3. Len(ring') <= RingCap
    BY <1>1, <1>2, LenProperties, RingCapAssumption DEF IInv, TypeOK
  <1>4. Elts(ring) \subseteq published
    BY DEF IInv, RingOK, Elts
  <1>5. RingOK'
    BY <1>2, <1>4 DEF RingOK, Elts
  <1>6. \A n \in FiveSecondBars : Ahead(n)' => Ahead(n) /\ Head(ring) < n
    BY <1>2, <1>4 DEF Ahead, Elts
  <1> QED
    BY <1>2, <1>3, <1>4, <1>5, <1>6 DEF Ahead

\* The tick: the open bar is emitted and stays open.
LEMMA CoalesceInv ==
  ASSUME IInv, Coalesce
  PROVE  IInv'
  <1>1. /\ task = "select" /\ dirty /\ out' = Append(out, current) /\ dirty' = FALSE
        /\ task' = "check"
        /\ UNCHANGED <<published, ring, missed, upstream, consumer, current, streak, slot, lagged>>
    BY DEF Coalesce
  <1>2. current # None
    BY <1>1, Zenon DEF IInv, TypeOK
  <1>3. current \in BarStates /\ ~current.done /\ Placed(current)
        /\ \A i \in DOMAIN out : /\ out[i].win <= current.win
                                 /\ out[i].done => out[i].win < current.win
    BY <1>2 DEF IInv, TypeOK, CurrentOK
  <1>4. /\ out' \in Seq(BarStates) /\ out' # <<>>
        /\ DOMAIN out' = DOMAIN out \cup {Len(out) + 1} /\ Len(out) + 1 \notin DOMAIN out
        /\ \A i \in DOMAIN out : out'[i] = out[i]
        /\ out'[Len(out) + 1] = current
        /\ OutInOrder'
    BY <1>1, <1>3, Emits
  <1>5. TypeOK'
    BY <1>1, <1>2, <1>4 DEF IInv, TypeOK
  <1>6. \A bar : Placed(bar)' <=> Placed(bar)
    BY <1>1 DEF Placed, Ahead, Elts
  <1>7. \A n : Ahead(n)' <=> Ahead(n)
    BY <1>1 DEF Ahead, Elts
  <1>8. OutOK'
    <2> SUFFICES ASSUME NEW i \in DOMAIN out'
                 PROVE  /\ Placed(out[i])'
                        /\ out'[i].done =>
                             \A n \in FiveSecondBars : Ahead(n)' => out'[i].win < Window(n)
      BY DEF OutOK
    <2>1. CASE i \in DOMAIN out
      BY <2>1, <1>4, <1>6, <1>7 DEF IInv, OutOK
    <2>2. CASE i = Len(out) + 1
      BY <2>2, <1>3, <1>4, <1>6
    <2> QED
      BY <2>1, <2>2, <1>4
  <1>9. CurrentOK'
    <2>1. \A i \in DOMAIN out' : /\ out'[i].win <= current.win
                                 /\ out'[i].done => out'[i].win < current.win
      <3>1. current.win \in Nat
        BY <1>3, Windows DEF BarStates
      <3> QED
        BY <3>1, <1>3, <1>4
    <2> QED
      BY <2>1, <1>1, <1>3, <1>6 DEF CurrentOK
  <1>10. NoneLost'
    <2>1. Elts(ring') = Elts(ring) /\ ring' = ring
      BY <1>1
    <2> QED
      BY <2>1, <1>1, <1>3, <1>4 DEF IInv, NoneLost
  <1>11. RingOK' /\ TaskOK' /\ SlotIsLatest'
    BY <1>1, <1>4 DEF IInv, RingOK, TaskOK, SlotIsLatest
  <1> QED
    BY <1>4, <1>5, <1>8, <1>9, <1>10, <1>11 DEF IInv

\* A 5 s bar is published, and the ring keeps it if it has to lose the oldest.
LEMMA PublishInv ==
  ASSUME IInv, NEW n \in FiveSecondBars, Publish(n)
  PROVE  IInv'
  <1>1. /\ \A m \in published : m < n
        /\ published' = published \cup {n}
        /\ IF Len(ring) < RingCap
             THEN ring' = Append(ring, n) /\ UNCHANGED missed
             ELSE ring' = Append(Tail(ring), n) /\ missed' = TRUE
        /\ UNCHANGED <<upstream, consumer, task, current, dirty, streak, out, slot, lagged>>
    BY DEF Publish
  <1>2. FiveSecondBars \subseteq Nat /\ ring \in Seq(FiveSecondBars) /\ Len(ring) <= RingCap
        /\ Elts(ring) \subseteq published
        /\ \A i, j \in DOMAIN ring : i < j => ring[i] < ring[j]
    BY LastBarAssumption DEF IInv, TypeOK, RingOK, FiveSecondBars, Elts
  <1> HIDE DEF FiveSecondBars
  <1>3. PICK r \in Seq(FiveSecondBars) :
          /\ ring' = Append(r, n) /\ Len(r) + 1 <= RingCap /\ Elts(r) \subseteq Elts(ring)
          /\ \A i, j \in DOMAIN r : i < j => r[i] < r[j]
          /\ ~missed' => ~missed /\ r = ring
    <2>1. CASE Len(ring) < RingCap
      <3>1. Len(ring) \in Nat /\ RingCap \in Nat
        BY <1>2, LenProperties, RingCapAssumption
      <3> QED
        BY <2>1, <3>1, <1>1, <1>2
    <2>2. CASE ~(Len(ring) < RingCap)
      <3>1. Len(ring) \in Nat /\ RingCap \in Nat \ {0} /\ Len(ring) = RingCap
        BY <2>2, <1>2, LenProperties, RingCapAssumption
      <3>2. ring # <<>>
        BY <3>1, EmptySeq
      <3>3. /\ Tail(ring) \in Seq(FiveSecondBars) /\ Len(Tail(ring)) = Len(ring) - 1
            /\ Elts(ring) = Elts(Tail(ring)) \cup {Head(ring)}
            /\ \A i, j \in DOMAIN Tail(ring) : i < j => Tail(ring)[i] < Tail(ring)[j]
        BY <1>2, <3>2, TailTakesHead
      <3>4. /\ ring' = Append(Tail(ring), n) /\ missed' = TRUE
            /\ Len(Tail(ring)) + 1 <= RingCap /\ Elts(Tail(ring)) \subseteq Elts(ring)
        BY <2>2, <3>1, <3>3, <1>1
      <3> QED
        BY <3>3, <3>4, Zenon
    <2> QED
      BY <2>1, <2>2
  <1>4. /\ ring' \in Seq(FiveSecondBars) /\ Len(ring') = Len(r) + 1
        /\ Elts(ring') = Elts(r) \cup {n}
        /\ \A i, j \in DOMAIN ring' : i < j => ring'[i] < ring'[j]
    <2>1. \A i \in DOMAIN r : r[i] < n
      BY <1>1, <1>2, <1>3 DEF Elts
    <2>2. /\ Append(r, n) \in Seq(FiveSecondBars) /\ Len(Append(r, n)) = Len(r) + 1
          /\ Elts(Append(r, n)) = Elts(r) \cup {n}
          /\ \A i, j \in DOMAIN Append(r, n) : i < j => Append(r, n)[i] < Append(r, n)[j]
      BY <2>1, <1>2, <1>3, AppendAddsLast
    <2> QED
      BY <2>2, <1>3, Zenon
  <1>5. \A m \in FiveSecondBars : Ahead(m)' => Ahead(m)
    BY <1>1, <1>3, <1>4 DEF Ahead, Elts
  <1>6. Ahead(n)
    BY <1>1 DEF Ahead
  <1>7. RingOK'
    BY <1>1, <1>2, <1>3, <1>4 DEF RingOK, Elts
  <1>8. TypeOK'
    <2>1. (published \subseteq FiveSecondBars /\ Len(ring) <= RingCap)'
      BY <1>1, <1>3, <1>4 DEF IInv, TypeOK
    <2>2. missed' \in BOOLEAN
      BY <1>1, Zenon DEF IInv, TypeOK
    <2> QED
      BY <1>1, <1>4, <2>1, <2>2 DEF IInv, TypeOK
  <1>9. ASSUME NEW bar, Placed(bar) PROVE Placed(bar)'
    BY <1>1, <1>5, <1>9 DEF Placed
  <1>10. CurrentOK' /\ OutOK'
    BY <1>1, <1>5, <1>9 DEF IInv, CurrentOK, OutOK
  <1>11. NoneLost'
    <2> SUFFICES ASSUME ~lagged', ~missed' PROVE NoneLost'
      BY DEF NoneLost
    <2>1. ~lagged /\ ~missed /\ Elts(ring') = Elts(ring) \cup {n}
      BY <1>1, <1>3, <1>4
    <2>2. \A i \in DOMAIN out : out[i].done => out[i].win < Window(n)
      BY <1>6 DEF IInv, OutOK
    <2>3. \A i \in DOMAIN out : out[i].win \in Nat
      BY OutBars DEF IInv, TypeOK
    <2>4. \A i \in DOMAIN out : out[i].done => Window(n) # out[i].win
      BY <2>2, <2>3, Windows
    <2> QED
      BY <2>1, <2>4, <1>1 DEF IInv, NoneLost
  <1>12. TaskOK' /\ OutInOrder' /\ SlotIsLatest'
    BY <1>1 DEF IInv, TaskOK, OutInOrder, SlotIsLatest
  <1> QED
    BY <1>7, <1>8, <1>10, <1>11, <1>12 DEF IInv

\* A 5 s bar of the open window.
LEMMA FoldInv ==
  ASSUME IInv, Fold
  PROVE  IInv'
  <1> DEFINE n == Head(ring)
  <1>1. /\ task = "select" /\ ring # <<>> /\ current # None /\ current.win = Window(n)
        /\ ring' = Tail(ring)
        /\ current' = [current EXCEPT !.bars = @ \cup {n}]
        /\ dirty' = TRUE
        /\ UNCHANGED <<published, missed, upstream, consumer, task, streak, out, slot, lagged>>
    BY DEF Fold
  <1>2. /\ n \in FiveSecondBars /\ n \in published
        /\ Elts(ring) = Elts(ring') \cup {n}
        /\ ring' \in Seq(FiveSecondBars) /\ Len(ring') <= RingCap
        /\ RingOK'
        /\ \A m \in FiveSecondBars : Ahead(m)' => Ahead(m)
    BY <1>1, Receives
  <1> HIDE DEF n
  <1>3. current \in BarStates /\ ~current.done /\ Placed(current)
    BY <1>1 DEF IInv, TypeOK, CurrentOK
  <1>4. /\ current' \in BarStates /\ current'.win = current.win /\ current'.done = current.done
        /\ current'.bars = current.bars \cup {n}
    BY <1>1, <1>2, <1>3 DEF BarStates
  <1>5. current' # None
    BY <1>1, <1>4, BarIsNotNone
  <1>6. TypeOK'
    <2>1. dirty' \in BOOLEAN /\ (dirty => current # None)'
      BY <1>1, <1>5, Zenon
    <2> QED
      BY <2>1, <1>1, <1>2, <1>4 DEF IInv, TypeOK
  <1>7. ASSUME NEW bar, Placed(bar) PROVE Placed(bar)'
    BY <1>1, <1>2, <1>7 DEF Placed
  <1>8. Placed(current)'
    BY <1>1, <1>2, <1>3, <1>4 DEF Placed
  <1>9. CurrentOK'
    BY <1>1, <1>3, <1>4, <1>8 DEF IInv, CurrentOK
  <1>10. OutOK'
    BY <1>1, <1>2, <1>7 DEF IInv, OutOK
  <1>11. NoneLost'
    BY <1>1, <1>2, <1>4, <1>5 DEF IInv, NoneLost
  <1>12. TaskOK' /\ OutInOrder' /\ SlotIsLatest'
    BY <1>1 DEF IInv, TaskOK, OutInOrder, SlotIsLatest
  <1> QED
    BY <1>2, <1>6, <1>9, <1>10, <1>11, <1>12 DEF IInv

\* The first 5 s bar of a window: the open bar is completed and a new one opened.
LEMMA RolloverInv ==
  ASSUME IInv, Rollover
  PROVE  IInv'
  <1> DEFINE n == Head(ring)
             b == [current EXCEPT !.done = TRUE]
  <1>1. /\ task = "select" /\ ring # <<>>
        /\ current # None => current.win # Window(n)
        /\ ring' = Tail(ring)
        /\ IF current = None THEN UNCHANGED <<out, task>>
           ELSE out' = Append(out, b) /\ task' = "store"
        /\ current' = [win |-> Window(n), bars |-> {n}, done |-> FALSE]
        /\ dirty' = TRUE
        /\ UNCHANGED <<published, missed, upstream, consumer, streak, slot, lagged>>
    BY DEF Rollover, Bar
  <1>2. /\ n \in FiveSecondBars /\ n \in published /\ Ahead(n)
        /\ Elts(ring) = Elts(ring') \cup {n}
        /\ ring' \in Seq(FiveSecondBars) /\ Len(ring') <= RingCap
        /\ RingOK'
        /\ \A m \in FiveSecondBars : Ahead(m)' => Ahead(m) /\ n < m
    BY <1>1, Receives
  <1> HIDE DEF n
  <1>3. /\ current' \in BarStates /\ current'.win = Window(n) /\ ~current'.done
        /\ current'.bars = {n}
    BY <1>1, <1>2, Windows DEF BarStates
  <1>4. current' # None
    BY <1>3, BarIsNotNone
  <1>5. ASSUME NEW bar, Placed(bar) PROVE Placed(bar)'
    BY <1>1, <1>2, <1>5 DEF Placed
  <1>6. \A m \in FiveSecondBars : Ahead(m)' => Window(n) <= Window(m)
    <2>1. \A m \in FiveSecondBars : n < m => n <= m
      BY <1>2, LastBarAssumption DEF FiveSecondBars
    <2> QED
      BY <2>1, <1>2, Windows
  <1>7. Placed(current)'
    BY <1>1, <1>2, <1>3, <1>6 DEF Placed
  <1>8. out \in Seq(BarStates) /\ \A i \in DOMAIN out : out[i] \in BarStates /\ out[i].win \in Nat
    BY OutBars DEF IInv, TypeOK
  <1>9. Window(n) \in Nat
    BY <1>2, Windows
  <1>10. CASE current = None
    <2>1. UNCHANGED <<out, task>>
      BY <1>1, <1>10
    <2>2. TypeOK'
      <3>1. dirty' \in BOOLEAN /\ (dirty => current # None)'
        BY <1>1, <1>4, Zenon
      <3> QED
        BY <2>1, <3>1, <1>1, <1>2, <1>3 DEF IInv, TypeOK
    <2>3. \A i \in DOMAIN out : out[i].win <= Window(n) /\ (out[i].done => out[i].win < Window(n))
      BY <1>2 DEF IInv, OutOK, Placed
    <2>4. CurrentOK'
      BY <2>1, <2>3, <1>3, <1>7 DEF CurrentOK
    <2>5. OutOK'
      BY <2>1, <1>2, <1>5 DEF IInv, OutOK
    <2>6. NoneLost'
      BY <2>1, <1>1, <1>2, <1>3, <1>4, <1>10 DEF IInv, NoneLost
    <2>7. TaskOK' /\ OutInOrder' /\ SlotIsLatest'
      BY <2>1, <1>1 DEF IInv, TaskOK, OutInOrder, SlotIsLatest
    <2> QED
      BY <2>2, <2>4, <2>5, <2>6, <2>7, <1>2 DEF IInv
  <1>11. CASE current # None
    <2>1. out' = Append(out, b) /\ task' = "store"
      BY <1>1, <1>11
    <2>2. current \in BarStates /\ Placed(current)
          /\ \A i \in DOMAIN out : /\ out[i].win <= current.win
                                   /\ out[i].done => out[i].win < current.win
      BY <1>11 DEF IInv, TypeOK, CurrentOK
    <2>3. b \in BarStates /\ b.win = current.win /\ b.bars = current.bars /\ b.done
          /\ b.win \in Nat
      <3>1. b \in BarStates /\ b.win = current.win /\ b.bars = current.bars /\ b.done = TRUE
        BY <2>2 DEF BarStates
      <3> QED
        BY <3>1, BarWindow
    <2> HIDE DEF b
    <2>4. /\ out' \in Seq(BarStates) /\ out' # <<>>
          /\ DOMAIN out' = DOMAIN out \cup {Len(out) + 1} /\ Len(out) + 1 \notin DOMAIN out
          /\ \A i \in DOMAIN out : out'[i] = out[i]
          /\ out'[Len(out) + 1] = b
          /\ OutInOrder'
      BY <2>1, <2>2, <2>3, Emits
    <2>5. b.win < Window(n)
      BY <2>2, <2>3, <1>1, <1>2, <1>9, <1>11 DEF Placed
    <2>6. TypeOK'
      <3>1. dirty' \in BOOLEAN /\ (dirty => current # None)'
        BY <1>1, <1>4, Zenon
      <3> QED
        BY <2>1, <2>4, <3>1, <1>1, <1>2, <1>3 DEF IInv, TypeOK
    <2>7. CurrentOK'
      <3>1. \A i \in DOMAIN out' : /\ out'[i].win <= Window(n)
                                   /\ out'[i].done => out'[i].win < Window(n)
        BY <2>2, <2>3, <2>4, <2>5, <1>8, <1>9
      <3> QED
        BY <3>1, <1>3, <1>7 DEF CurrentOK
    <2>8. OutOK'
      <3> SUFFICES ASSUME NEW i \in DOMAIN out'
                   PROVE  /\ Placed(out[i])'
                          /\ out'[i].done =>
                               \A m \in FiveSecondBars : Ahead(m)' => out'[i].win < Window(m)
        BY DEF OutOK
      <3>1. CASE i \in DOMAIN out
        BY <3>1, <2>4, <1>2, <1>5 DEF IInv, OutOK
      <3>2. CASE i = Len(out) + 1
        <4>1. Placed(b)
          BY <2>2, <2>3 DEF Placed
        <4>2. \A m \in FiveSecondBars : Ahead(m)' => b.win < Window(m)
          BY <2>3, <2>5, <1>6, <1>9, Windows
        <4> QED
          BY <3>2, <4>1, <4>2, <2>4, <1>5
      <3> QED
        BY <3>1, <3>2, <2>4
    <2>9. NoneLost'
      <3> SUFFICES ASSUME ~lagged, ~missed PROVE NoneLost'
        BY <1>1 DEF NoneLost
      <3>1. ASSUME NEW m \in published
            PROVE  \/ m \in Elts(ring')
                   \/ m \in current'.bars
                   \/ \E i \in DOMAIN out' : out'[i].done /\ m \in out'[i].bars
        <4>1. \/ m \in Elts(ring') \cup {n}
              \/ m \in b.bars
              \/ \E i \in DOMAIN out : out[i].done /\ m \in out[i].bars
          BY <2>3, <1>2, <1>11 DEF IInv, NoneLost
        <4>2. CASE m \in b.bars
          BY <4>2, <2>3, <2>4
        <4>3. CASE \E i \in DOMAIN out : out[i].done /\ m \in out[i].bars
          BY <4>3, <2>4
        <4> QED
          BY <4>1, <4>2, <4>3, <1>3
      <3>2. ASSUME NEW m \in published, Window(m) = b.win PROVE m \in b.bars
        <4>1. m \notin Elts(ring)
          <5> SUFFICES ASSUME m \in Elts(ring) PROVE FALSE
            OBVIOUS
          <5>1. m \in FiveSecondBars
            BY DEF IInv, TypeOK
          <5>2. m = n \/ (m \in Elts(ring') /\ Window(n) <= Window(m))
            BY <5>1, <1>2, <1>6 DEF Ahead
          <5> QED
            BY <5>1, <5>2, <3>2, <2>3, <2>5, <1>9
        <4>2. ~\E i \in DOMAIN out : out[i].done /\ m \in out[i].bars
          <5> SUFFICES ASSUME NEW i \in DOMAIN out, out[i].done, m \in out[i].bars PROVE FALSE
            OBVIOUS
          <5>1. out[i].win = b.win
            BY <3>2 DEF IInv, OutOK, Placed
          <5> QED
            BY <5>1, <2>2, <2>3
        <4> QED
          BY <4>1, <4>2, <2>3, <1>11 DEF IInv, NoneLost
      <3>3. \A i \in DOMAIN out', m \in published :
              out'[i].done /\ Window(m) = out'[i].win => m \in out'[i].bars
        BY <3>2, <2>4 DEF IInv, NoneLost
      <3> QED
        BY <3>1, <3>3, <1>1, <1>4 DEF NoneLost
    <2>10. TaskOK' /\ SlotIsLatest'
      BY <2>1, <2>4, <1>1 DEF IInv, TaskOK, SlotIsLatest
    <2> QED
      BY <2>4, <2>6, <2>7, <2>8, <2>9, <2>10, <1>2 DEF IInv
  <1> QED
    BY <1>10, <1>11

LEMMA StutterInv == ASSUME IInv, UNCHANGED vars PROVE IInv'
  <1>1. UNCHANGED foldVars /\ UNCHANGED <<upstream, consumer, task, streak, slot>>
    BY DEF vars, foldVars
  <1>2. TypeOK' /\ TaskOK' /\ SlotIsLatest'
    BY <1>1 DEF IInv, TypeOK, TaskOK, SlotIsLatest, foldVars
  <1> QED
    BY <1>1, <1>2, FoldFrame DEF IInv

LEMMA NextInv == IInv /\ [Next]_vars => IInv'
  <1> SUFFICES ASSUME IInv, [Next]_vars PROVE IInv'
    OBVIOUS
  <1>1. CASE \E n \in FiveSecondBars : Publish(n)
    BY <1>1, PublishInv
  <1>2. CASE CloseUpstream \/ Attach \/ Detach \/ Abort \/ Closed
    BY <1>2, AroundInv
  <1>3. CASE Fold
    BY <1>3, FoldInv
  <1>4. CASE Rollover
    BY <1>4, RolloverInv
  <1>5. CASE Lagged
    BY <1>5, LaggedInv
  <1>6. CASE Coalesce
    BY <1>6, CoalesceInv
  <1>7. CASE Store \/ StoreAndCheck
    BY <1>7, StoreInv
  <1>8. CASE UNCHANGED vars
    BY <1>8, StutterInv
  <1> QED
    BY <1>1, <1>2, <1>3, <1>4, <1>5, <1>6, <1>7, <1>8 DEF Next, Receive, Emit

LEMMA Invariant == Spec => []IInv
  BY InitInv, NextInv, PTL DEF Spec

\* The variables have their types, and only an open bar waits to be emitted.
THEOREM TypeCorrect == Spec => []TypeOK
  <1>1. IInv => TypeOK
    BY DEF IInv
  <1> QED
    BY <1>1, Invariant, PTL

\* Windows are emitted in order, and nothing of a window after its completed bar,
\* however often the receiver lags (run_aggregator).
THEOREM EmittedInOrder == Spec => []OutInOrder
  <1>1. IInv => OutInOrder
    BY DEF IInv
  <1> QED
    BY <1>1, Invariant, PTL

\* last_bar is the bar emitted last whenever the loop waits (last_bar_slot).
THEOREM SlotFollows == Spec => []SlotIsLatest
  <1>1. IInv => SlotIsLatest
    BY DEF IInv
  <1> QED
    BY <1>1, Invariant, PTL

\* Without a lag, completed bars are whole and no window is passed over.
THEOREM CompletedBarsAreWhole == Spec => []CompletedIsWhole
  <1>1. IInv => CompletedIsWhole
    <2> SUFFICES ASSUME IInv, ~lagged, ~missed
                 PROVE  /\ \A i \in DOMAIN out :
                             out[i].done => out[i].bars = PublishedIn(out[i].win)
                        /\ current # None =>
                             \A n \in published :
                               n <= current.win * PerWindow =>
                                 \E i \in DOMAIN out : out[i].done /\ n \in out[i].bars
      BY DEF CompletedIsWhole
    <2>1. ASSUME NEW i \in DOMAIN out, out[i].done PROVE out[i].bars = PublishedIn(out[i].win)
      <3>1. \A m \in out[i].bars : m \in published /\ Window(m) = out[i].win
        BY DEF IInv, OutOK, Placed
      <3>2. \A m \in published : Window(m) = out[i].win => m \in out[i].bars
        BY <2>1 DEF IInv, NoneLost
      <3>3. out[i].win \in Nat /\ published \subseteq FiveSecondBars
        BY BarWindow DEF IInv, TypeOK
      <3>4. \A m \in published : m \in PublishedIn(out[i].win) <=> Window(m) = out[i].win
        BY <3>3, WindowSpans DEF PublishedIn
      <3> QED
        BY <3>1, <3>2, <3>4 DEF PublishedIn
    <2>2. ASSUME current # None, NEW n \in published, n <= current.win * PerWindow
          PROVE  \E i \in DOMAIN out : out[i].done /\ n \in out[i].bars
      <3>1. n \in FiveSecondBars /\ Window(n) \in Nat /\ current.win \in Nat
            /\ Window(n) < current.win
        BY <2>2, Windows, WindowSpans, BarWindow DEF IInv, TypeOK
      <3>2. Placed(current)
        BY <2>2 DEF IInv, CurrentOK
      <3>3. n \notin Elts(ring) /\ n \notin current.bars
        BY <2>2, <3>1, <3>2 DEF Placed, Ahead
      <3> QED
        BY <3>3 DEF IInv, NoneLost
    <2> QED
      BY <2>1, <2>2
  <1> QED
    BY <1>1, Invariant, PTL

-----------------------------------------------------------------------------
(* The registry *)

(* The inductive invariant *)

\* A call that has not been answered has spawned nothing; a handle is on an
\* aggregator that was spawned and, while there is a registry, is its key's.
CallsAgree ==
  \A c \in Calls :
    /\ call[c].st # "unused" => call[c].key \in Keys
    /\ call[c].st \in {"unused", "waiting", "opening"} => aggregator[c] = "none"
    /\ call[c].st = "opening" => Registry!Found(c) = NoCall
    /\ call[c].st \in {"holding", "releasing"} =>
         /\ call[c].agg \in Calls
         /\ aggregator[call[c].agg] # "none"
         /\ gone \/ Registry!Found(c) = call[c].agg

\* An entry is under the key its task was spawned for, and is not aborted.
EntriesOwn ==
  \A k \in Keys :
    LET e == entry[k]
    IN  e # NoCall => call[e].key = k /\ aggregator[e] # "none" /\ e \notin aborted

\* There are finitely many handles on an entry, and it counts them.
EntriesCount ==
  \A k \in Keys :
    LET e == entry[k]
    IN  e # NoCall =>
          /\ IsFiniteSet(Registry!Users(e))
          /\ refcount[e] > 0
          /\ refcount[e] = Cardinality(Registry!Users(e))

\* Only a task that was spawned has been aborted.
AbortedSpawned == \A t \in aborted : aggregator[t] # "none"

\* The registry outlives every call on it.
TearDownOrder ==
  /\ gone => dropped /\ \A k \in Keys : entry[k] = NoCall
  /\ dropped => Registry!InState({"waiting", "opening"}) = {}

RegistryInv ==
  /\ Registry!TypeOK
  /\ CallsAgree
  /\ EntriesOwn
  /\ EntriesCount
  /\ TearDownOrder
  /\ AbortedSpawned
  /\ Registry!TaskOwned

-----------------------------------------------------------------------------
(* Lemmas about the data *)

\* Call c alone has moved: it is in state st on aggregator a, with its key k.
Moved(c, st, k, a) ==
  /\ call'[c].st = st /\ call'[c].key = k /\ call'[c].agg = a
  /\ \A d \in Calls \ {c} : call'[d] = call[d]

\* A call that goes on to another state keeps its key and aggregator.
LEMMA AdvanceMoves ==
  ASSUME Registry!TypeOK, NEW c \in Calls, NEW st \in Registry!CallStates, Registry!Advance(c, st)
  PROVE  Moved(c, st, call[c].key, call[c].agg)
BY DEF Registry!TypeOK, Registry!Advance, Moved

\* A call that is given an aggregator keeps its key.
LEMMA GrantMoves ==
  ASSUME Registry!TypeOK, NEW c \in Calls, NEW a \in Calls,
         call' = [call EXCEPT ![c] = [st |-> "holding", key |-> @.key, agg |-> a]]
  PROVE  /\ Moved(c, "holding", call[c].key, a)
         /\ call' \in [Calls -> [st : Registry!CallStates, key : Keys \cup {NoCall},
                        agg : Calls \cup {NoCall}]]
BY DEF Registry!TypeOK, Moved, Registry!CallStates

\* The handles on e are the same if every call's membership is.
LEMMA UsersKept ==
  ASSUME NEW e,
         \A d \in Calls :
           (call'[d].st \in {"holding", "releasing"} /\ call'[d].agg = e)
           <=> (call[d].st \in {"holding", "releasing"} /\ call[d].agg = e)
  PROVE  Registry!Users(e)' = Registry!Users(e)
BY DEF Registry!Users, Registry!InState

\* The entries' counts stay right in a step that moves no handle, changes no
\* refcount and only takes entries out.
LEMMA CountsKept ==
  ASSUME NoCall \notin Calls \cup Keys,
         Registry!TypeOK, EntriesCount, refcount' = refcount,
         \A k \in Keys : entry'[k] \in {entry[k], NoCall},
         \A d \in Calls, e \in Calls :
           (call'[d].st \in {"holding", "releasing"} /\ call'[d].agg = e)
           <=> (call[d].st \in {"holding", "releasing"} /\ call[d].agg = e)
  PROVE  EntriesCount'
<1>. SUFFICES ASSUME NEW k \in Keys, NEW e \in Calls, entry'[k] = e
              PROVE  /\ IsFiniteSet(Registry!Users(e)')
                     /\ refcount'[e] > 0
                     /\ refcount'[e] = Cardinality(Registry!Users(e)')
  <2>1. \A k \in Keys : entry'[k] # NoCall => entry'[k] \in Calls
    BY DEF Registry!TypeOK
  <2>. QED  BY <2>1 DEF EntriesCount, Registry!Users, Registry!InState
<1>1. entry[k] = e
  OBVIOUS
<1>2. Registry!Users(e)' = Registry!Users(e)
  BY UsersKept
<1>. QED  BY <1>1, <1>2 DEF EntriesCount

\* Two handles on an entry are one if its count is one.
LEMMA OnlyUser ==
  ASSUME Registry!TypeOK, EntriesCount, NEW k \in Keys, entry[k] # NoCall, refcount[entry[k]] = 1,
         NEW c \in Registry!Users(entry[k]), NEW d \in Registry!Users(entry[k])
  PROVE  c = d
BY FS_Singleton DEF EntriesCount

-----------------------------------------------------------------------------
(* The steps *)

\* A step that only moves call c: to wait, to open, to fail, to give a handle
\* back, or to be over when there is no registry to give it back to.
LEMMA CallMoveKeeps ==
  ASSUME NoCall \notin Calls \cup Keys,
         RegistryInv, Registry!TypeOK', NEW c \in Calls, NEW st \in Registry!CallStates \ {"unused"}, NEW k \in Keys,
         NEW a, Moved(c, st, k, a),
         UNCHANGED <<entry, refcount, aggregator, aborted, dropped, gone>>,
         k = call[c].key \/ call[c].st = "unused",
         st \in {"waiting", "opening"} => ~dropped /\ aggregator[c] = "none",
         st = "opening" => entry[k] = NoCall,
         gone \/ (st \in {"holding", "releasing"} <=> call[c].st \in {"holding", "releasing"}),
         st \in {"holding", "releasing"} =>
           call[c].st \in {"holding", "releasing"} /\ a = call[c].agg
  PROVE  RegistryInv'
<1>. USE DEF RegistryInv, Moved
<1>0. Registry!TypeOK
  OBVIOUS
<1>1. CallsAgree'
  BY DEF CallsAgree, Registry!Found
<1>2. EntriesOwn'
  BY DEF EntriesOwn, CallsAgree, Registry!TypeOK
<1>3. EntriesCount'
  <2>1. CASE gone
    BY <2>1 DEF EntriesCount, TearDownOrder
  <2>2. CASE ~gone
    BY <2>2, CountsKept
  <2>. QED  BY <2>1, <2>2
<1>4. TearDownOrder'
  BY DEF TearDownOrder, Registry!InState
<1>5. Registry!TaskOwned'
  BY DEF Registry!TaskOwned, Registry!Found, CallsAgree
<1>6. AbortedSpawned'
  BY DEF AbortedSpawned
<1>. QED  BY <1>1, <1>2, <1>3, <1>4, <1>5, <1>6

\* A step of one task, which is past its last await afterwards.
LEMMA TaskMoveKeeps ==
  ASSUME NoCall \notin Calls \cup Keys,
         RegistryInv, NEW t \in Calls, NEW st \in {"exiting", "done"},
         aggregator[t] # "none", aggregator' = [aggregator EXCEPT ![t] = st],
         UNCHANGED <<call, lock, entry, refcount, aborted, dropped, gone>>
  PROVE  RegistryInv'
<1>. USE DEF RegistryInv
<1>0. Registry!TypeOK /\ Registry!TypeOK'
  BY DEF Registry!TypeOK
<1>1. CallsAgree'
  BY DEF CallsAgree, Registry!Found, Registry!TypeOK
<1>2. EntriesOwn'
  BY DEF EntriesOwn, Registry!TypeOK
<1>3. EntriesCount'
  BY <1>0, CountsKept
<1>4. TearDownOrder'
  BY DEF TearDownOrder, Registry!InState
<1>5. Registry!TaskOwned'
  BY DEF Registry!TaskOwned, Registry!Found, Registry!TypeOK
<1>6. AbortedSpawned'
  BY DEF AbortedSpawned, Registry!TypeOK
<1>. QED  BY <1>0, <1>1, <1>2, <1>3, <1>4, <1>5, <1>6

\* The steps of a call that touch no entry.
LEMMA SimpleStepsKeep ==
  ASSUME NoCall \notin Calls \cup Keys,
         RegistryInv, NEW c \in Calls,
         \/ \E k \in Keys : Registry!Subscribe(c, k)
         \/ Registry!BeginOpen(c) \/ Registry!OpenFailed(c) \/ Registry!Abandon(c)
         \/ Registry!DropHandle(c) \/ Registry!ReleaseIgnored(c)
  PROVE  RegistryInv'
<1>0. Registry!TypeOK /\ CallsAgree /\ TearDownOrder /\ (dropped => call[c].st \notin {"waiting", "opening"})
  BY DEF RegistryInv, TearDownOrder, Registry!InState
<1>1. ASSUME NEW k \in Keys, Registry!Subscribe(c, k)
      PROVE  RegistryInv'
  <2>1. Moved(c, "waiting", k, NoCall)
    BY <1>0, <1>1 DEF Registry!Subscribe, Moved, Registry!TypeOK
  <2>2. Registry!TypeOK'
    BY <1>0, <1>1 DEF Registry!Subscribe, Registry!TypeOK, Registry!CallStates
  <2>. QED  BY <1>0, <1>1, <2>1, <2>2, CallMoveKeeps DEF Registry!Subscribe, CallsAgree,
                                                         Registry!CallStates
<1>2. CASE Registry!BeginOpen(c)
  <2>1. Moved(c, "opening", call[c].key, call[c].agg)
    BY <1>0, <1>2, AdvanceMoves DEF Registry!BeginOpen, Registry!CallStates
  <2>2. Registry!TypeOK'
    BY <1>0, <1>2 DEF Registry!BeginOpen, Registry!Locks, Registry!Advance, Registry!TypeOK,
                      Registry!CallStates
  <2>. QED  BY <1>0, <1>2, <2>1, <2>2, CallMoveKeeps
            DEF Registry!BeginOpen, Registry!Locks, Registry!Found, CallsAgree,
                Registry!CallStates
<1>3. CASE Registry!OpenFailed(c) \/ Registry!Abandon(c)
  <2>1. Moved(c, "over", call[c].key, call[c].agg)
    BY <1>0, <1>3, AdvanceMoves DEF Registry!OpenFailed, Registry!Abandon, Registry!CallStates
  <2>2. Registry!TypeOK'
    BY <1>0, <1>3 DEF Registry!OpenFailed, Registry!Abandon, Registry!Advance, Registry!TypeOK,
                      Registry!CallStates
  <2>. QED  BY <1>0, <1>3, <2>1, <2>2, CallMoveKeeps
            DEF Registry!OpenFailed, Registry!Abandon, CallsAgree, Registry!CallStates
<1>4. CASE Registry!DropHandle(c)
  <2>1. Moved(c, "releasing", call[c].key, call[c].agg)
    BY <1>0, <1>4, AdvanceMoves DEF Registry!DropHandle, Registry!CallStates
  <2>2. Registry!TypeOK'
    BY <1>0, <1>4 DEF Registry!DropHandle, Registry!Advance, Registry!TypeOK, Registry!CallStates
  <2>. QED  BY <1>0, <1>4, <2>1, <2>2, CallMoveKeeps DEF Registry!DropHandle, CallsAgree,
                                                         Registry!CallStates
<1>5. CASE Registry!ReleaseIgnored(c)
  <2>1. Moved(c, "over", call[c].key, call[c].agg)
    BY <1>0, <1>5, AdvanceMoves DEF Registry!ReleaseIgnored, Registry!CallStates
  <2>2. Registry!TypeOK'
    BY <1>0, <1>5 DEF Registry!ReleaseIgnored, Registry!Locks, Registry!Advance, Registry!TypeOK,
                      Registry!CallStates
  <2>3. gone
    BY <1>0, <1>5 DEF RegistryInv, Registry!ReleaseIgnored, Registry!Locks, Registry!Counted,
                      Registry!Found, CallsAgree, EntriesCount
  <2>. QED  BY <1>0, <1>5, <2>1, <2>2, <2>3, CallMoveKeeps
            DEF Registry!ReleaseIgnored, Registry!Locks, CallsAgree, Registry!CallStates
<1>. QED  BY <1>1, <1>2, <1>3, <1>4, <1>5

\* Join: the key's entry gets one handle more and counts it.
LEMMA JoinKeeps ==
  ASSUME NoCall \notin Calls \cup Keys,
         RegistryInv, NEW c \in Calls, Registry!Join(c)
  PROVE  RegistryInv'
<1>. DEFINE e == Registry!Found(c)
<1>0. /\ Registry!TypeOK /\ call[c].st = "waiting" /\ call[c].key \in Keys /\ e \in Calls
      /\ Moved(c, "holding", call[c].key, e)
      /\ UNCHANGED <<lock, entry, aggregator, aborted, dropped, gone>>
      /\ refcount' = [refcount EXCEPT ![e] = @ + 1]
      /\ call' \in [Calls -> [st : Registry!CallStates, key : Keys \cup {NoCall},
                        agg : Calls \cup {NoCall}]]
  <2>1. Registry!TypeOK /\ call[c].st = "waiting" /\ call[c].key \in Keys
    BY DEF RegistryInv, Registry!Join, Registry!Locks, CallsAgree
  <2>2. e \in Calls
    BY <2>1 DEF Registry!Join, Registry!Found, Registry!TypeOK
  <2>. QED  BY <2>1, <2>2, GrantMoves DEF Registry!Join
<1>1. Registry!TypeOK'
  BY <1>0 DEF Registry!TypeOK, Moved
<1>2. CallsAgree'
  BY <1>0 DEF RegistryInv, CallsAgree, EntriesOwn, Registry!Found, Moved
<1>3. EntriesOwn'
  BY <1>0 DEF RegistryInv, EntriesOwn, Moved, Registry!TypeOK
<1>4. EntriesCount'
  <2>. SUFFICES ASSUME NEW k \in Keys, NEW x \in Calls, entry[k] = x
                PROVE  /\ IsFiniteSet(Registry!Users(x)')
                       /\ refcount'[x] > 0
                       /\ refcount'[x] = Cardinality(Registry!Users(x)')
    BY <1>0 DEF EntriesCount, Registry!Users, Registry!InState, Registry!TypeOK
  <2>1. IsFiniteSet(Registry!Users(x)) /\ refcount[x] \in Nat /\ refcount[x] > 0
        /\ refcount[x] = Cardinality(Registry!Users(x))
    BY <1>0 DEF RegistryInv, EntriesCount, Registry!TypeOK
  <2>2. CASE x = e
    <3>1. Registry!Users(x)' = Registry!Users(x) \cup {c} /\ c \notin Registry!Users(x)
      BY <1>0, <2>2 DEF Registry!Users, Registry!InState, Moved
    <3>2. refcount'[x] = refcount[x] + 1
      BY <1>0, <2>2 DEF Registry!TypeOK
    <3>. QED  BY <2>1, <3>1, <3>2, FS_AddElement
  <2>3. CASE x # e
    <3>1. Registry!Users(x)' = Registry!Users(x)
      BY <1>0, <2>3 DEF Registry!Users, Registry!InState, Moved
    <3>. QED  BY <1>0, <2>1, <2>3, <3>1 DEF Registry!TypeOK
  <2>. QED  BY <2>2, <2>3
<1>5. TearDownOrder'
  BY <1>0 DEF RegistryInv, TearDownOrder, Registry!InState, Moved
<1>6. Registry!TaskOwned'
  BY <1>0 DEF RegistryInv, Registry!TaskOwned, Registry!Found, Moved
<1>7. AbortedSpawned'
  BY <1>0 DEF RegistryInv, AbortedSpawned
<1>. QED  BY <1>1, <1>2, <1>3, <1>4, <1>5, <1>6, <1>7 DEF RegistryInv

\* OpenOk: the holder of the Mutex inserts an entry of its own under a key that
\* still has none, and is its only handle.
LEMMA OpenOkKeeps ==
  ASSUME NoCall \notin Calls \cup Keys,
         RegistryInv, NEW c \in Calls, Registry!OpenOk(c)
  PROVE  RegistryInv'
<1>. DEFINE k == call[c].key
<1>0. /\ Registry!TypeOK /\ call[c].st = "opening" /\ k \in Keys /\ lock = c
      /\ aggregator[c] = "none" /\ entry[k] = NoCall /\ ~dropped /\ ~gone
      /\ Moved(c, "holding", k, c)
      /\ entry' = [entry EXCEPT ![k] = c] /\ refcount' = [refcount EXCEPT ![c] = 1]
      /\ aggregator' = [aggregator EXCEPT ![c] = "running"]
      /\ lock' = NoCall /\ UNCHANGED <<aborted, dropped, gone>>
      /\ call' \in [Calls -> [st : Registry!CallStates, key : Keys \cup {NoCall},
                        agg : Calls \cup {NoCall}]]
  <2>1. Registry!TypeOK /\ call[c].st = "opening" /\ k \in Keys /\ lock = c
        /\ aggregator[c] = "none" /\ entry[k] = NoCall
    BY DEF RegistryInv, Registry!OpenOk, CallsAgree, Registry!Found, Registry!TypeOK
  <2>2. ~dropped /\ ~gone
    BY <2>1 DEF RegistryInv, TearDownOrder, Registry!InState
  <2>. QED  BY <2>1, <2>2, GrantMoves DEF Registry!OpenOk
<1>. HIDE DEF k
<1>1. Registry!TypeOK'
  BY <1>0 DEF Registry!TypeOK, Moved
<1>2. CallsAgree'
  BY <1>0 DEF RegistryInv, CallsAgree, Registry!TypeOK, Registry!Found, Moved
<1>3. c \notin aborted
  BY <1>0 DEF RegistryInv, AbortedSpawned
<1>4. EntriesOwn'
  BY <1>0, <1>3 DEF RegistryInv, EntriesOwn, Moved, Registry!TypeOK
<1>5. EntriesCount'
  <2>. SUFFICES ASSUME NEW j \in Keys, NEW x \in Calls, entry'[j] = x
                PROVE  /\ IsFiniteSet(Registry!Users(x)')
                       /\ refcount'[x] > 0
                       /\ refcount'[x] = Cardinality(Registry!Users(x)')
    BY <1>1 DEF EntriesCount, Registry!Users, Registry!InState, Registry!TypeOK
  <2>1. CASE x = c
    <3>1. Registry!Users(x)' = {c}
      BY <1>0, <2>1 DEF RegistryInv, CallsAgree, Registry!Users, Registry!InState, Moved
    <3>2. refcount'[x] = 1
      BY <1>0, <2>1 DEF Registry!TypeOK
    <3>3. IsFiniteSet({c}) /\ Cardinality({c}) = 1
      BY FS_Singleton
    <3>. QED  BY <3>1, <3>2, <3>3
  <2>2. CASE x # c
    <3>1. entry[j] = x /\ refcount'[x] = refcount[x]
      BY <1>0, <2>2 DEF Registry!TypeOK
    <3>2. Registry!Users(x)' = Registry!Users(x)
      BY <1>0, <2>2 DEF Registry!Users, Registry!InState, Moved
    <3>. QED  BY <3>1, <3>2 DEF RegistryInv, EntriesCount
  <2>. QED  BY <2>1, <2>2
<1>6. TearDownOrder'
  BY <1>0 DEF RegistryInv, TearDownOrder
<1>7. Registry!TaskOwned'
  BY <1>0 DEF RegistryInv, Registry!TaskOwned, Registry!Found, Moved, Registry!TypeOK
<1>8. AbortedSpawned'
  BY <1>0 DEF RegistryInv, AbortedSpawned, Registry!TypeOK
<1>. QED  BY <1>1, <1>2, <1>4, <1>5, <1>6, <1>7, <1>8 DEF RegistryInv

\* Release: the entry that the handle is on loses it; with the last one it is
\* taken out, and no other handle was on it.
LEMMA ReleaseKeeps ==
  ASSUME NoCall \notin Calls \cup Keys,
         RegistryInv, NEW c \in Calls, Registry!Release(c)
  PROVE  RegistryInv'
<1>. DEFINE k == call[c].key
            e == Registry!Found(c)
            last == Registry!LastReference(e)
<1>0. /\ Registry!TypeOK /\ call[c].st = "releasing" /\ k \in Keys /\ e \in Calls /\ e = entry[k]
      /\ call[c].agg = e /\ ~gone
      /\ Moved(c, "over", k, e)
      /\ refcount' = [refcount EXCEPT ![e] = @ - 1] /\ refcount[e] > 0
      /\ entry' = IF last THEN [entry EXCEPT ![k] = NoCall] ELSE entry
      /\ aborted' = IF last THEN aborted \cup {e} ELSE aborted
      /\ UNCHANGED <<lock, aggregator, dropped, gone>>
      /\ call' \in [Calls -> [st : Registry!CallStates, key : Keys \cup {NoCall},
                        agg : Calls \cup {NoCall}]]
      /\ last <=> refcount[e] = 1
  <2>1. Registry!TypeOK /\ call[c].st = "releasing" /\ k \in Keys /\ e = entry[k] /\ ~gone
        /\ call[c].agg = e /\ e \in Calls
    BY DEF RegistryInv, Registry!Release, Registry!Locks, CallsAgree, Registry!Found
  <2>2. Moved(c, "over", k, e)
    BY <2>1, AdvanceMoves DEF Registry!Release, Registry!CallStates
  <2>3. call' \in [Calls -> [st : Registry!CallStates, key : Keys \cup {NoCall},
                        agg : Calls \cup {NoCall}]]
    BY <2>1 DEF Registry!Release, Registry!Advance, Registry!TypeOK, Registry!CallStates
  <2>. QED  BY <2>1, <2>2, <2>3 DEF Registry!Release, Registry!Counted, Registry!Aborted,
                                    Registry!LastReference
<1>. HIDE DEF k, e, last
<1>1. Registry!TypeOK'
  BY <1>0 DEF Registry!TypeOK, Moved
<1>2. last => \A d \in Calls : call[d].st \in {"holding", "releasing"} /\ call[d].agg = e => d = c
  BY <1>0, OnlyUser DEF RegistryInv, Registry!Users, Registry!InState
<1>3. \A j \in Keys : entry[j] = e => j = k
  BY <1>0 DEF RegistryInv, EntriesOwn
<1>4. CallsAgree'
  BY <1>0, <1>2, <1>3 DEF RegistryInv, CallsAgree, Registry!TypeOK, Registry!Found, Moved
<1>5. EntriesOwn'
  <2>1. ASSUME NEW j \in Keys, NEW x \in Calls, entry'[j] = x
        PROVE  /\ entry[j] = x /\ call'[x].key = call[x].key /\ aborted' \subseteq aborted \cup {e}
               /\ x = e => ~last
    BY <1>0, <1>3, <2>1 DEF Moved, Registry!TypeOK, k
  <2>2. \A j \in Keys : entry'[j] # NoCall => entry'[j] \in Calls
    BY <1>1 DEF Registry!TypeOK
  <2>. QED  BY <1>0, <2>1, <2>2 DEF RegistryInv, EntriesOwn
<1>6. EntriesCount'
  <2>. SUFFICES ASSUME NEW j \in Keys, NEW x \in Calls, entry'[j] = x
                PROVE  /\ IsFiniteSet(Registry!Users(x)')
                       /\ refcount'[x] > 0
                       /\ refcount'[x] = Cardinality(Registry!Users(x)')
    BY <1>1 DEF EntriesCount, Registry!Users, Registry!InState, Registry!TypeOK
  <2>1. entry[j] = x
    BY <1>0 DEF Registry!TypeOK
  <2>2. IsFiniteSet(Registry!Users(x)) /\ refcount[x] \in Nat /\ refcount[x] > 0
        /\ refcount[x] = Cardinality(Registry!Users(x))
    BY <1>0, <2>1 DEF RegistryInv, EntriesCount, Registry!TypeOK
  <2>3. CASE x = e
    <3>1. Registry!Users(x)' = Registry!Users(x) \ {c} /\ c \in Registry!Users(x)
      BY <1>0, <2>3 DEF Registry!Users, Registry!InState, Moved
    <3>2. refcount'[x] = refcount[x] - 1 /\ refcount[x] # 1
      BY <1>0, <1>3, <2>1, <2>3 DEF Registry!TypeOK
    <3>. QED  BY <2>2, <3>1, <3>2, FS_RemoveElement
  <2>4. CASE x # e
    <3>1. Registry!Users(x)' = Registry!Users(x)
      BY <1>0, <2>4 DEF Registry!Users, Registry!InState, Moved
    <3>. QED  BY <1>0, <2>2, <2>4, <3>1 DEF Registry!TypeOK
  <2>. QED  BY <2>3, <2>4
<1>7. TearDownOrder'
  BY <1>0 DEF RegistryInv, TearDownOrder, Registry!InState, Moved
<1>8. Registry!TaskOwned'
  <2>. SUFFICES ASSUME NEW t \in Calls, aggregator[t] = "running", t \notin aborted'
                PROVE  entry'[call'[t].key] = t
    BY <1>0 DEF Registry!TaskOwned, Registry!Found
  <2>1. entry[call[t].key] = t /\ call[t].key \in Keys
    BY <1>0 DEF RegistryInv, Registry!TaskOwned, Registry!Found, CallsAgree
  <2>2. call'[t].key = call[t].key
    BY <1>0 DEF Moved, k
  <2>3. last => t # e
    BY <1>0
  <2>. QED  BY <1>0, <2>1, <2>2, <2>3 DEF Registry!TypeOK
<1>9. AbortedSpawned'
  BY <1>0 DEF RegistryInv, AbortedSpawned, EntriesOwn
<1>. QED  BY <1>1, <1>4, <1>5, <1>6, <1>7, <1>8, <1>9 DEF RegistryInv

\* The end of the router.
LEMMA EndKeeps ==
  ASSUME NoCall \notin Calls \cup Keys,
         RegistryInv, Registry!DropRouter \/ Registry!TearDown
  PROVE  RegistryInv'
<1>. USE DEF RegistryInv
<1>1. Registry!TypeOK /\ Registry!TypeOK'
  BY DEF Registry!DropRouter, Registry!TearDown, Registry!TypeOK, Registry!Aborted
<1>2. CallsAgree'
  BY DEF Registry!DropRouter, Registry!TearDown, CallsAgree, Registry!Found, Registry!TypeOK
<1>3. EntriesOwn'
  BY DEF Registry!DropRouter, Registry!TearDown, EntriesOwn
<1>4. EntriesCount'
  BY <1>1, CountsKept DEF Registry!DropRouter, Registry!TearDown
<1>5. TearDownOrder'
  BY DEF Registry!DropRouter, Registry!TearDown, TearDownOrder, Registry!InState
<1>6. Registry!TaskOwned'
  BY DEF Registry!DropRouter, Registry!TearDown, Registry!TaskOwned, Registry!Found,
         Registry!Aborted, CallsAgree, Registry!TypeOK
<1>7. AbortedSpawned'
  BY DEF Registry!DropRouter, Registry!TearDown, AbortedSpawned, EntriesOwn, Registry!Aborted
<1>. QED  BY <1>1, <1>2, <1>3, <1>4, <1>5, <1>6, <1>7

-----------------------------------------------------------------------------
(* The theorems *)

\* The invariant holds in every state of every behaviour: initially because
\* nothing has been spawned, and every step of a caller, a task or the end of
\* the router keeps it.
THEOREM RegistryInvariance == Registry!Spec => []RegistryInv
<1>0. NoCall \notin Calls \cup Keys
  BY RegistryAssumption DEF Registry!Assumptions
<1>1. ASSUME Registry!Init
      PROVE  RegistryInv
  <2>1. Registry!TypeOK
    BY <1>0, <1>1 DEF Registry!Init, Registry!TypeOK, Registry!CallStates
  <2>2. CallsAgree
    BY <1>0, <1>1 DEF Registry!Init, CallsAgree
  <2>3. EntriesOwn /\ EntriesCount /\ TearDownOrder /\ AbortedSpawned /\ Registry!TaskOwned
    BY <1>0, <1>1 DEF Registry!Init, EntriesOwn, EntriesCount, TearDownOrder, AbortedSpawned,
                Registry!TaskOwned
  <2>. QED  BY <2>1, <2>2, <2>3 DEF RegistryInv
<1>2. ASSUME RegistryInv, [Registry!Next]_(Registry!vars)
      PROVE  RegistryInv'
  <2>1. CASE \E c \in Calls, k \in Keys : Registry!Subscribe(c, k)
    BY <1>0, <1>2, <2>1, SimpleStepsKeep
  <2>2. CASE \E c \in Calls : \/ Registry!BeginOpen(c) \/ Registry!OpenFailed(c) \/ Registry!Abandon(c)
                              \/ Registry!DropHandle(c) \/ Registry!ReleaseIgnored(c)
    BY <1>0, <1>2, <2>2, SimpleStepsKeep
  <2>3. CASE \E c \in Calls : Registry!Join(c)
    BY <1>0, <1>2, <2>3, JoinKeeps
  <2>4. CASE \E c \in Calls : Registry!OpenOk(c)
    BY <1>0, <1>2, <2>4, OpenOkKeeps
  <2>5. CASE \E c \in Calls : Registry!Release(c)
    BY <1>0, <1>2, <2>5, ReleaseKeeps
  <2>6. ASSUME NEW t \in Calls, Registry!AutoExits(t) \/ Registry!LoseUpstream(t)
        PROVE  RegistryInv'
    BY <1>0, <1>2, <2>6, TaskMoveKeeps DEF Registry!AutoExits, Registry!LoseUpstream
  <2>7. ASSUME NEW t \in Calls, Registry!Finish(t)
        PROVE  RegistryInv'
    BY <1>0, <1>2, <2>7, TaskMoveKeeps DEF Registry!Finish
  <2>8. CASE Registry!DropRouter \/ Registry!TearDown
    BY <1>0, <1>2, <2>8, EndKeeps
  <2>9. CASE UNCHANGED Registry!vars
    <3>. USE <2>9 DEF Registry!vars
    <3>1. Registry!TypeOK'
      BY <1>2 DEF RegistryInv, Registry!TypeOK
    <3>2. CallsAgree' /\ EntriesOwn'
      BY <1>2 DEF RegistryInv, CallsAgree, EntriesOwn, Registry!Found
    <3>3. EntriesCount'
      <4>1. \A e : Registry!Users(e)' = Registry!Users(e)
        BY DEF Registry!Users, Registry!InState
      <4>. QED  BY <1>2, <4>1 DEF RegistryInv, EntriesCount
    <3>4. TearDownOrder'
      BY <1>2 DEF RegistryInv, TearDownOrder, Registry!InState
    <3>5. AbortedSpawned'
      BY <1>2 DEF RegistryInv, AbortedSpawned
    <3>6. Registry!TaskOwned'
      BY <1>2 DEF RegistryInv, Registry!TaskOwned, Registry!Found
    <3>. QED  BY <3>1, <3>2, <3>3, <3>4, <3>5, <3>6 DEF RegistryInv
  <2>. QED  BY <1>0, <1>2, <2>1, <2>2, <2>3, <2>4, <2>5, <2>6, <2>7, <2>8, <2>9 DEF Registry!Next
<1>. QED  BY <1>1, <1>2, PTL DEF Registry!Spec

\* The registry's state keeps its types, and the Mutex is held across an await
\* by a first subscriber and by nobody else.
THEOREM RegistryTypeCorrect == Registry!Spec => []Registry!TypeOK
<1>1. RegistryInv => Registry!TypeOK
  BY DEF RegistryInv
<1>. QED  BY <1>1, RegistryInvariance, PTL

\* However many subscribes, cancelled or not, and deferred releases interleave,
\* an entry counts its handles exactly, so it leaves the map with the last one.
THEOREM CountsExact == Registry!Spec => []RefcountsExact
<1>1. \A S : Registry!Cardinality(S) = Cardinality(S)
  BY Zenon DEF Registry!Cardinality, Cardinality
<1>2. RegistryInv => RefcountsExact
  BY <1>1 DEF RefcountsExact, RegistryInv, EntriesCount, Registry!RefcountsExact
<1>. QED  BY <1>2, RegistryInvariance, PTL

\* No release by another consumer takes a holder's aggregator out of the map or
\* aborts its task.
THEOREM HoldersKeepEntry == Registry!Spec => []Registry!HolderKeepsEntry
<1>1. RegistryInv => Registry!HolderKeepsEntry
  BY RegistryAssumption DEF Registry!Assumptions, RegistryInv, Registry!HolderKeepsEntry, CallsAgree, EntriesOwn, Registry!Found,
         Registry!TypeOK
<1>. QED  BY <1>1, RegistryInvariance, PTL

\* At most one aggregator is at work per symbol and timeframe.
THEOREM TasksOwned == Registry!Spec => []Registry!TaskOwned
<1>1. RegistryInv => Registry!TaskOwned
  BY DEF RegistryInv
<1>. QED  BY <1>1, RegistryInvariance, PTL

\* A key that nobody uses has no entry and no unaborted aggregator.
THEOREM NoLeaks == Registry!Spec => []NothingLeaks
<1>1. ASSUME RegistryInv, NEW k \in Keys,
             \A c \in Registry!InState({"waiting", "opening", "holding", "releasing"}) : call[c].key # k
      PROVE  entry[k] = NoCall
  <2>. SUFFICES ASSUME entry[k] # NoCall
                PROVE  FALSE
    OBVIOUS
  <2>1. Registry!Users(entry[k]) # {}
    BY <1>1, FS_EmptySet DEF RegistryInv, EntriesCount
  <2>2. PICK c \in Registry!Users(entry[k]) : TRUE
    BY <2>1
  <2>3. call[c].key \in Keys /\ entry[call[c].key] = entry[k]
    BY <1>1, <2>2 DEF RegistryInv, Registry!Users, Registry!InState, CallsAgree, TearDownOrder,
                      Registry!Found
  <2>4. call[c].key = k
    BY <1>1, <2>3 DEF RegistryInv, EntriesOwn
  <2>. QED  BY <1>1, <2>2, <2>4 DEF Registry!Users, Registry!InState
<1>2. ASSUME RegistryInv
      PROVE  NothingLeaks
  BY <1>1, <1>2, RegistryAssumption
     DEF Registry!Assumptions, NothingLeaks, Registry!NothingLeaks, RegistryInv, Registry!TaskOwned, Registry!Found
<1>. QED  BY <1>2, RegistryInvariance, PTL
=============================================================================
