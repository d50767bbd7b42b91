-------------------------- MODULE ChartFeedProofs --------------------------
(***************************************************************************)
(* What the charts of the desktop are fed with: the loads, handles and     *)
(* streams of any number of charts, and the history with its live bars     *)
(* that the router loads for one, for every timeframe and every ring.      *)
(***************************************************************************)
EXTENDS ChartData, SequenceTheorems, TLAPS

-----------------------------------------------------------------------------
(* The invariant of the feed *)

Panel == [symbol : Symbols \cup {None}, tf : Timeframes, gen : 0 .. MaxAsk,
          data : History \cup {None}, load : {"empty", "loading", "loaded", "error"}]
Message == Loaded \cup Batch \cup Resync
Warm == [n : 0 .. MaxAsk, key : Keys]
StreamState == [key : Keys, at : {"start", "asking", "live", "ended"}]

FeedTyped ==
  /\ open \subseteq Charts /\ watch \subseteq Symbols /\ tickers \subseteq Symbols
  /\ ready \in BOOLEAN /\ asked \in 0 .. MaxAsk
  /\ chart \in [Charts -> Panel]
  /\ loads \subseteq Load /\ warms \subseteq Warm /\ registry \subseteq Keys
  /\ stream \in [Charts -> StreamState \cup {None}]
  /\ inbox \in [Charts -> Seq(Message)]
  /\ \A c \in Charts : Len(inbox[c]) <= InboxSize

\* The generation of a chart counts handlers.
Counted == \A c \in Charts : chart[c].gen <= asked

FeedInv == FeedTyped /\ Counted /\ DataIsOfSymbol

LEMMA LoadTyped ==
  ASSUME asked' \in 0 .. MaxAsk, NEW c \in Charts, NEW p \in Panel, p.symbol # None,
         NEW restore \in BOOLEAN
  PROVE  LoadOf(c, p, restore) \in Load
  BY DEF LoadOf, Load, Panel

LEMMA WarmsTyped ==
  ASSUME asked' \in 0 .. MaxAsk, NEW S, S \subseteq Charts, NEW s \in Symbols,
         chart \in [Charts -> Panel]
  PROVE  WarmsOf(S, s) \subseteq Warm
  BY DEF WarmsOf, Warm, Keys, Panel

LEMMA AskTyped ==
  ASSUME FeedAssumption, FeedTyped, Ask
  PROVE  asked' \in 0 .. MaxAsk /\ asked' = asked + 1 /\ asked \in Nat
  BY DEF FeedTyped, Ask, FeedAssumption

\* A handler that binds charts: their panels change, the others stay.
LEMMA SetSymbolOK ==
  ASSUME FeedAssumption, FeedInv, NEW S, S \subseteq open, NEW s \in Symbols, SetSymbol(S, s)
  PROVE  FeedInv'
  <1>1. FeedTyped /\ Counted /\ DataIsOfSymbol /\ None \notin Symbols
    BY DEF FeedInv, FeedAssumption
  <1>2. asked' \in 0 .. MaxAsk /\ asked' = asked + 1 /\ asked \in Nat
    BY <1>1, AskTyped DEF SetSymbol
  <1>3. \A c \in Charts :
          chart'[c] = IF c \in S
                      THEN [chart[c] EXCEPT !.symbol = s, !.gen = chart[c].gen + 1,
                                            !.load = "loading", !.data = None]
                      ELSE chart[c]
    BY DEF SetSymbol
  <1>4. chart' = [c \in Charts |-> chart'[c]]
    BY DEF SetSymbol
  <1>5. ASSUME NEW c \in Charts
        PROVE  /\ chart'[c] \in Panel /\ chart'[c].gen <= asked'
               /\ c \in S => chart'[c].symbol = s /\ chart'[c].data = None
               /\ c \notin S => chart'[c] = chart[c]
    <2>1. chart[c] \in Panel /\ chart[c].gen \in 0 .. MaxAsk /\ chart[c].gen <= asked
      BY <1>1 DEF FeedTyped, Panel, Counted
    <2>2. chart[c].gen + 1 \in 0 .. MaxAsk
      BY <1>2, <2>1
    <2>3. CASE c \in S
      <3>1. PICK p : p = [chart[c] EXCEPT !.symbol = s, !.gen = chart[c].gen + 1,
                                          !.load = "loading", !.data = None]
        OBVIOUS
      <3>2. p \in Panel /\ p.symbol = s /\ p.data = None /\ p.gen = chart[c].gen + 1
        BY <2>1, <2>2, <3>1 DEF Panel
      <3>3. chart'[c] = p
        BY <1>3, <2>3, <3>1
      <3>4. chart[c].gen + 1 <= asked + 1
        BY <1>2, <2>1
      <3> QED
        BY <1>2, <2>3, <3>2, <3>3, <3>4
    <2>4. CASE c \notin S
      <3>1. chart'[c] = chart[c]
        BY <1>3, <2>4
      <3>2. chart[c].gen <= asked + 1
        BY <1>2, <2>1
      <3> QED
        BY <1>2, <2>1, <2>4, <3>1, <3>2
    <2> QED
      BY <2>3, <2>4
  <1>6. chart' \in [Charts -> Panel]
    BY <1>4, <1>5
  <1>7. S \subseteq Charts /\ UNCHANGED <<open, watch, ready, stream, inbox>>
    BY <1>1 DEF FeedTyped, SetSymbol
  <1>8. loads' \subseteq Load
    <2>1. \A c \in S : LoadOf(c, chart'[c], FALSE) \in Load
      BY <1>1, <1>2, <1>5, <1>7, LoadTyped
    <2> QED
      BY <1>1, <2>1 DEF SetSymbol, FeedTyped
  <1>9. warms' \subseteq Warm
    BY <1>1, <1>2, <1>7, WarmsTyped DEF SetSymbol, FeedTyped
  <1>10. FeedTyped'
    BY <1>1, <1>2, <1>6, <1>7, <1>8, <1>9 DEF FeedTyped, SetSymbol
  <1>11. Counted'
    BY <1>5 DEF Counted
  <1>12. DataIsOfSymbol'
    <2> SUFFICES ASSUME NEW c \in open, chart'[c].data # None
                 PROVE  chart'[c].data.symbol = chart'[c].symbol
      BY <1>7 DEF DataIsOfSymbol
    <2>1. c \in Charts /\ c \notin S
      BY <1>1, <1>5 DEF FeedTyped
    <2> QED
      BY <1>1, <1>5, <2>1 DEF DataIsOfSymbol
  <1> QED
    BY <1>10, <1>11, <1>12 DEF FeedInv

LEMMA SetTimeframeOK ==
  ASSUME FeedAssumption, FeedInv, NEW S, S \subseteq open, NEW t \in Timeframes,
         SetTimeframe(S, t)
  PROVE  FeedInv'
  <1>1. FeedTyped /\ Counted /\ DataIsOfSymbol /\ None \notin Symbols
    BY DEF FeedInv, FeedAssumption
  <1>2. asked' \in 0 .. MaxAsk /\ asked' = asked + 1 /\ asked \in Nat
    BY <1>1, AskTyped DEF SetTimeframe
  <1>3. \A c \in Charts :
          chart'[c] = IF c \in S
                      THEN [chart[c] EXCEPT !.tf = t,
                              !.load = IF chart[c].symbol = None THEN chart[c].load ELSE "loading"]
                      ELSE chart[c]
    BY DEF SetTimeframe
  <1>4. chart' = [c \in Charts |-> chart'[c]]
    BY DEF SetTimeframe
  <1>5. ASSUME NEW c \in Charts
        PROVE  /\ chart'[c] \in Panel /\ chart'[c].gen = chart[c].gen
               /\ chart'[c].symbol = chart[c].symbol /\ chart'[c].data = chart[c].data
    <2>1. chart[c] \in Panel
      BY <1>1 DEF FeedTyped
    <2>2. CASE c \in S
      <3>1. PICK p : \E x \in {chart[c].load, "loading"} :
                       p = [chart[c] EXCEPT !.tf = t, !.load = x]
        OBVIOUS
      <3> QED
        BY <1>3, <2>1, <2>2 DEF Panel
    <2>3. CASE c \notin S
      BY <1>3, <2>1, <2>3
    <2> QED
      BY <2>2, <2>3
  <1>6. chart' \in [Charts -> Panel]
    BY <1>4, <1>5
  <1>7. S \subseteq Charts /\ UNCHANGED <<open, watch, tickers, ready, warms, stream, inbox>>
    BY <1>1 DEF FeedTyped, SetTimeframe
  <1>8. loads' \subseteq Load
    <2>1. \A c \in S : Bound(c) => LoadOf(c, chart'[c], FALSE) \in Load
      BY <1>1, <1>2, <1>5, <1>7, LoadTyped DEF Bound
    <2> QED
      BY <1>1, <2>1 DEF SetTimeframe, FeedTyped
  <1>9. FeedTyped'
    BY <1>1, <1>2, <1>6, <1>7, <1>8 DEF FeedTyped, SetTimeframe
  <1>10. Counted'
    <2>1. ASSUME NEW c \in Charts PROVE chart[c].gen \in Nat /\ chart[c].gen <= asked
      BY <1>1 DEF Counted, FeedTyped, Panel
    <2> QED
      BY <1>2, <1>5, <2>1 DEF Counted
  <1>11. DataIsOfSymbol'
    BY <1>1, <1>5, <1>7 DEF DataIsOfSymbol, FeedTyped
  <1> QED
    BY <1>9, <1>10, <1>11 DEF FeedInv

\* A step after which a panel has the symbol and the generation it had, and data
\* that are none or of its symbol.
LEMMA PanelsKept ==
  ASSUME FeedInv, FeedTyped', open' \subseteq open, asked' \in {asked, asked + 1},
         \A c \in Charts :
           /\ chart'[c].symbol = chart[c].symbol /\ chart'[c].gen = chart[c].gen
           /\ c \in open /\ chart'[c].data # None =>
                \/ chart'[c].data.symbol = chart[c].symbol
                \/ chart[c].data # None /\ chart'[c].data.symbol = chart[c].data.symbol
  PROVE  FeedInv'
  <1>1. FeedTyped /\ Counted /\ DataIsOfSymbol
    BY DEF FeedInv
  <1>2. Counted'
    <2>1. \A c \in Charts : chart[c].gen \in Nat /\ chart[c].gen <= asked /\ asked \in Nat
      BY <1>1 DEF Counted, FeedTyped, Panel
    <2> QED
      BY <2>1 DEF Counted
  <1>3. DataIsOfSymbol'
    BY <1>1 DEF DataIsOfSymbol, FeedTyped
  <1> QED
    BY <1>2, <1>3 DEF FeedInv

LEMMA ResetOK ==
  ASSUME FeedAssumption, FeedInv, NEW c \in Charts, ResetChart(c)
  PROVE  FeedInv'
  <1>1. FeedTyped /\ asked' \in 0 .. MaxAsk /\ asked' = asked + 1
    BY AskTyped DEF ResetChart, FeedInv
  <1>2. /\ chart' = [chart EXCEPT ![c].load = "loading"] /\ Bound(c)
        /\ UNCHANGED <<open, watch, tickers, ready, warms, registry, stream, inbox>>
    BY DEF ResetChart
  <1>3. /\ chart' \in [Charts -> Panel]
        /\ \A d \in Charts : /\ chart'[d].symbol = chart[d].symbol /\ chart'[d].gen = chart[d].gen
                             /\ chart'[d].data = chart[d].data
    <2>1. PICK p : p = [chart[c] EXCEPT !.load = "loading"]
      OBVIOUS
    <2>2. /\ p \in Panel /\ p.symbol = chart[c].symbol
          /\ p.gen = chart[c].gen /\ p.data = chart[c].data
      BY <1>1, <2>1 DEF FeedTyped, Panel
    <2>3. chart' = [chart EXCEPT ![c] = p]
      BY <1>1, <1>2, <2>1 DEF FeedTyped
    <2> QED
      BY <1>1, <2>2, <2>3 DEF FeedTyped
  <1>4. loads' \subseteq Load
    <2>1. LoadOf(c, chart[c], FALSE) \in Load
      BY <1>1, <1>2, LoadTyped DEF Bound, FeedTyped
    <2> QED
      BY <1>1, <2>1 DEF ResetChart, FeedTyped
  <1>5. FeedTyped'
    BY <1>1, <1>2, <1>3, <1>4 DEF FeedTyped
  <1> QED
    BY <1>1, <1>2, <1>3, <1>5, PanelsKept

LEMMA ActivateOK ==
  ASSUME FeedAssumption, FeedInv, NEW c \in Charts, ActivateChart(c)
  PROVE  FeedInv'
  <1>1. FeedTyped /\ asked' \in 0 .. MaxAsk /\ asked' = asked + 1
    BY AskTyped DEF ActivateChart, FeedInv
  <1>2. chart[c].symbol \in Symbols
    BY <1>1 DEF ActivateChart, Bound, FeedTyped, Panel
  <1>3. warms' \subseteq Warm
    BY <1>1, <1>2, WarmsTyped DEF ActivateChart, FeedTyped
  <1>4. FeedTyped' /\ UNCHANGED <<open, chart>>
    BY <1>1, <1>2, <1>3 DEF FeedTyped, ActivateChart
  <1> QED
    BY <1>1, <1>4, PanelsKept

\* The other handlers and tasks that leave the panels and the inboxes alone.
LEMMA OthersOK ==
  ASSUME FeedInv,
         \/ \E c \in Charts : CloseChart(c) \/ FindHandle(c) \/ Subscribed(c) \/ CloseStream(c)
         \/ \E s \in Symbols : WatchlistRemoveTicker(s)
         \/ \E w \in warms : Prewarmed(w)
         \/ RouterReady \/ Diff \/ UNCHANGED vars
  PROVE  FeedInv'
  <1>1. FeedTyped
    BY DEF FeedInv
  <1>2. UNCHANGED <<chart, inbox, asked, loads>> /\ open' \subseteq open
    BY DEF CloseChart, FindHandle, Subscribed, CloseStream, WatchlistRemoveTicker, Prewarmed,
           RouterReady, Diff, vars, app
  <1>3. /\ watch' \subseteq watch /\ tickers' \subseteq tickers /\ ready' \in BOOLEAN
        /\ warms' \subseteq warms
    BY <1>1 DEF CloseChart, FindHandle, Subscribed, CloseStream, WatchlistRemoveTicker, Prewarmed,
                RouterReady, Diff, vars, app, FeedTyped
  <1>4. stream' \in [Charts -> StreamState \cup {None}] /\ registry' \subseteq Keys
    <2>1. ASSUME NEW c \in Charts, NEW p \in {"live", "asking", "ended"},
                 NEW q, At(c, q), Go(c, p)
          PROVE  stream' \in [Charts -> StreamState \cup {None}]
      BY <1>1, <2>1 DEF FeedTyped, StreamState, At, Go
    <2>2. ASSUME NEW c \in Charts, FindHandle(c) \/ CloseStream(c) \/ Subscribed(c)
          PROVE  stream' \in [Charts -> StreamState \cup {None}]
      BY <2>1, <2>2 DEF FindHandle, CloseStream, Subscribed
    <2>3. ASSUME NEW c \in Charts, Subscribed(c) PROVE registry' \subseteq Keys
      BY <1>1, <2>3 DEF Subscribed, At, FeedTyped, StreamState
    <2>4. CASE Diff
      <3>1. \A c \in Charts : Wanted(c) \in Keys \cup {None}
        BY <1>1 DEF Wanted, Bound, Key, Keys, FeedTyped, Panel
      <3>2. ASSUME NEW c \in Charts
            PROVE  (IF Running(c) = Wanted(c) THEN stream[c]
                    ELSE IF Wanted(c) = None THEN None
                    ELSE [key |-> Wanted(c), at |-> "start"]) \in StreamState \cup {None}
        BY <1>1, <3>1 DEF FeedTyped, StreamState
      <3>3. stream' \in [Charts -> StreamState \cup {None}]
        BY <2>4, <3>2 DEF Diff
      <3> QED
        BY <1>1, <2>4, <3>3 DEF Diff, FeedTyped
    <2>5. ASSUME NEW w \in warms, Prewarmed(w)
          PROVE  stream' = stream /\ registry' \subseteq Keys
      BY <1>1, <2>5 DEF Prewarmed, FeedTyped, Warm
    <2>6. CASE \/ \E c \in Charts : CloseChart(c)
               \/ \E s \in Symbols : WatchlistRemoveTicker(s)
               \/ RouterReady \/ UNCHANGED vars
      BY <1>1, <2>6 DEF CloseChart, WatchlistRemoveTicker, RouterReady, vars, app, FeedTyped
    <2>7. ASSUME NEW c \in Charts, FindHandle(c) \/ CloseStream(c) PROVE registry' \subseteq Keys
      BY <1>1, <2>7 DEF FindHandle, CloseStream, FeedTyped
    <2> QED
      BY <1>1, <2>2, <2>3, <2>4, <2>5, <2>6, <2>7 DEF FeedTyped
  <1>5. FeedTyped'
    BY <1>1, <1>2, <1>3, <1>4 DEF FeedTyped
  <1> QED
    BY <1>2, <1>5, PanelsKept

LEMMA SendTyped ==
  ASSUME FeedTyped, NEW c \in Charts, NEW m \in Message, Send(c, m), InboxSize \in Nat
  PROVE  inbox' \in [Charts -> Seq(Message)] /\ \A d \in Charts : Len(inbox'[d]) <= InboxSize
  <1>1. inbox[c] \in Seq(Message) /\ Len(inbox[c]) < InboxSize /\ Len(inbox[c]) \in Nat
    BY DEF FeedTyped, Send
  <1>2. Append(inbox[c], m) \in Seq(Message) /\ Len(Append(inbox[c], m)) = Len(inbox[c]) + 1
    BY <1>1, AppendProperties
  <1>3. inbox' = [inbox EXCEPT ![c] = Append(inbox[c], m)]
    BY DEF Send
  <1> QED
    BY <1>1, <1>2, <1>3 DEF FeedTyped

LEMMA SendsOK ==
  ASSUME FeedAssumption, FeedInv,
         \/ \E l \in loads, ok \in BOOLEAN : Answer(l, ok)
         \/ \E c \in Charts : SendBars(c)
  PROVE  FeedInv'
  <1>1. FeedTyped /\ InboxSize \in Nat
    BY DEF FeedInv, FeedAssumption
  <1>2. inbox' \in [Charts -> Seq(Message)] /\ \A d \in Charts : Len(inbox'[d]) <= InboxSize
    <2>1. ASSUME NEW l \in loads, NEW ok \in BOOLEAN, Answer(l, ok)
          PROVE  \E c \in Charts, m \in Message : Send(c, m)
      <3>1. l \in Load
        BY <1>1 DEF FeedTyped
      <3>2. l.chart \in Charts
        BY <3>1 DEF Load
      <3>3. [kind |-> "loaded", load |-> l, ok |-> ok, hole |-> FALSE] \in Message
        BY <3>1 DEF Message, Loaded
      <3> QED
        BY <2>1, <3>2, <3>3 DEF Answer
    <2>2. ASSUME NEW c \in Charts, SendBars(c) PROVE \E m \in Message : Send(c, m)
      <3>1. stream[c].key \in Keys
        BY <1>1, <2>2 DEF SendBars, At, FeedTyped, StreamState
      <3>2. [kind |-> "batch", key |-> stream[c].key] \in Message
        BY <3>1 DEF Message, Batch
      <3> QED
        BY <2>2, <3>2 DEF SendBars
    <2> QED
      BY <1>1, <2>1, <2>2, SendTyped
  <1>3. /\ UNCHANGED <<open, chart, watch, tickers, ready, asked, warms, registry, stream>>
        /\ loads' \subseteq loads
    BY DEF Answer, SendBars, app
  <1>4. FeedTyped'
    BY <1>1, <1>2, <1>3 DEF FeedTyped
  <1> QED
    BY <1>3, <1>4, PanelsKept

LEMMA LagOK ==
  ASSUME FeedAssumption, FeedInv, NEW c \in Charts, Lag(c)
  PROVE  FeedInv'
  <1>1. FeedTyped /\ InboxSize \in Nat
    BY DEF FeedInv, FeedAssumption
  <1> DEFINE Missed(m) == IF m.kind = "loaded" /\ m.load.symbol = stream[c].key.symbol
                          THEN [m EXCEPT !.hole = TRUE] ELSE m
             old == [i \in DOMAIN inbox[c] |-> Missed(inbox[c][i])]
             r == [kind |-> "resync"]
  <1>2. /\ inbox' = [inbox EXCEPT ![c] = Append(old, r)] /\ Len(inbox[c]) < InboxSize
        /\ chart' = IF chart[c].data # None /\ chart[c].data.symbol = stream[c].key.symbol
                    THEN [chart EXCEPT ![c].data.hole = TRUE] ELSE chart
        /\ UNCHANGED <<open, watch, tickers, ready, asked, loads, warms, registry, stream>>
    BY DEF Lag
  <1>3. \A m \in Message : Missed(m) \in Message
    <2>1. \A m \in Loaded : [m EXCEPT !.hole = TRUE] \in Loaded
      BY DEF Loaded
    <2>2. \A m \in Batch \cup Resync : m.kind # "loaded"
      BY DEF Batch, Resync
    <2> QED
      BY <2>1, <2>2 DEF Message
  <1> HIDE DEF Missed
  <1>4. inbox[c] \in Seq(Message) /\ DOMAIN inbox[c] = 1 .. Len(inbox[c]) /\ Len(inbox[c]) \in Nat
    BY <1>1 DEF FeedTyped
  <1>5. old \in Seq(Message) /\ Len(old) = Len(inbox[c])
    <2>1. \A i \in 1 .. Len(inbox[c]) : Missed(inbox[c][i]) \in Message
      BY <1>3, <1>4
    <2>2. old \in [1 .. Len(inbox[c]) -> Message]
      BY <1>4, <2>1
    <2> HIDE DEF old
    <2> QED
      BY <1>4, <2>2
  <1>6. r \in Message
    BY DEF Message, Resync
  <1> HIDE DEF old, r
  <1>7. Append(old, r) \in Seq(Message) /\ Len(Append(old, r)) = Len(inbox[c]) + 1
    BY <1>5, <1>6, AppendProperties
  <1>8. inbox' \in [Charts -> Seq(Message)] /\ \A d \in Charts : Len(inbox'[d]) <= InboxSize
    BY <1>1, <1>2, <1>4, <1>7 DEF FeedTyped
  <1>9. /\ chart' \in [Charts -> Panel]
        /\ \A d \in Charts :
             /\ chart'[d].symbol = chart[d].symbol /\ chart'[d].gen = chart[d].gen
             /\ chart'[d].data = chart[d].data
                  \/ (chart[d].data # None /\ chart'[d].data.symbol = chart[d].data.symbol)
    <2>1. CASE chart[c].data # None /\ chart' = [chart EXCEPT ![c].data.hole = TRUE]
      <3>1. chart[c] \in Panel /\ chart[c].data \in History
        BY <1>1, <2>1 DEF FeedTyped, Panel
      <3>2. /\ [chart[c].data EXCEPT !.hole = TRUE] \in History
            /\ [chart[c].data EXCEPT !.hole = TRUE].symbol = chart[c].data.symbol
        BY <3>1 DEF History
      <3>3. PICK h : h = [chart[c].data EXCEPT !.hole = TRUE]
        OBVIOUS
      <3>4. PICK p : p = [chart[c] EXCEPT !.data = h]
        OBVIOUS
      <3>5. p \in Panel /\ p.symbol = chart[c].symbol /\ p.gen = chart[c].gen /\ p.data = h
        BY <3>1, <3>2, <3>3, <3>4 DEF Panel
      <3>6. chart' = [chart EXCEPT ![c] = p]
        BY <2>1, <3>3, <3>4
      <3> QED
        BY <1>1, <2>1, <3>2, <3>3, <3>5, <3>6 DEF FeedTyped
    <2>2. CASE chart' = chart
      BY <1>1, <2>2 DEF FeedTyped
    <2> QED
      BY <1>2, <2>1, <2>2
  <1>10. FeedTyped'
    BY <1>1, <1>2, <1>8, <1>9 DEF FeedTyped
  <1>11. \A d \in Charts :
           chart'[d].data # None =>
             \/ chart[d].data = chart'[d].data
             \/ chart[d].data # None /\ chart'[d].data.symbol = chart[d].data.symbol
    BY <1>9
  <1> QED
    BY <1>2, <1>9, <1>10, <1>11, PanelsKept

LEMMA NextOf ==
  ASSUME FeedTyped, NEW c \in Charts, NEW kind, Next1(c, kind), InboxSize \in Nat
  PROVE  /\ inbox' \in [Charts -> Seq(Message)] /\ \A d \in Charts : Len(inbox'[d]) <= InboxSize
         /\ Head(inbox[c]) \in Message /\ Head(inbox[c]).kind = kind
  <1>1. inbox[c] \in Seq(Message) /\ inbox[c] # <<>> /\ Len(inbox[c]) <= InboxSize
    BY DEF FeedTyped, Next1
  <1>2. /\ Tail(inbox[c]) \in Seq(Message) /\ Head(inbox[c]) \in Message
        /\ Len(Tail(inbox[c])) = Len(inbox[c]) - 1 /\ Len(inbox[c]) \in Nat
    BY <1>1, HeadTailProperties
  <1>3. inbox' = [inbox EXCEPT ![c] = Tail(inbox[c])] /\ Head(inbox[c]).kind = kind
    BY DEF Next1
  <1> QED
    BY <1>1, <1>2, <1>3 DEF FeedTyped

LEMMA HandleOK ==
  ASSUME FeedAssumption, FeedInv, NEW c \in Charts, Handle(c)
  PROVE  FeedInv'
  <1>1. FeedTyped /\ InboxSize \in Nat /\ None \notin Symbols /\ MaxAsk \in Nat
    BY DEF FeedInv, FeedAssumption
  <1>2. CASE Discard(c) \/ ChartResync(c)
    <2>1. /\ Next1(c, "loaded") \/ Next1(c, "resync")
          /\ UNCHANGED <<open, chart, watch, tickers, ready, asked, loads, warms, registry, stream>>
      BY <1>2 DEF Discard, ChartResync, app
    <2>2. inbox' \in [Charts -> Seq(Message)] /\ \A d \in Charts : Len(inbox'[d]) <= InboxSize
      BY <1>1, <2>1, NextOf
    <2>3. FeedTyped'
      BY <1>1, <2>1, <2>2 DEF FeedTyped
    <2> QED
      BY <2>1, <2>3, PanelsKept
  <1>3. CASE Apply(c)
    <2> DEFINE m == Head(inbox[c])
               l == m.load
               h == [symbol |-> l.symbol, tf |-> l.tf, source |-> l.source,
                     live |-> FALSE, hole |-> m.hole]
    <2>1. /\ Next1(c, "loaded") /\ IsCurrent(c, l)
          /\ chart' = [chart EXCEPT ![c].load = "loaded", ![c].data = h]
          /\ warms' = IF l.restore /\ ready THEN warms \cup {[n |-> 0, key |-> Key(c)]} ELSE warms
          /\ tickers' = IF l.restore THEN tickers \cup {l.symbol} ELSE tickers
          /\ UNCHANGED <<open, watch, ready, asked, loads, registry, stream>>
      BY <1>3 DEF Apply
    <2>2. /\ inbox' \in [Charts -> Seq(Message)] /\ \A d \in Charts : Len(inbox'[d]) <= InboxSize
          /\ m \in Message /\ m.kind = "loaded"
      BY <1>1, <2>1, NextOf
    <2>3. m \in Loaded
      BY <2>2 DEF Message, Batch, Resync
    <2>4. l \in Load /\ m.hole \in BOOLEAN
      BY <2>3 DEF Loaded
    <2>5. h \in History /\ h.symbol = chart[c].symbol /\ l.symbol \in Symbols
      BY <2>1, <2>4 DEF History, Load, IsCurrent
    <2>6. Key(c) \in Keys
      BY <1>1, <2>5 DEF Key, Keys, FeedTyped, Panel
    <2> HIDE DEF h, l
    <2>7. /\ chart' \in [Charts -> Panel]
          /\ \A d \in Charts : /\ chart'[d].symbol = chart[d].symbol /\ chart'[d].gen = chart[d].gen
                               /\ chart'[d].data = IF d = c THEN h ELSE chart[d].data
      <3>1. PICK p : p = [chart[c] EXCEPT !.load = "loaded", !.data = h]
        OBVIOUS
      <3>2. p \in Panel /\ p.symbol = chart[c].symbol /\ p.gen = chart[c].gen /\ p.data = h
        BY <1>1, <2>5, <3>1 DEF FeedTyped, Panel
      <3>3. chart' = [chart EXCEPT ![c] = p]
        BY <1>1, <2>1, <3>1 DEF FeedTyped
      <3> QED
        BY <1>1, <3>2, <3>3 DEF FeedTyped
    <2>8. warms' \subseteq Warm /\ tickers' \subseteq Symbols
      BY <1>1, <2>1, <2>5, <2>6 DEF FeedTyped, Warm
    <2>9. FeedTyped'
      BY <1>1, <2>1, <2>2, <2>7, <2>8 DEF FeedTyped
    <2>10. \A d \in Charts : chart'[d].data # None =>
             \/ chart'[d].data.symbol = chart[d].symbol
             \/ chart[d].data # None /\ chart'[d].data.symbol = chart[d].data.symbol
      BY <2>5, <2>7
    <2> QED
      BY <2>1, <2>7, <2>9, <2>10, PanelsKept
  <1>4. CASE LoadError(c)
    <2>1. /\ Next1(c, "loaded")
          /\ chart' = [chart EXCEPT ![c].load = "error",
                         ![c].data = IF Head(inbox[c]).load.restore THEN @ ELSE None]
          /\ UNCHANGED <<open, watch, tickers, ready, asked, loads, warms, registry, stream>>
      BY <1>4 DEF LoadError
    <2>2. inbox' \in [Charts -> Seq(Message)] /\ \A d \in Charts : Len(inbox'[d]) <= InboxSize
      BY <1>1, <2>1, NextOf
    <2>3. /\ chart' \in [Charts -> Panel]
          /\ \A d \in Charts : /\ chart'[d].symbol = chart[d].symbol /\ chart'[d].gen = chart[d].gen
                               /\ chart'[d].data \in {chart[d].data, None}
      <3>1. PICK x : x = IF Head(inbox[c]).load.restore THEN chart[c].data ELSE None
        OBVIOUS
      <3>2. PICK p : p = [chart[c] EXCEPT !.load = "error", !.data = x]
        OBVIOUS
      <3>3. p \in Panel /\ p.symbol = chart[c].symbol /\ p.gen = chart[c].gen /\ p.data = x
        <4>1. chart[c] \in Panel /\ x \in {chart[c].data, None}
          BY <1>1, <3>1 DEF FeedTyped
        <4> QED
          BY <3>2, <4>1 DEF Panel
      <3>4. chart' = [chart EXCEPT ![c] = p]
        BY <1>1, <2>1, <3>1, <3>2 DEF FeedTyped
      <3> QED
        BY <1>1, <3>1, <3>3, <3>4 DEF FeedTyped
    <2>4. FeedTyped'
      BY <1>1, <2>1, <2>2, <2>3 DEF FeedTyped
    <2>5. \A d \in Charts : chart'[d].data # None => chart[d].data = chart'[d].data
      BY <2>3
    <2> QED
      BY <2>1, <2>3, <2>4, <2>5, PanelsKept
  <1>5. CASE Fold(c)
    <2>1. /\ Next1(c, "batch")
          /\ chart' = IF c \in open /\ chart[c].data # None
                      THEN [chart EXCEPT ![c].data.live = TRUE] ELSE chart
          /\ UNCHANGED <<open, watch, tickers, ready, asked, loads, warms, registry, stream>>
      BY <1>5 DEF Fold
    <2>2. inbox' \in [Charts -> Seq(Message)] /\ \A d \in Charts : Len(inbox'[d]) <= InboxSize
      BY <1>1, <2>1, NextOf
    <2>3. /\ chart' \in [Charts -> Panel]
          /\ \A d \in Charts :
               /\ chart'[d].symbol = chart[d].symbol /\ chart'[d].gen = chart[d].gen
               /\ chart'[d].data = chart[d].data
                    \/ (chart[d].data # None /\ chart'[d].data.symbol = chart[d].data.symbol)
      <3>1. CASE chart[c].data # None /\ chart' = [chart EXCEPT ![c].data.live = TRUE]
        <4>1. chart[c] \in Panel /\ chart[c].data \in History
          BY <1>1, <3>1 DEF FeedTyped, Panel
        <4>2. PICK h : h = [chart[c].data EXCEPT !.live = TRUE]
          OBVIOUS
        <4>3. h \in History /\ h.symbol = chart[c].data.symbol
          BY <4>1, <4>2 DEF History
        <4>4. PICK p : p = [chart[c] EXCEPT !.data = h]
          OBVIOUS
        <4>5. p \in Panel /\ p.symbol = chart[c].symbol /\ p.gen = chart[c].gen /\ p.data = h
          BY <4>1, <4>3, <4>4 DEF Panel
        <4>6. chart' = [chart EXCEPT ![c] = p]
          BY <3>1, <4>2, <4>4
        <4> QED
          BY <1>1, <3>1, <4>3, <4>5, <4>6 DEF FeedTyped
      <3>2. CASE chart' = chart
        BY <1>1, <3>2 DEF FeedTyped
      <3> QED
        BY <2>1, <3>1, <3>2
    <2>4. FeedTyped'
      BY <1>1, <2>1, <2>2, <2>3 DEF FeedTyped
    <2>5. \A d \in Charts :
            chart'[d].data # None =>
              \/ chart[d].data = chart'[d].data
              \/ chart[d].data # None /\ chart'[d].data.symbol = chart[d].data.symbol
      BY <2>3
    <2> QED
      BY <2>1, <2>3, <2>4, <2>5, PanelsKept
  <1> QED
    BY <1>2, <1>3, <1>4, <1>5 DEF Handle

LEMMA FeedInit ==
  ASSUME FeedAssumption, Init
  PROVE  FeedInv
  <1>1. PICK s \in [Charts -> Symbols \cup {None}], t \in [Charts -> Timeframes] :
          chart = [c \in Charts |->
                     [symbol |-> s[c], tf |-> t[c], gen |-> 0, data |-> None,
                      load |-> IF s[c] = None THEN "empty" ELSE "loading"]]
    BY DEF Init
  <1>2. 0 \in 0 .. MaxAsk /\ InboxSize \in Nat /\ Watched \subseteq Symbols
    BY DEF FeedAssumption
  <1>3. \A c \in Charts : chart[c] \in Panel /\ chart[c].gen = 0 /\ chart[c].data = None
    BY <1>1, <1>2 DEF Panel
  <1>4. chart \in [Charts -> Panel]
    BY <1>1, <1>3
  <1>5. loads \subseteq Load
    <2>1. ready \in BOOLEAN
          /\ loads = {[n |-> 0, chart |-> c, symbol |-> chart[c].symbol, tf |-> chart[c].tf,
                        gen |-> 0, source |-> IF ready THEN "router" ELSE "provider",
                        restore |-> TRUE] : c \in {d \in Charts : chart[d].symbol # None}}
      BY DEF Init
    <2>2. ASSUME NEW c \in Charts, chart[c].symbol # None
          PROVE  chart[c].symbol \in Symbols /\ chart[c].tf \in Timeframes
      BY <1>3, <2>2 DEF Panel
    <2>3. ASSUME NEW l \in loads PROVE l \in Load
      <3>1. PICK c \in Charts : /\ chart[c].symbol # None
                                /\ l = [n |-> 0, chart |-> c, symbol |-> chart[c].symbol,
                                        tf |-> chart[c].tf, gen |-> 0,
                                        source |-> IF ready THEN "router" ELSE "provider",
                                        restore |-> TRUE]
        BY <2>1
      <3>2. PICK x \in {"router", "provider"} :
               x = IF ready THEN "router" ELSE "provider"
        OBVIOUS
      <3> QED
        BY <1>2, <2>2, <3>1, <3>2 DEF Load
    <2> QED
      BY <2>3
  <1>6. inbox \in [Charts -> Seq(Message)] /\ \A c \in Charts : Len(inbox[c]) <= InboxSize
    <2>1. <<>> \in Seq(Message) /\ Len(<<>>) = 0
      OBVIOUS
    <2>2. inbox = [c \in Charts |-> <<>>]
      BY DEF Init
    <2> QED
      BY <1>2, <2>1, <2>2
  <1>7. FeedTyped
    <2>1. /\ open = Charts /\ ready \in BOOLEAN /\ watch = Watched /\ tickers = Watched
          /\ asked = 0 /\ warms = {} /\ registry = {} /\ stream = [c \in Charts |-> None]
      BY DEF Init
    <2> QED
      BY <1>2, <1>4, <1>5, <1>6, <2>1 DEF FeedTyped
  <1>8. Counted
    <2>1. asked = 0
      BY DEF Init
    <2>2. ASSUME NEW c \in Charts PROVE chart[c].gen <= asked
      <3>1. chart[c].gen = 0
        BY <1>3
      <3> QED
        BY <2>1, <3>1
    <2> QED
      BY <2>2 DEF Counted
  <1>9. DataIsOfSymbol
    BY <1>3 DEF DataIsOfSymbol, Init
  <1> QED
    BY <1>7, <1>8, <1>9 DEF FeedInv

LEMMA FeedStep ==
  ASSUME FeedAssumption, FeedInv, [Next]_vars
  PROVE  FeedInv'
  <1>1. open \subseteq Charts
    BY DEF FeedInv, FeedTyped
  <1>2. ASSUME NEW S \in SUBSET open \ {{}}, NEW s \in Symbols, SetSymbol(S, s)
        PROVE  FeedInv'
    BY <1>2, SetSymbolOK
  <1>3. ASSUME NEW S \in SUBSET open \ {{}}, NEW t \in Timeframes, SetTimeframe(S, t)
        PROVE  FeedInv'
    BY <1>3, SetTimeframeOK
  <1>4. ASSUME NEW c \in Charts, ResetChart(c) \/ ActivateChart(c) \/ Lag(c) \/ Handle(c)
        PROVE  FeedInv'
    BY <1>4, ResetOK, ActivateOK, LagOK, HandleOK
  <1> QED
    BY <1>2, <1>3, <1>4, OthersOK, SendsOK DEF Next, User, Tasks

LEMMA FeedAlways == Spec => []FeedInv
  <1>1. Init => FeedInv
    BY FeedInit, FeedAssumption
  <1>2. FeedInv /\ [Next]_vars => FeedInv'
    BY FeedStep, FeedAssumption
  <1> QED
    BY <1>1, <1>2, PTL DEF Spec

\* The variables have their types; no inbox of a chart holds more than InboxSize.
THEOREM FeedTypeCorrect == Spec => []TypeOK
  <1>1. FeedInv => TypeOK
    <2> SUFFICES ASSUME FeedInv PROVE TypeOK
      OBVIOUS
    <2>1. ASSUME NEW c \in Charts, NEW i \in DOMAIN inbox[c] PROVE inbox[c][i] \in Message
      <3>1. inbox[c] \in Seq(Message)
        BY DEF FeedInv, FeedTyped
      <3> QED
        BY <3>1
    <2> QED
      BY <2>1 DEF FeedInv, FeedTyped, TypeOK, Panel, Warm, StreamState, Message
  <1> QED
    BY <1>1, FeedAlways, PTL

\* In whatever order loads, batches and lags arrive, a chart shows no candles of
\* another symbol.
THEOREM DataAlwaysOfSymbol == Spec => []DataIsOfSymbol
  <1>1. FeedInv => DataIsOfSymbol
    BY DEF FeedInv
  <1> QED
    BY <1>1, FeedAlways, PTL

\* The steps that bind no chart.
LEMMA BindingKept ==
  ASSUME FeedInv,
         \/ \E c \in Charts : ResetChart(c) \/ ActivateChart(c) \/ Handle(c)
         \/ Tasks \/ \E s \in Symbols : WatchlistRemoveTicker(s)
         \/ UNCHANGED vars
  PROVE  /\ open' = open
         /\ \A d \in Charts : chart'[d].symbol = chart[d].symbol /\ chart'[d].tf = chart[d].tf
  <1>1. /\ open' = open
        /\ \/ chart' = chart
           \/ \E c \in Charts :
                \/ \E x : chart' = [chart EXCEPT ![c].load = x]
                \/ \E x, y : chart' = [chart EXCEPT ![c].load = x, ![c].data = y]
                \/ chart' = [chart EXCEPT ![c].data.hole = TRUE]
                \/ chart' = [chart EXCEPT ![c].data.live = TRUE]
    <2>1. ASSUME NEW c \in Charts, Apply(c) PROVE
            open' = open /\ \E x, y : chart' = [chart EXCEPT ![c].load = x, ![c].data = y]
      BY <2>1 DEF Apply
    <2>2. ASSUME NEW c \in Charts, LoadError(c) PROVE
            open' = open /\ \E x, y : chart' = [chart EXCEPT ![c].load = x, ![c].data = y]
      BY <2>2 DEF LoadError
    <2>3. ASSUME NEW c \in Charts, Fold(c) PROVE
            open' = open /\ (chart' = chart \/ chart' = [chart EXCEPT ![c].data.live = TRUE])
      BY <2>3 DEF Fold
    <2>4. ASSUME NEW c \in Charts, Lag(c) PROVE
            open' = open /\ (chart' = chart \/ chart' = [chart EXCEPT ![c].data.hole = TRUE])
      BY <2>4 DEF Lag
    <2>5. ASSUME NEW c \in Charts, ResetChart(c) PROVE
            open' = open /\ \E x : chart' = [chart EXCEPT ![c].load = x]
      BY <2>5 DEF ResetChart
    <2>6. ASSUME NEW c \in Charts, Discard(c) \/ ChartResync(c) \/ ActivateChart(c)
                   \/ FindHandle(c) \/ Subscribed(c) \/ SendBars(c) \/ CloseStream(c)
          PROVE  UNCHANGED <<open, chart>>
      BY <2>6 DEF Discard, ChartResync, ActivateChart, FindHandle, Subscribed, SendBars,
                  CloseStream, app
    <2>7. CASE \/ RouterReady \/ Diff \/ UNCHANGED vars
               \/ \E l \in loads, ok \in BOOLEAN : Answer(l, ok)
               \/ \E w \in warms : Prewarmed(w)
               \/ \E s \in Symbols : WatchlistRemoveTicker(s)
      BY <2>7 DEF RouterReady, Diff, vars, app, Answer, Prewarmed, WatchlistRemoveTicker
    <2> QED
      BY <2>1, <2>2, <2>3, <2>4, <2>5, <2>6, <2>7 DEF Tasks, Handle
  <1>2. chart \in [Charts -> Panel]
    BY DEF FeedInv, FeedTyped
  <1>3. ASSUME NEW c \in Charts, NEW p, chart' = [chart EXCEPT ![c] = p],
               p.symbol = chart[c].symbol, p.tf = chart[c].tf
        PROVE  \A d \in Charts : chart'[d].symbol = chart[d].symbol /\ chart'[d].tf = chart[d].tf
    BY <1>2, <1>3
  <1>4. ASSUME NEW c \in Charts,
               \/ \E x : chart' = [chart EXCEPT ![c].load = x]
               \/ \E x, y : chart' = [chart EXCEPT ![c].load = x, ![c].data = y]
               \/ chart' = [chart EXCEPT ![c].data.hole = TRUE]
               \/ chart' = [chart EXCEPT ![c].data.live = TRUE]
        PROVE  \E p : /\ chart' = [chart EXCEPT ![c] = p]
                      /\ p.symbol = chart[c].symbol /\ p.tf = chart[c].tf
    <2>0. chart[c] \in Panel
      BY <1>2
    <2>1. ASSUME NEW x, chart' = [chart EXCEPT ![c].load = x]
          PROVE  \E p : /\ chart' = [chart EXCEPT ![c] = p]
                        /\ p.symbol = chart[c].symbol /\ p.tf = chart[c].tf
      <3>1. PICK p : p = [chart[c] EXCEPT !.load = x]
        OBVIOUS
      <3>2. chart' = [chart EXCEPT ![c] = p]
        BY <1>2, <2>1, <3>1
      <3>3. p.symbol = chart[c].symbol /\ p.tf = chart[c].tf
        BY <2>0, <3>1 DEF Panel
      <3> QED
        BY <3>2, <3>3
    <2>2. ASSUME NEW x, NEW y, chart' = [chart EXCEPT ![c].load = x, ![c].data = y]
          PROVE  \E p : /\ chart' = [chart EXCEPT ![c] = p]
                        /\ p.symbol = chart[c].symbol /\ p.tf = chart[c].tf
      <3>1. PICK p : p = [chart[c] EXCEPT !.load = x, !.data = y]
        OBVIOUS
      <3>2. chart' = [chart EXCEPT ![c] = p]
        BY <1>2, <2>2, <3>1
      <3>3. p.symbol = chart[c].symbol /\ p.tf = chart[c].tf
        BY <2>0, <3>1 DEF Panel
      <3> QED
        BY <3>2, <3>3
    <2>3. ASSUME NEW h, chart' = [chart EXCEPT ![c].data = h]
          PROVE  \E p : /\ chart' = [chart EXCEPT ![c] = p]
                        /\ p.symbol = chart[c].symbol /\ p.tf = chart[c].tf
      <3>1. PICK p : p = [chart[c] EXCEPT !.data = h]
        OBVIOUS
      <3>2. chart' = [chart EXCEPT ![c] = p]
        BY <1>2, <2>3, <3>1
      <3>3. p.symbol = chart[c].symbol /\ p.tf = chart[c].tf
        BY <2>0, <3>1 DEF Panel
      <3> QED
        BY <3>2, <3>3
    <2>4. CASE chart' = [chart EXCEPT ![c].data.hole = TRUE]
      <3>1. PICK h : h = [chart[c].data EXCEPT !.hole = TRUE]
        OBVIOUS
      <3>2. chart' = [chart EXCEPT ![c].data = h]
        BY <2>4, <3>1
      <3> QED
        BY <2>3, <3>2
    <2>5. CASE chart' = [chart EXCEPT ![c].data.live = TRUE]
      <3>1. PICK h : h = [chart[c].data EXCEPT !.live = TRUE]
        OBVIOUS
      <3>2. chart' = [chart EXCEPT ![c].data = h]
        BY <2>5, <3>1
      <3> QED
        BY <2>3, <3>2
    <2> QED
      BY <1>4, <2>1, <2>2, <2>4, <2>5
  <1> QED
    BY <1>1, <1>3, <1>4

LEMMA SwitchStep ==
  ASSUME FeedInv, [Next]_vars, NEW c \in open, Bound(c), c \notin open' \/ Key(c) # Key(c)'
  PROVE  Key(c) \notin registry'
  <1>1. FeedTyped /\ open \subseteq Charts /\ chart \in [Charts -> Panel]
    BY DEF FeedInv, FeedTyped
  <1>2. ASSUME NEW S \in SUBSET open \ {{}}, NEW s \in Symbols, SetSymbol(S, s)
        PROVE  Key(c) \notin registry'
    <2>1. /\ chart'[c] = IF c \in S
                         THEN [chart[c] EXCEPT !.symbol = s, !.gen = chart[c].gen + 1,
                                               !.load = "loading", !.data = None]
                         ELSE chart[c]
          /\ registry' = registry \ Evicted(S, s) /\ open' = open
      BY <1>1, <1>2 DEF SetSymbol
    <2>2. c \in S /\ chart[c].symbol # s
      BY <1>1, <2>1 DEF Key, Panel
    <2> QED
      BY <2>1, <2>2 DEF Evicted
  <1>3. ASSUME NEW S \in SUBSET open \ {{}}, NEW t \in Timeframes, SetTimeframe(S, t)
        PROVE  Key(c) \notin registry'
    <2>1. /\ \E x : chart'[c] = IF c \in S THEN [chart[c] EXCEPT !.tf = t, !.load = x]
                                ELSE chart[c]
          /\ registry' = registry \ {Key(d) : d \in {e \in S : chart[e].tf # t}}
          /\ open' = open
      BY <1>1, <1>3 DEF SetTimeframe
    <2>2. c \in S /\ chart[c].tf # t
      BY <1>1, <2>1 DEF Key, Panel
    <2> QED
      BY <2>1, <2>2
  <1>4. ASSUME NEW d \in Charts, CloseChart(d) PROVE Key(c) \notin registry'
    BY <1>4 DEF CloseChart, Key
  <1>5. CASE \/ \E d \in Charts : ResetChart(d) \/ ActivateChart(d) \/ Handle(d)
             \/ Tasks \/ \E s \in Symbols : WatchlistRemoveTicker(s)
             \/ UNCHANGED vars
    <2>1. /\ open' = open
          /\ \A d \in Charts : chart'[d].symbol = chart[d].symbol /\ chart'[d].tf = chart[d].tf
      BY <1>5, BindingKept
    <2> QED
      BY <1>1, <2>1 DEF Key
  <1> QED
    BY <1>2, <1>3, <1>4, <1>5 DEF Next, User

\* No step leaves a handle parked under a binding that a chart leaves.
THEOREM SwitchesEvict == Spec => SwitchEvicts
  <1>1. FeedInv /\ [Next]_vars =>
          [\A c \in open : Bound(c) /\ (c \notin open' \/ Key(c) # Key(c)')
                           => Key(c) \notin registry']_vars
    BY SwitchStep
  <1> QED
    BY <1>1, FeedAlways, PTL DEF Spec, SwitchEvicts

-----------------------------------------------------------------------------
(* The history that the router loads: history_then_live *)

\* Until the answer is there, nothing has been given and nothing received.
NothingYet ==
  phase \notin {"streaming", "ended"} =>
    windows = 0 /\ given = 0 /\ live = {} /\ last = 0 /\ next = sub

\* History goes first, and the receiver has not moved before it ends.
HistoryFirst ==
  /\ given < windows => next = sub
  /\ live = {} => last = given * Width
  /\ live # {} => given = windows /\ last <= next

\* The subscription is older than the request for history.
SubscribedFirst ==
  /\ phase = "idle" => sub = 0
  /\ phase \in {"fetching", "streaming", "ended"} => sub <= end
  /\ phase \in {"streaming", "ended"} => windows \in Seam!Histories

SeamInv == Seam!TypeOK /\ NothingYet /\ HistoryFirst /\ SubscribedFirst /\ Seam!LiveHasNoHole

-----------------------------------------------------------------------------
(* Lemmas on whole windows *)

LEMMA DivUnique ==
  ASSUME NEW w \in Nat \ {0}, NEW s \in Nat, NEW q \in Nat, q * w <= s, s < (q + 1) * w
  PROVE  s \div w = q
  OBVIOUS

LEMMA DivBounds ==
  ASSUME NEW w \in Nat \ {0}, NEW s \in Nat
  PROVE  /\ s \div w \in Nat
         /\ (s \div w) * w <= s
         /\ s < (s \div w + 1) * w
  OBVIOUS

LEMMA ProductIsNat ==
  ASSUME NEW m \in Nat, NEW n \in Nat
  PROVE  m * n \in Nat
  OBVIOUS

LEMMA RangeGrows ==
  ASSUME NEW m \in Nat, NEW n \in Nat, m <= n
  PROVE  0..(m - 1) \subseteq 0..(n - 1)
  OBVIOUS

-----------------------------------------------------------------------------
(* The invariant *)

LEMMA SeamInit ==
  ASSUME Width \in Nat \ {0}
  PROVE  Seam!Init => SeamInv
  <1> SUFFICES ASSUME Seam!Init PROVE SeamInv
    OBVIOUS
  <1>1. channel \in BOOLEAN /\ phase \in Seam!Phases
    BY DEF Seam!Init, Seam!Phases
  <1>2. /\ clock = 0 /\ published = 0 /\ missed = {} /\ sub = 0 /\ next = 0
        /\ end = 0 /\ windows = 0 /\ given = 0 /\ live = {} /\ last = 0 /\ phase = "idle"
    BY DEF Seam!Init
  <1>3. Seam!TypeOK
    BY <1>1, <1>2 DEF Seam!TypeOK
  <1>4. NothingYet /\ HistoryFirst /\ SubscribedFirst
    BY <1>2 DEF NothingYet, HistoryFirst, SubscribedFirst
  <1>5. Seam!LiveHasNoHole
    BY <1>2 DEF Seam!LiveHasNoHole
  <1> QED
    BY <1>3, <1>4, <1>5 DEF SeamInv

\* Steps of the market.  What the publisher loses has not been received before.
LEMMA MarketInv ==
  ASSUME Width \in Nat \ {0}, SeamInv, Seam!Tick \/ Seam!Publish \/ Seam!LoseBar \/ Seam!Close
  PROVE  SeamInv'
  <1>1. UNCHANGED <<Seam!callVars, next, given, live, last>>
    BY DEF Seam!Tick, Seam!Publish, Seam!LoseBar, Seam!Close
  <1>2. Seam!TypeOK'
    <2>1. (channel \in BOOLEAN)' /\ (phase \in Seam!Phases)'
      BY <1>1 DEF SeamInv, Seam!TypeOK, Seam!Tick, Seam!Publish, Seam!LoseBar, Seam!Close,
                  Seam!callVars
    <2>2. (clock \in Nat)' /\ (published \in 0..clock)' /\ clock' >= clock
          /\ published' >= published
      BY DEF SeamInv, Seam!TypeOK, Seam!Tick, Seam!Publish, Seam!LoseBar, Seam!Close
    <2>3. \/ missed' = missed
          \/ missed' = missed \cup {published} /\ published' = published + 1
      BY DEF Seam!Tick, Seam!Publish, Seam!LoseBar, Seam!Close
    <2>4. published \in Nat /\ published' \in Nat /\ missed \subseteq 0..(published - 1)
      BY <2>2 DEF SeamInv, Seam!TypeOK
    <2>5. (missed \subseteq 0..(published - 1))'
      <3>1. published <= published'
        BY <2>2, <2>4
      <3>2. CASE missed' = missed
        BY <2>4, <3>1, <3>2, RangeGrows
      <3>3. CASE missed' = missed \cup {published} /\ published' = published + 1
        <4>1. published \in 0..(published' - 1) /\ 0..(published - 1) \subseteq 0..(published' - 1)
          BY <2>4, <3>1, <3>3, RangeGrows
        <4> QED
          BY <2>4, <3>3, <4>1
      <3> QED
        BY <2>3, <3>2, <3>3
    <2>6. (/\ next \in 0..published /\ sub \in 0..next /\ end \in 0..clock
           /\ windows \in Nat /\ given \in 0..windows
           /\ live \subseteq 0..(next - 1) /\ last \in Nat)'
      BY <1>1, <2>2 DEF SeamInv, Seam!TypeOK, Seam!callVars
    <2> QED
      BY <2>1, <2>2, <2>5, <2>6 DEF Seam!TypeOK
  <1>3. NothingYet' /\ HistoryFirst'
    BY <1>1 DEF SeamInv, NothingYet, HistoryFirst, Seam!callVars
  <1>5. Seam!LiveHasNoHole'
    <2>1. sub \in Nat /\ next \in Nat /\ published \in Nat /\ next <= published
      BY DEF SeamInv, Seam!TypeOK
    <2>2. missed' = missed \/ missed' = missed \cup {published}
      BY DEF Seam!Tick, Seam!Publish, Seam!LoseBar, Seam!Close
    <2>3. \A slot \in sub..(next - 1) : slot \in missed' <=> slot \in missed
      BY <2>1, <2>2
    <2> QED
      BY <1>1, <2>3 DEF SeamInv, Seam!LiveHasNoHole, Seam!tServer, Seam!callVars
  <1>4. SubscribedFirst'
    BY <1>1 DEF SeamInv, SubscribedFirst, Seam!Histories, Seam!callVars
  <1> QED
    BY <1>2, <1>3, <1>4, <1>5 DEF SeamInv

\* Steps of the call.
LEMMA CallInv ==
  ASSUME Width \in Nat \ {0}, SeamInv, Seam!Subscribe \/ Seam!Ask \/ Seam!Fail \/ Seam!Answer
  PROVE  SeamInv'
  <1> USE DEF SeamInv, Seam!TypeOK, Seam!marketVars, Seam!Phases
  <1>1. CASE Seam!Subscribe
    <2>1. Seam!TypeOK' /\ NothingYet' /\ HistoryFirst' /\ SubscribedFirst'
      BY <1>1 DEF Seam!Subscribe, NothingYet, HistoryFirst, SubscribedFirst
    <2>2. Seam!LiveHasNoHole'
      BY <1>1 DEF Seam!Subscribe, NothingYet, Seam!LiveHasNoHole
    <2> QED
      BY <2>1, <2>2
  <1>2. CASE Seam!Ask
    <2>1. Seam!TypeOK' /\ NothingYet' /\ HistoryFirst' /\ SubscribedFirst'
      BY <1>2 DEF Seam!Ask, NothingYet, HistoryFirst, SubscribedFirst
    <2>2. Seam!LiveHasNoHole'
      BY <1>2 DEF Seam!Ask, Seam!LiveHasNoHole, Seam!tServer
    <2> QED
      BY <2>1, <2>2
  <1>3. CASE Seam!Fail
    <2>1. Seam!TypeOK' /\ NothingYet' /\ HistoryFirst' /\ SubscribedFirst'
      BY <1>3 DEF Seam!Fail, NothingYet, HistoryFirst, SubscribedFirst
    <2>2. Seam!LiveHasNoHole'
      BY <1>3 DEF Seam!Fail, Seam!LiveHasNoHole, Seam!tServer
    <2> QED
      BY <2>1, <2>2
  <1>4. CASE Seam!Answer
    <2>1. end \div Width \in Nat
      BY DivBounds
    <2>2. windows' \in Nat \ {0} /\ windows' \in Seam!Histories'
      BY <1>4, <2>1 DEF Seam!Answer, Seam!Histories
    <2>3. /\ given' = 0 /\ live' = {} /\ last' = 0 /\ next' = sub /\ sub' = sub
          /\ phase' = "streaming" /\ phase = "fetching"
      BY <1>4 DEF Seam!Answer, NothingYet
    <2>4. Seam!TypeOK'
      BY <1>4, <2>2, <2>3 DEF Seam!Answer
    <2>5. NothingYet' /\ HistoryFirst' /\ SubscribedFirst' /\ Seam!LiveHasNoHole'
      BY <1>4, <2>2, <2>3 DEF Seam!Answer, NothingYet, HistoryFirst, SubscribedFirst,
                              Seam!LiveHasNoHole
    <2> QED
      BY <2>4, <2>5
  <1> QED
    BY <1>1, <1>2, <1>3, <1>4

LEMMA PollHistoryInv ==
  ASSUME Width \in Nat \ {0}, SeamInv, Seam!PollHistory
  PROVE  SeamInv'
  <1>1. /\ phase = "streaming" /\ given \in Nat /\ windows \in Nat /\ given < windows
        /\ given' = given + 1 /\ last' = given' * Width
        /\ UNCHANGED <<Seam!marketVars, Seam!callVars, next, live>>
    BY DEF Seam!PollHistory, SeamInv, Seam!TypeOK
  <1>2. live = {} /\ next = sub
    BY <1>1 DEF SeamInv, Seam!TypeOK, HistoryFirst
  <1>3. last' \in Nat
    BY <1>1, ProductIsNat
  <1>4. Seam!TypeOK'
    BY <1>1, <1>3 DEF SeamInv, Seam!TypeOK, Seam!marketVars, Seam!callVars
  <1>5. NothingYet' /\ SubscribedFirst' /\ Seam!LiveHasNoHole'
    BY <1>1 DEF SeamInv, NothingYet, SubscribedFirst, Seam!Histories, Seam!LiveHasNoHole,
                Seam!tServer, Seam!callVars,
           Seam!marketVars
  <1>6. HistoryFirst'
    BY <1>1, <1>2 DEF HistoryFirst, Seam!callVars
  <1> QED
    BY <1>4, <1>5, <1>6 DEF SeamInv

LEMMA PollLiveInv ==
  ASSUME Width \in Nat \ {0}, SeamInv, Seam!PollLive
  PROVE  SeamInv'
  <1>1. PICK slot \in Seam!Unread :
          /\ \A other \in Seam!Unread : slot <= other
          /\ next' = slot + 1
          /\ IF Seam!Keeps(slot)
             THEN live' = live \cup {slot} /\ last' = slot + 1
             ELSE UNCHANGED <<live, last>>
    BY DEF Seam!PollLive, Seam!Following
  <1>2. /\ phase = "streaming" /\ given = windows
        /\ UNCHANGED <<Seam!marketVars, Seam!callVars, given>>
    BY DEF Seam!PollLive, Seam!Tail
  <1>3. /\ next \in Nat /\ sub \in Nat /\ published \in Nat /\ sub <= next
        /\ last \in Nat /\ windows \in Nat /\ Seam!tServer \in Nat
    BY ProductIsNat DEF SeamInv, Seam!TypeOK, Seam!tServer
  <1>4. slot \in Nat /\ next <= slot /\ slot < published /\ slot \notin missed
    BY <1>1, <1>3 DEF Seam!Unread
  <1>5. \A other \in next..(slot - 1) : other \in missed
    BY <1>1, <1>3, <1>4 DEF Seam!Unread
  <1>6. (sub..(next' - 1)) \ missed = ((sub..(next - 1)) \ missed) \cup {slot}
    BY <1>1, <1>3, <1>4, <1>5
  <1>7. Seam!tServer' = Seam!tServer /\ missed' = missed /\ sub' = sub
    BY <1>2 DEF Seam!tServer, Seam!callVars, Seam!marketVars
  <1>8. Seam!LiveHasNoHole'
    <2>1. CASE slot > Seam!tServer
      BY <1>1, <1>6, <1>7, <2>1 DEF Seam!Keeps, SeamInv, Seam!LiveHasNoHole
    <2>2. CASE ~(slot > Seam!tServer)
      BY <1>1, <1>6, <1>7, <2>2 DEF Seam!Keeps, SeamInv, Seam!LiveHasNoHole
    <2> QED
      BY <2>1, <2>2
  <1>9. Seam!TypeOK'
    <2>1. live' \subseteq 0..(next' - 1)
      BY <1>1, <1>3, <1>4, <1>7, <1>8 DEF Seam!LiveHasNoHole
    <2>2. last' \in Nat
      BY <1>1, <1>3, <1>4
    <2> QED
      BY <1>1, <1>2, <1>3, <1>4, <2>1, <2>2 DEF SeamInv, Seam!TypeOK, Seam!marketVars, Seam!callVars
  <1>10. NothingYet' /\ SubscribedFirst'
    BY <1>2 DEF SeamInv, NothingYet, SubscribedFirst, Seam!Histories, Seam!callVars
  <1>11. HistoryFirst'
    BY <1>1, <1>2, <1>3, <1>4 DEF SeamInv, HistoryFirst, Seam!callVars
  <1> QED
    BY <1>8, <1>9, <1>10, <1>11 DEF SeamInv

LEMMA EndsInv ==
  ASSUME Width \in Nat \ {0}, SeamInv, Seam!Tail, Seam!Ends
  PROVE  SeamInv'
  BY DEF SeamInv, Seam!TypeOK, NothingYet, HistoryFirst, SubscribedFirst, Seam!Histories,
         Seam!LiveHasNoHole,
         Seam!tServer, Seam!Tail, Seam!Ends, Seam!marketVars, Seam!Phases

LEMMA SeamStep ==
  ASSUME Width \in Nat \ {0}
  PROVE  SeamInv /\ [Seam!Next]_(Seam!vars) => SeamInv'
  <1> SUFFICES ASSUME SeamInv, [Seam!Next]_(Seam!vars) PROVE SeamInv'
    OBVIOUS
  <1>1. CASE Seam!PollLagged \/ Seam!PollClosed
    BY <1>1, EndsInv DEF Seam!PollLagged, Seam!PollClosed
  <1>2. CASE UNCHANGED Seam!vars
    BY <1>2 DEF Seam!vars, Seam!marketVars, Seam!callVars, SeamInv, Seam!TypeOK, NothingYet,
                HistoryFirst,
                SubscribedFirst, Seam!Histories, Seam!LiveHasNoHole, Seam!tServer
  <1> QED
    BY <1>1, <1>2, MarketInv, CallInv, PollHistoryInv, PollLiveInv DEF Seam!Next

LEMMA WidthIsPositive == Width \in Nat \ {0}
  BY SeamAssumption DEF Seam!Assumptions

LEMMA SeamAlways == Seam!Spec => []SeamInv
  <1>1. Seam!Init => SeamInv
    BY WidthIsPositive, SeamInit
  <1>2. SeamInv /\ [Seam!Next]_(Seam!vars) => SeamInv'
    BY WidthIsPositive, SeamStep
  <1> QED
    BY <1>1, <1>2, PTL DEF Seam!Spec

-----------------------------------------------------------------------------
(* The theorems *)

\* The variables have their types; the receiver is never ahead of the ring.
THEOREM SeamTypeCorrect == Seam!Spec => []Seam!TypeOK
  <1>1. SeamInv => Seam!TypeOK
    BY DEF SeamInv
  <1> QED
    BY <1>1, SeamAlways, PTL

\* GuardedStream leaves no hole in the live part, whatever the ring holds.
THEOREM LiveIsWhole == Seam!Spec => []LiveHasNoHole
  <1>1. SeamInv => LiveHasNoHole
    BY DEF SeamInv, Seam!LiveHasNoHole, LiveHasNoHole
  <1> QED
    BY <1>1, SeamAlways, PTL

\* For every timeframe, all that is missing is the bar at t_server and bars of
\* the window in which history was asked for.
THEOREM OnlySeam == Seam!Spec => []OnlySeamIsMissing
  <1>1. SeamInv => OnlySeamIsMissing
    <2> SUFFICES ASSUME SeamInv, Seam!Tail, NEW slot \in (0..(next - 1)) \ missed,
                        ~(slot < Seam!tServer), slot \notin live, slot # Seam!tServer
                 PROVE  slot < sub /\ slot \div Width = end \div Width
      BY DEF OnlySeamIsMissing, Seam!OnlySeamIsMissing
    <2>1. /\ slot \in Nat /\ sub \in Nat /\ next \in Nat /\ end \in Nat
          /\ windows \in Nat /\ Seam!tServer \in Nat
      BY WidthIsPositive, ProductIsNat DEF SeamInv, Seam!TypeOK, Seam!tServer
    <2>2. slot > Seam!tServer
      BY <2>1
    <2>3. slot < sub
      BY <2>1, <2>2 DEF SeamInv, Seam!LiveHasNoHole
    <2>4. sub <= end /\ windows \in {end \div Width, end \div Width + 1}
      BY DEF SeamInv, SubscribedFirst, Seam!Tail, Seam!Histories
    <2> DEFINE q == end \div Width
    <2>5. q \in Nat /\ q * Width <= end /\ end < (q + 1) * Width
      BY <2>1, WidthIsPositive, DivBounds
    <2>6. slot < (q + 1) * Width
      <3>1. (q + 1) * Width \in Nat
        BY <2>5, WidthIsPositive, ProductIsNat
      <3> HIDE DEF q
      <3> QED
        BY <2>1, <2>3, <2>4, <2>5, <3>1
    <2>7. q * Width <= slot
      <3>1. CASE windows = q
        BY <2>1, <2>2, <3>1 DEF Seam!tServer
      <3>2. CASE windows = q + 1
        BY <2>1, <2>2, <2>6, <3>2 DEF Seam!tServer
      <3> QED
        BY <2>4, <3>1, <3>2
    <2>8. slot \div Width = q
      <3> HIDE DEF q
      <3> QED
        BY <2>1, <2>5, <2>6, <2>7, WidthIsPositive, DivUnique
    <2> QED
      BY <2>3, <2>8
  <1> QED
    BY <1>1, SeamAlways, PTL

\* The bars of the stream never overlap and never go back.
THEOREM BarsInOrder == Seam!Spec => InOrder
  <1>1. SeamInv /\ [Seam!Next]_(Seam!vars) =>
          [/\ given' # given => given * Width >= last
           /\ \A slot \in live' \ live : slot >= last]_(Seam!vars)
    <2> SUFFICES ASSUME SeamInv, Seam!Next
                 PROVE  /\ given' # given => given * Width >= last
                        /\ \A slot \in live' \ live : slot >= last
      BY DEF Seam!vars
    <2>1. CASE Seam!PollHistory
      <3>1. live = {} /\ live' = live
        BY <2>1 DEF Seam!PollHistory, SeamInv, Seam!TypeOK, HistoryFirst
      <3>2. given * Width = last /\ given * Width \in Nat
        BY <3>1, ProductIsNat DEF SeamInv, Seam!TypeOK, HistoryFirst
      <3> QED
        BY <3>1, <3>2
    <2>2. CASE Seam!PollLive
      <3>1. PICK slot \in Seam!Unread :
              IF Seam!Keeps(slot) THEN live' = live \cup {slot} ELSE live' = live
        BY <2>2 DEF Seam!PollLive
      <3>2. given' = given /\ given = windows
        BY <2>2 DEF Seam!PollLive, Seam!Tail
      <3>3. next \in Nat /\ last \in Nat /\ Seam!tServer \in Nat /\ slot \in Nat /\ next <= slot
        BY WidthIsPositive, ProductIsNat DEF SeamInv, Seam!TypeOK, Seam!tServer, Seam!Unread
      <3>4. live' # live => live' = live \cup {slot} /\ slot >= last
        BY <3>1, <3>2, <3>3 DEF SeamInv, HistoryFirst, Seam!tServer, Seam!Keeps
      <3> QED
        BY <3>2, <3>4
    <2>3. CASE ~(Seam!PollHistory \/ Seam!PollLive)
      <3>1. given' = given /\ live' = live
        BY <2>3 DEF Seam!Next, Seam!Tick, Seam!Publish, Seam!LoseBar, Seam!Close,
                    Seam!Subscribe, Seam!Ask, Seam!Fail, Seam!Answer, Seam!PollLagged,
                    Seam!PollClosed, Seam!Ends
      <3> QED
        BY <3>1
    <2> QED
      BY <2>1, <2>2, <2>3
  <1> QED
    BY <1>1, SeamAlways, PTL DEF Seam!Spec, InOrder, Seam!InOrder
=============================================================================
