------------------------------ MODULE SessionBars ------------------------------
(***************************************************************************)
(* The bars of a session chart (midas-bars-adapter: aggregator, midas-bars *)
(* CandleSeries::apply, and the pump of the desktop's SessionChartDriver): *)
(* ticks go through a broadcast ring that overwrites, a bounded channel    *)
(* and the aggregator, which folds them into one bar in progress, into the *)
(* series that is painted.  The provider is SimMarketData, which the       *)
(* application builds for each such chart; it stamps a tick when it sends  *)
(* it.  Its opening burst is over before the first pass of its loop, so    *)
(* stamps do not decrease.  A bar is reduced to its window and to the      *)
(* ticks folded into it.                                                   *)
(***************************************************************************)
EXTENDS Integers, Sequences, FiniteSetsExt, SequencesExt

CONSTANTS
  Prices,              \* of trades
  RingSize,            \* of the provider's broadcast channel
  BufferSize,          \* PUMP_BUFFER, and the tick that the pump waits with
  MaxWindow, MaxTicks  \* bounds: windows that pass and ticks that are sent

\* What an instance of this module gives its constants.
Assumptions ==
  /\ Prices \subseteq Nat /\ Prices # {} /\ {RingSize, BufferSize} \subseteq Nat \ {0}
  /\ {MaxWindow, MaxTicks} \subseteq Nat

VARIABLES
  clock,    \* the bar window that it is now
  sent,     \* history: the ticks of the provider, [win, price, trade]
  missed,   \* history: the ticks that the ring overwrote
  ring,     \* the ticks in the ring that the pump has not read
  closed,   \* the provider has ended the stream
  buffer,   \* the ticks between the pump and the aggregator
  current,  \* SessionedBarAggregator::current, a bar or none
  out,      \* SessionedBarStream::pending and the candle that next returns
  series    \* CandleSeries, row by row
vars == <<clock, sent, missed, ring, closed, buffer, current, out, series>>

Ticks == DOMAIN sent
Bar(win, ticks, done) == [win |-> win, ticks |-> ticks, done |-> done]
None == Bar(0, {}, FALSE)

Init ==
  /\ clock = 1 /\ sent = <<>> /\ missed = {} /\ ring = <<>> /\ closed = FALSE
  /\ buffer = <<>> /\ current = None /\ out = <<>> /\ series = <<>>

\* The next window begins.
NextWindow ==
  /\ clock < MaxWindow /\ clock' = clock + 1
  /\ UNCHANGED <<sent, missed, ring, closed, buffer, current, out, series>>

\* tick_once, or the burst, sends a tick, a trade or a quote; the full ring loses
\* its oldest.
Send(price, trade) ==
  /\ ~closed /\ Len(sent) < MaxTicks
  /\ sent' = Append(sent, [win |-> clock, price |-> price, trade |-> trade])
  /\ LET full == Len(ring) = RingSize
     IN /\ ring' = Append(IF full THEN Tail(ring) ELSE ring, Len(sent) + 1)
        /\ missed' = IF full THEN missed \cup {Head(ring)} ELSE missed
  /\ UNCHANGED <<clock, closed, buffer, current, out, series>>

\* drop_all_subs_with_reason takes the sender away.
Close ==
  /\ ~closed /\ closed' = TRUE
  /\ UNCHANGED <<clock, sent, missed, ring, buffer, current, out, series>>

\* The pump of subscribe_aggregated_bars: it goes on after a lag.
Forward ==
  /\ ring # <<>> /\ Len(buffer) < BufferSize
  /\ buffer' = Append(buffer, Head(ring)) /\ ring' = Tail(ring)
  /\ UNCHANGED <<clock, sent, missed, closed, current, out, series>>

-----------------------------------------------------------------------------
\* accept_tick: the filter of extract_trade, then one of three cases.
Ignore(i) == ~sent[i].trade /\ UNCHANGED <<current, out>>

Open(i) ==
  /\ sent[i].trade /\ current = None
  /\ current' = Bar(sent[i].win, {i}, FALSE) /\ out' = <<current'>>

\* Whether a partial bar is emitted is up to the rate limit, a matter of time.
Fold(i) ==
  /\ sent[i].trade /\ current # None /\ sent[i].win = current.win
  /\ current' = [current EXCEPT !.ticks = @ \cup {i}]
  /\ out' \in {<<>>, <<current'>>}

\* Mutant: the tick that closes a bar is folded into it.
RolloverLate(i) ==
  /\ sent[i].trade /\ current # None /\ sent[i].win # current.win
  /\ current' = Bar(sent[i].win, {i}, FALSE)
  /\ out' = <<[current EXCEPT !.done = TRUE, !.ticks = @ \cup {i}], current'>>
Rollover(i) ==
  /\ sent[i].trade /\ current # None /\ sent[i].win # current.win
  /\ current' = Bar(sent[i].win, {i}, FALSE)
  /\ out' = <<[current EXCEPT !.done = TRUE], current'>>

\* SessionedBarStream::next takes a tick only when nothing is pending.
Accept ==
  /\ out = <<>> /\ buffer # <<>> /\ buffer' = Tail(buffer)
  /\ LET i == Head(buffer) IN Ignore(i) \/ Open(i) \/ Fold(i) \/ Rollover(i)
  /\ UNCHANGED <<clock, sent, missed, ring, closed, series>>

\* CandleSeries::apply: over the last row when it is of the same window.
Applied(bar) ==
  IF series # <<>> /\ Last(series).win = bar.win
  THEN [series EXCEPT ![Len(series)] = bar] ELSE Append(series, bar)

\* The pump of SessionChartDriver.
Apply ==
  /\ out # <<>> /\ out' = Tail(out) /\ series' = Applied(Head(out))
  /\ UNCHANGED <<clock, sent, missed, ring, closed, buffer, current>>

Next ==
  \/ NextWindow \/ Close \/ Forward \/ Accept \/ Apply
  \/ \E price \in Prices, trade \in BOOLEAN : Send(price, trade)

\* The tasks run; the provider need not send and time need not pass.
Fairness == WF_vars(Forward) /\ WF_vars(Accept) /\ WF_vars(Apply)
Spec == Init /\ [][Next]_vars /\ Fairness

-----------------------------------------------------------------------------
\* Every variable has its type, and the channels keep their bounds.
TypeOK ==
  /\ clock \in 1 .. MaxWindow /\ closed \in BOOLEAN
  /\ \A i \in Ticks : sent[i] \in [win : 1 .. clock, price : Prices, trade : BOOLEAN]
  /\ missed \cup Range(ring) \cup Range(buffer) \subseteq Ticks
  /\ Len(ring) <= RingSize /\ Len(buffer) <= BufferSize /\ Len(out) <= 2
  /\ \A bar \in {current} \cup Range(out) \cup Range(series) :
       bar \in [win : 0 .. clock, ticks : SUBSET Ticks, done : BOOLEAN]

TradesOf(win) == {i \in Ticks : sent[i].win = win /\ sent[i].trade}

\* Rows are in the order of their windows, one for each, and only the last
\* can be in progress (CandleSeries is searched by time).
RowsInOrder ==
  \A k \in 1 .. Len(series) - 1 : series[k].win < series[k + 1].win /\ series[k].done

\* A completed bar holds every trade of its window that was not lost on the
\* way, and nothing else: no quote ("quote ticks must never move OHLC").
CompletedHasAll ==
  \A k \in DOMAIN series :
    series[k].done => series[k].ticks = TradesOf(series[k].win) \ missed

\* What is painted is never taken back: rows keep their windows, a row in
\* progress only grows, and a completed one is final.
RowsOnlyGrow ==
  [][\A k \in DOMAIN series :
       /\ k \in DOMAIN series' /\ series'[k].win = series[k].win
       /\ series[k].ticks \subseteq series'[k].ticks
       /\ series[k].done => series'[k] = series[k]]_vars

Painted(i) == \E k \in DOMAIN series : i \in series[k].ticks
Waiting(i) == i \in Ticks /\ sent[i].trade /\ i \notin missed

\* A trade is painted once a trade of a later window has come through.
PaintedAfterRollover ==
  \A i, j \in 1 .. MaxTicks :
    (Waiting(i) /\ j \in Ticks /\ sent[j].trade /\ sent[j].win > sent[i].win)
      ~> (Painted(i) \/ i \in missed \/ j \in missed)

\* "Folded ticks that arrive more frequently than this coalesce into a
\* single emit" (partial_emit_rate_hz): a trade is painted in the end.
TradesArePainted == \A i \in 1 .. MaxTicks : Waiting(i) ~> (Painted(i) \/ i \in missed)

\* flush_if_due exists "so session ends don't wait for a post-close tick":
\* a bar whose window is over is completed.
WindowsComplete ==
  \A win \in 1 .. MaxWindow :
    (\E bar \in Range(series) : bar.win = win /\ win < clock)
      ~> (\E bar \in Range(series) : bar.win = win /\ bar.done)

High(ticks) == Max({sent[i].price : i \in ticks})

\* "The aggregator's OHLC state tolerates skipped ticks (degraded
\* volume/trade_count, same OHLC)": the high of a completed bar is that of its window.
SameHighAfterLag ==
  \A k \in DOMAIN series :
    series[k].done => High(series[k].ticks) = High(TradesOf(series[k].win))

=============================================================================
