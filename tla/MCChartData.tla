----------------------------- MODULE MCChartData -----------------------------
(***************************************************************************)
(* The data of the charts for TLC.  An instance checks its parts side by   *)
(* side: the initial state says which of them moves.                       *)
(***************************************************************************)
EXTENDS ChartData, TLC

CONSTANTS c1, aapl, msft, m1, d1
VARIABLE part  \* the part that moves

\* Symbols are alike, and so are timeframes.
Alike == Permutations({aapl, msft}) \cup Permutations({m1, d1})
InWatchlist == {aapl}
NoneWatched == {}

-----------------------------------------------------------------------------
chartData == <<part, vars, seam>>

\* A part that does not move starts anywhere it may; one start is enough: for
\* the charts, empty ones before the connection.
ChartDataInit ==
  /\ part \in {"feed", "seam"}
  /\ Init /\ (part = "seam" => ~ready /\ loads = {} /\ \A c \in Charts : chart[c].tf = m1)
  /\ Seam!Init

\* A step of the charts, and one of the stream.
OfFeed(step) == part = "feed" /\ step /\ UNCHANGED <<part, seam>>
OfSeam(step) == part = "seam" /\ step /\ UNCHANGED <<part, vars>>

ChartDataNext == OfFeed(Next) \/ OfSeam(Seam!Next)

\* The fairness of the charts; the stream promises nothing that needs any.
ChartDataFairness ==
  /\ WF_chartData(OfFeed(Diff))
  /\ \A c \in Charts : /\ WF_chartData(OfFeed(FindHandle(c)))
                       /\ WF_chartData(OfFeed(Subscribed(c)))
                       /\ WF_chartData(OfFeed(Handle(c)))
  /\ WF_chartData(OfFeed(\E l \in loads, ok \in BOOLEAN : Answer(l, ok)))

ChartDataSpec == ChartDataInit /\ [][ChartDataNext]_chartData /\ ChartDataFairness
==============================================================================
