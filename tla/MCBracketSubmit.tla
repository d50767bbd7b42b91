-------------------------- MODULE MCBracketSubmit --------------------------
(* BracketSubmit instantiated for TLC. *)
EXTENDS BracketSubmit, TLC

\* Brackets are interchangeable: every property ranges over all of them.
BracketSymmetry == Permutations(Brackets)

Bracket(side, kind, entry, tp, sl, slKind, slLimit) ==
  [side |-> side, kind |-> kind, entry |-> entry, tp |-> tp, sl |-> sl, slKind |-> slKind,
   slLimit |-> slLimit]

\* Over prices 1..4: a limit bracket that a price can jump over as a whole, a
\* market bracket with a stop-limit whose limit lies beyond its stop, a stop
\* bracket, and one without a stop.
MCMenu ==
  { Bracket("Buy", "Limit", 3, 4, 2, "Stop", 2),
    Bracket("Buy", "Market", 3, 4, 3, "StopLimit", 2),
    Bracket("Sell", "Stop", 2, 1, 3, "Stop", 3),
    Bracket("Sell", "Limit", 2, 1, 0, "Stop", 1) }

Sim(timing, n) == [timing |-> timing, rejectEvery |-> n, flaky |-> FALSE]

\* The simulator as configured by default, with delayed fills, with every third
\* order rejected, and a gateway whose answers may fail.
MCConfigs ==
  { Sim("instant", 0), Sim("delayed", 0), Sim("instant", 3),
    [timing |-> "instant", rejectEvery |-> 0, flaky |-> TRUE] }
=============================================================================
