------------------------------ MODULE MCGateway ------------------------------
(***************************************************************************)
(* The IB gateway simulator for TLC.  An instance checks its parts side by *)
(* side: the initial state says which of them moves.                       *)
(***************************************************************************)
EXTENDS Gateway, TLC

VARIABLE part  \* the part that moves

-----------------------------------------------------------------------------
(* Constants of the orders *)

Req(kind, side, limit, aux, qty, parent, oca) ==
  [kind |-> kind, side |-> side, limit |-> limit, aux |-> aux,
   qty |-> qty, parent |-> parent, oca |-> oca]

\* A long bracket over prices 1..4: an entry of some kind, a take-profit, and a
\* stop-loss of either kind.
Bracket(kind, slKind, qty, oca) ==
  <<Req(kind, "Buy", 3, 3, qty, None, oca),
    Req("Limit", "Sell", 4, 0, qty, 1, TRUE),
    Req(slKind, "Sell", 2, 2, qty, 1, TRUE)>>

Brackets ==
  {Bracket(k, s, q, o) : k \in {"Market", "Limit", "Stop", "StopLimit"},
                         s \in {"Stop", "StopLimit"}, q \in {1, 4}, o \in BOOLEAN}

ASSUME BracketsAreBracketed == \A p \in Brackets : Book!IsBracketed(p)

\* A tight and a wide spread around each price.
Spreads == {[mid |-> m, bid |-> m - s, ask |-> m + s] : m \in 1..4, s \in 0..1}

-----------------------------------------------------------------------------
(* Constants of the pacing *)

Request(contract, symbol, show) ==
  [contract |-> contract, symbol |-> symbol, exchange |-> "SMART", show |-> show, bar |-> "1m"]

\* A stock by trades and by quotes, and an option.
StocksAndOption ==
  {Request("stock", "AAPL", "TRADES"), Request("stock", "AAPL", "BID_ASK"),
   Request("call", "MSFT", "TRADES")}

-----------------------------------------------------------------------------

gateway == <<part, book, engine, vars>>

\* A part that does not move starts anywhere it may; one start is enough.
GatewayInit ==
  /\ part \in {"orders", "engine", "pacing"}
  /\ Engine!Init /\ Init
  /\ Book!Init /\ (part # "orders" => plan = Bracket("Market", "Stop", 1, TRUE))

OrdersMove == part = "orders" /\ Book!Next /\ UNCHANGED <<part, engine, vars>>
EngineMoves == part = "engine" /\ Engine!Next /\ UNCHANGED <<part, book, vars>>
PacingMoves == part = "pacing" /\ Next /\ UNCHANGED <<part, book, engine>>

GatewayNext == OrdersMove \/ EngineMoves \/ PacingMoves
GatewaySpec == GatewayInit /\ [][GatewayNext]_gateway

\* Sessions and requests of the engine are interchangeable.
Symmetry == Permutations(Sessions) \cup Permutations(Reqs)

-----------------------------------------------------------------------------
(* Properties beside those of Gateway *)

\* Types, and what else holds of the parts.
Types == Book!TypeOK /\ Engine!TypeOK /\ TypeOK
LinesAreUsed == Engine!LinesAreUsed

\* What the documentation says of the simulator and its code does not keep, one
\* at a time.
OneExit == Book!OneExit
FilledIsFinal == Book!FilledIsFinal
ExecutionsMakePosition == Book!ExecutionsMakePosition
ActiveAfterEntry == Book!ActiveAfterEntry
SlotsAreUsed == Engine!SlotsAreUsed
ActiveWithinCap == Engine!ActiveWithinCap
SnapshotsAreExempt == Engine!SnapshotsAreExempt
OwnerPlacedIt == Engine!OwnerPlacedIt
==============================================================================
