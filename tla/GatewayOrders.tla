--------------------------- MODULE GatewayOrders ---------------------------
(***************************************************************************)
(* BasicOrderSimulator, the orders of the IB gateway simulator             *)
(* (crates/midas-ib-sim/src/orders).                                       *)
(*                                                                         *)
(* The engine loop owns the simulator and calls it for a message of the    *)
(* client or for a snapshot of the market, so a call is one step.  A       *)
(* snapshot collects the orders it may fill first and then fills them one  *)
(* after the other in the order of their ids; each fill may activate or    *)
(* cancel others.                                                          *)
(*                                                                         *)
(* One symbol.  Quantities are round lots, prices are numbers of ticks;    *)
(* what an order was filled at, and hence cash and profit, is left out.    *)
(***************************************************************************)
EXTENDS Integers, Sequences

CONSTANTS
  LastId,            \* the last of the order ids, which are numbers
  Plans,             \* the PlaceOrderReqs of a session, per id
  Quotes,            \* the MarketSnapshots: mid, bid and ask
  PartialThreshold,  \* partial_threshold, in lots
  None               \* no parent, no order, no group

Ids == 1 .. LastId
Kinds == {"Market", "Limit", "Stop", "StopLimit"}
Stops == {"Stop", "StopLimit"}
PlaceOrderReq ==
  [kind : Kinds, side : {"Buy", "Sell"}, limit : Nat, aux : Nat,
   qty : Nat \ {0}, parent : Ids \cup {None}, oca : BOOLEAN]

VARIABLES
  plan,      \* the requests of this session, fixed
  orders,    \* orders: id -> OrderRecord
  groups,    \* brackets: parent id -> BracketGroup
  told,      \* per id: the status last reported to the client
  executed,  \* per id: the shares of all its Executions
  moved      \* per id: the shares its fills have applied to the account

vars == <<plan, orders, groups, told, executed, moved>>

Statuses ==
  {"PreSubmitted", "Submitted", "PartiallyFilled", "Filled", "Cancelled", "Inactive"}

Init ==
  /\ plan \in Plans
  /\ orders = [i \in Ids |-> None]
  /\ groups = [i \in Ids |-> None]
  /\ told = [i \in Ids |-> None]
  /\ executed = [i \in Ids |-> 0]
  /\ moved = [i \in Ids |-> 0]

Placed == {i \in Ids : orders[i] # None}

-----------------------------------------------------------------------------
(* OrderRecord::transition *)

\* transition_allowed between the statuses an order rests in.
Allowed(kind, from, to) ==
  \/ to = "Cancelled" /\ from \notin {"Filled", "Cancelled"}
  \/ from = "Inactive" /\ to \in {"PreSubmitted", "Submitted"}
  \/ from = "PreSubmitted" /\ to = "Submitted"
  \/ from = "Submitted" /\ to \in {"PartiallyFilled", "Filled"}
  \/ from = "PartiallyFilled" /\ to = "Filled"
  \/ from = "PreSubmitted" /\ to \in {"PartiallyFilled", "Filled"} /\ kind \notin Stops

Transition(o, to) == IF Allowed(o.kind, o.status, to) THEN [o EXCEPT !.status = to] ELSE o

-----------------------------------------------------------------------------
(* The fill model *)

\* maybe_fill latches a stop that the mid price has reached.
Latched(o, q) ==
  o.triggered \/ /\ o.kind \in Stops
                 /\ IF o.side = "Buy" THEN q.mid >= o.aux ELSE q.mid <= o.aux
Crosses(o, q) == IF o.side = "Buy" THEN q.ask <= o.limit ELSE q.bid >= o.limit

\* maybe_fill returns a fill.
Fills(o, q) ==
  /\ o.kind \in Stops => Latched(o, q)
  /\ o.kind \in {"Limit", "StopLimit"} => Crosses(o, q)

\* partial_chunks: each but the last chunk is 20% to 50% of what remains,
\* rounded, and two lots or less are not split further.
Larger(a, b) == IF a > b THEN a ELSE b
Piece(rem) == Larger(1, (2 * rem + 5) \div 10)..(rem \div 2)
Chunkings(qty) ==
  LET cut[rem \in 0..qty, n \in 1..4] ==
        IF n = 1 \/ rem <= 2 THEN {<<rem>>}
        ELSE UNION {{<<p>> \o c : c \in cut[rem - p, n - 1]} : p \in Piece(rem)}
  IN  UNION {cut[qty, n] : n \in 2..4}

\* What the draws of an order give: the chunks of pattern C, which only large
\* orders can get, or a single one.  They depend on the seed, the id and the
\* quantity only, so an order has them from the start.
Chunks(qty) == {<<qty>>} \cup IF qty > PartialThreshold THEN Chunkings(qty) ELSE {}

\* Pattern C has an execution for each of two chunks, whatever their number.
Reported(o) == IF Len(o.chunks) = 1 THEN o.chunks[1] ELSE o.chunks[1] + o.chunks[2]

-----------------------------------------------------------------------------
(* The records of the book *)

\* An order for qty.
OrderRecord(qty) ==
  [kind : Kinds, side : {"Buy", "Sell"}, limit : Nat, aux : Nat, parent : Ids \cup {None},
   chunks : Chunks(qty), remaining : {0, qty}, triggered : BOOLEAN, status : Statuses]
BracketGroup ==
  [tp : Ids \cup {None}, sl : Ids \cup {None},
   state : {"ParentWorking", "ParentFilled", "OneChildFilled"}]

\* What an instance of this module gives its constants.
Assumptions ==
  /\ LastId \in Nat
  /\ \A p \in Plans : p \in [Ids -> PlaceOrderReq]
  /\ None \notin Ids \cup BracketGroup
  /\ \A p \in Plans, i \in Ids : None \notin OrderRecord(p[i].qty)
  /\ \A q \in Quotes : {q.mid, q.bid, q.ask} \subseteq Nat /\ q.bid <= q.mid /\ q.mid <= q.ask
  /\ PartialThreshold \in Nat /\ PartialThreshold >= 2

\* A plan whose exits are those of brackets: of a parent at most one take-profit,
\* a limit, and at most one stop-loss, on the same side, with its trigger on the
\* other side of the take-profit's price.  Nobody checks that it is one.
IsBracketed(p) ==
  \A i, j \in Ids :
    /\ p[i].parent # None => p[i].kind # "Market"
    /\ i # j /\ p[i].parent # None /\ p[j].parent = p[i].parent
         => (p[i].kind \in Stops) # (p[j].kind \in Stops)
    /\ p[i].parent # None /\ p[j].parent = p[i].parent /\ p[i].kind = "Limit" /\ p[j].kind \in Stops
         => /\ p[j].side = p[i].side
            /\ IF p[i].side = "Sell" THEN p[j].aux < p[i].limit ELSE p[i].limit < p[j].aux

-----------------------------------------------------------------------------
(* finalize_fill, on the book: the variables but `plan' as a record *)

Book == [orders |-> orders, groups |-> groups, told |-> told,
         executed |-> executed, moved |-> moved]

Children(g) == {g.tp, g.sl} \ {None}

\* The steps of the pattern and the account.  A status of Filled is reported
\* whether or not the record takes it.
Executes(b, i) ==
  LET o == b.orders[i]
      part == IF Len(o.chunks) = 1 THEN o ELSE Transition(o, "PartiallyFilled")
  IN  [b EXCEPT !.orders[i] = [Transition(part, "Filled") EXCEPT !.remaining = 0],
                !.told[i] = "Filled",
                !.executed[i] = @ + IF o.remaining = 0 THEN 0 ELSE Reported(o),
                !.moved[i] = @ + o.remaining]

\* Mutant: only the take-profit is activated.
ActivatesTarget(b, i) ==
  LET g == b.groups[i] IN
  IF g = None \/ g.state # "ParentWorking" \/ g.tp = None THEN b
  ELSE [b EXCEPT !.orders[g.tp] = Transition(@, "Submitted"),
                 !.told[g.tp] = "Submitted",
                 !.groups[i].state = "ParentFilled"]

\* The first fill of a parent activates the children it has, and reports them
\* as Submitted whether or not their records take it.
Activates(b, i) ==
  LET g == b.groups[i] IN
  IF g = None \/ g.state # "ParentWorking" THEN b
  ELSE [b EXCEPT
         !.orders = [j \in Ids |-> IF j \in Children(g) THEN Transition(@[j], "Submitted")
                                   ELSE @[j]],
         !.told = [j \in Ids |-> IF j \in Children(g) THEN "Submitted" ELSE @[j]],
         !.groups[i].state = "ParentFilled"]

\* Mutant: the sibling stays.
KeepsSibling(b, i) == b

\* A fill of a child cancels its sibling.
CancelsSibling(b, i) ==
  LET p == b.orders[i].parent
      siblings == IF p = None \/ i \notin Children(b.groups[p]) THEN {}
                  ELSE Children(b.groups[p]) \ {i}
      gone == {j \in siblings : Allowed(b.orders[j].kind, b.orders[j].status, "Cancelled")}
  IN  IF siblings = {} THEN b
      ELSE [b EXCEPT
             !.orders = [j \in Ids |-> IF j \in gone THEN Transition(@[j], "Cancelled")
                                       ELSE @[j]],
             !.told = [j \in Ids |-> IF j \in gone THEN "Cancelled" ELSE @[j]],
             !.groups[p].state = "OneChildFilled"]

FinalizeFill(b, i) == CancelsSibling(Activates(Executes(b, i), i), i)

-----------------------------------------------------------------------------
(* OrderSimulator *)

\* BracketGroup with a new child in it: the latest of its kind counts.
WithChild(g, i, kind) ==
  LET group == IF g = None THEN [tp |-> None, sl |-> None, state |-> "ParentWorking"] ELSE g
  IN  IF kind \in Stops THEN [group EXCEPT !.sl = i] ELSE [group EXCEPT !.tp = i]

\* Mutant: a child is not held.
PlaceWorking(i) ==
  LET p == plan[i].parent IN
  /\ p # None
  /\ groups' = [groups EXCEPT ![p] = WithChild(@, i, plan[i].kind)]
  /\ told' = [told EXCEPT ![i] = "PreSubmitted"]

\* place of a child: it is held until its parent fills.
PlaceChild(i) ==
  LET p == plan[i].parent IN
  /\ p # None
  /\ groups' = [groups EXCEPT ![p] = WithChild(@, i, plan[i].kind)]
  /\ told' = [told EXCEPT ![i] = "Inactive"]

\* place of any other order.
PlaceParent(i) ==
  /\ plan[i].parent = None
  /\ groups' = [groups EXCEPT ![i] =
       IF @ = None /\ plan[i].oca
       THEN [tp |-> None, sl |-> None, state |-> "ParentWorking"] ELSE @]
  /\ told' = [told EXCEPT ![i] =
       IF plan[i].kind = "Limit" THEN "Submitted" ELSE "PreSubmitted"]

\* place: a second order of the same id is rejected, as are malformed requests,
\* which no plan has.
Place(i) ==
  /\ orders[i] = None
  /\ PlaceChild(i) \/ PlaceParent(i)
  /\ \E c \in Chunks(plan[i].qty) :
       orders' = [orders EXCEPT ![i] =
         [kind |-> plan[i].kind, side |-> plan[i].side, limit |-> plan[i].limit,
          aux |-> plan[i].aux, parent |-> plan[i].parent, chunks |-> c,
          remaining |-> plan[i].qty, triggered |-> FALSE, status |-> told'[i]]]
  /\ UNCHANGED <<plan, executed, moved>>

\* cancel: of an order that is not filled and not cancelled, others are rejected.
Cancel(i) ==
  /\ orders[i] # None
  /\ Allowed(orders[i].kind, orders[i].status, "Cancelled")
  /\ orders' = [orders EXCEPT ![i] = Transition(@, "Cancelled")]
  /\ told' = [told EXCEPT ![i] = "Cancelled"]
  /\ UNCHANGED <<plan, groups, executed, moved>>

\* The candidates of a snapshot.
Candidates ==
  {i \in Placed : orders[i].status \in {"PreSubmitted", "Submitted", "PartiallyFilled"}}

\* One candidate: the stop is latched, and the order filled if the price is right,
\* whatever became of it since it was made a candidate.
Meets(b, i, q) ==
  LET latched == [b EXCEPT !.orders[i].triggered = Latched(b.orders[i], q)]
  IN  IF Fills(b.orders[i], q) THEN FinalizeFill(latched, i) ELSE latched

\* The book after the candidates up to n have met the snapshot, in the order of
\* their ids.
Visited(q) ==
  LET visited[n \in 0 .. LastId] ==
        IF n = 0 THEN Book
        ELSE IF n \in Candidates THEN Meets(visited[n - 1], n, q) ELSE visited[n - 1]
  IN  visited

\* on_market_snapshot.
Snapshot(q) ==
  LET b == Visited(q)[LastId] IN
  /\ orders' = b.orders /\ groups' = b.groups /\ told' = b.told
  /\ executed' = b.executed /\ moved' = b.moved
  /\ UNCHANGED plan

Next ==
  \/ \E i \in Ids : Place(i) \/ Cancel(i)
  \/ \E q \in Quotes : Snapshot(q)

Spec == Init /\ [][Next]_vars

-----------------------------------------------------------------------------
(* Properties *)

\* The types of the variables; no record rests in PartiallyFilled, as a fill emits
\* all its steps at once.
TypeOK ==
  /\ plan \in Plans
  /\ \A i \in Ids :
       /\ \/ orders[i] = None
          \/ orders[i] \in OrderRecord(plan[i].qty) /\ orders[i].status # "PartiallyFilled"
       /\ groups[i] = None \/ groups[i] \in BracketGroup
       /\ told[i] \in Statuses \cup {None}
  /\ executed \in [Ids -> Nat] /\ moved \in [Ids -> Nat]

\* An order moves the position by its whole quantity or not at all, however
\* often a snapshot finds it again (on_market_snapshot, finalize_fill).
FillsOnce == \A i \in Ids : moved[i] \in {0, plan[i].qty}

\* An exit never executes before its entry has (place, finalize_fill).
EntryFirst ==
  \A i \in Ids : plan[i].parent # None /\ moved[i] > 0 => moved[plan[i].parent] > 0

\* The fill of an entry leaves none of the exits it then has inactive
\* (finalize_fill).
ExitsArmed ==
  [][\A i \in Placed :
       LET p == plan[i].parent IN
       p # None /\ moved[p] = 0 /\ moved'[p] > 0 => orders'[i].status # "Inactive"]_vars

\* What is cancelled before a snapshot does not execute in it or later (cancel,
\* on_market_snapshot).
CancelledStays ==
  [][\A i \in Placed :
       orders[i].status = "Cancelled" =>
         moved'[i] = moved[i] /\ orders'[i].status = "Cancelled"]_vars

Exits(p) == {i \in Ids : plan[i].parent = p /\ moved[i] > 0}

\* Of the exits of a bracket at most one executes, when none is a stop-limit:
\* that one may be latched and then meet the same snapshot as its sibling
\* (finalize_fill).
OneExitUnlessLatched ==
  \A p \in Ids : (\A i \in Exits(p) : plan[i].kind # "StopLimit") =>
                   \A i, j \in Exits(p) : i = j

\* What the documentation says of brackets: when a child fills, the other is
\* cancelled.
OneExit == \A p \in Ids : \A i, j \in Exits(p) : i = j

\* What it says of stops: a triggered stop is filled for good, and what was
\* reported as filled stays so.
FilledIsFinal == [][\A i \in Ids : told[i] = "Filled" => told'[i] = "Filled"]_vars

\* What it says of partial fills: each chunk has its execution, and executions
\* add up to the position.
ExecutionsMakePosition == executed = moved

\* What it says of children: they are active after their parent has filled.
ActiveAfterEntry ==
  \A i \in Placed :
    plan[i].parent # None /\ moved[plan[i].parent] > 0 => orders[i].status # "Inactive"
=============================================================================
