----------------------------- MODULE SimOrders -----------------------------
(***************************************************************************)
(* SimOrderClient: the order book of the simulated broker                  *)
(* (crates/midas-broker/src/sim/order_client.rs).                          *)
(*                                                                         *)
(* Every method runs under one Mutex and has no await while it holds it,   *)
(* so a call is one step: it takes the book to the book the call leaves.   *)
(*                                                                         *)
(* An order is named by the bracket it belongs to and its leg: next_id is  *)
(* a fetch_add, so ids are unique and nothing depends on their values.     *)
(* One symbol; prices are numbers; a fill is all or nothing, because       *)
(* execute_fill emits all its tranches inside one call.                    *)
(***************************************************************************)
EXTENDS Integers, FiniteSets

CONSTANTS
  Brackets,      \* calls of BracketSubmitter::place_bracket
  Menu,          \* the BracketParams they may be called with
  Configs,       \* the SimOrderConfigs: fill timing, rejection rate, ...
  Prices         \* the prices the market and the legs move over

Legs == {"entry", "tp", "sl"}
Ids == Brackets \X Legs

\* A price of 0 is a leg that is not there.
SlKinds == {"Stop", "StopLimit"}
BracketParams ==
  [side : {"Buy", "Sell"}, kind : {"Market", "Limit"} \cup SlKinds, entry : Prices,
   tp : Prices \cup {0}, sl : Prices \cup {0}, slKind : SlKinds, slLimit : Prices]

SimOrderConfig == [timing : {"instant", "delayed"}, rejectEvery : Nat, flaky : BOOLEAN]

ASSUME PricesAssumption == Prices \subseteq Nat \ {0}
ASSUME MenuAssumption == Menu \subseteq BracketParams
ASSUME ConfigsAssumption == Configs \subseteq SimOrderConfig

VARIABLES
  config,      \* the knobs of the client
  params,      \* per bracket: its BracketParams
  orders,      \* inner.orders: id -> status and the price that triggers it
  links,       \* inner.bracket_links: children linked to their parent
  orderCount   \* inner.order_count, counted modulo the rejection interval

bookVars == <<config, params, orders, links, orderCount>>

\* A child carries the id of its parent.
IsChild(i) == i[2] # "entry"

Statuses == {"none", "Held", "Working", "Triggered", "Filled", "Cancelled", "Rejected"}

\* is_terminal; "none" is an id that is not in the map.
Terminal == {"Filled", "Cancelled", "Rejected"}
IsLive(st) == st \notin Terminal \cup {"none"}

BookTypeOK ==
  /\ config \in Configs
  /\ params \in [Brackets -> Menu]
  /\ orders \in [Ids -> [status: Statuses, at: Prices \cup {0}]]
  /\ links \subseteq {i \in Ids : IsChild(i)}
  /\ orderCount \in Nat

BookInit ==
  /\ config \in Configs
  /\ params \in [Brackets -> Menu]
  /\ orders = [i \in Ids |-> [status |-> "none", at |-> 0]]
  /\ links = {}
  /\ orderCount = 0

-----------------------------------------------------------------------------
\* Fixed facts of an order: entry_spec, tp_spec and sl_spec.
Entry(i) == <<i[1], "entry">>
Kind(i) ==
  CASE i[2] = "entry" -> params[i[1]].kind
    [] i[2] = "tp" -> "Limit"
    [] i[2] = "sl" -> params[i[1]].slKind
SpecPrice(i) == params[i[1]][i[2]]

\* The action of a child is the opposite of its parent's.
IsBuy(i) == (params[i[1]].side = "Buy") = ~IsChild(i)

\* The limit of a stop-limit child is a price of its own, which
\* modify_bracket_leg does not move.  Only a stop leg waits for a trigger.
SlLimit(i) == params[i[1]].slLimit
LimitOk(i, p) == IF IsBuy(i) THEN p <= SlLimit(i) ELSE p >= SlLimit(i)

Sets(o, S, st) ==
  [i \in Ids |-> IF i \in S THEN [status |-> st, at |-> o[i].at] ELSE o[i]]

\* execute_fill of what remains, which is the whole order.
FillAll(o, S) == Sets(o, S, "Filled")

\* cancel_order_inner: a terminal order is left alone.
CancelAll(o, S) == Sets(o, {i \in S : IsLive(o[i].status)}, "Cancelled")

Children(e) == {c \in links : Entry(c) = e /\ IsChild(c)}
Siblings(i) == Children(Entry(i)) \ {i}

\* Mutant: check_oca_inner forgets the siblings.
NoSiblings(i) == {}

\* check_oca_inner: the orders cancelled because i was filled.  An entry has
\* no parent_id.
OcaOf(i) == IF IsChild(i) THEN Siblings(i) ELSE {}

CancelSiblings(o, S) == CancelAll(o, UNION {OcaOf(i) : i \in S})

-----------------------------------------------------------------------------
\* Activation.
Submit(o, e) ==
  Sets(o, {e}, IF Kind(e) = "Market" /\ config.timing = "instant" THEN "Filled" ELSE "Working")

\* Mutant: children are set to work whether or not the parent has filled.
ArmedEarly(o, c) == IF Kind(c) \in SlKinds THEN "Triggered" ELSE "Working"

\* The status given to a held child c.  Stops wait for their trigger; other
\* children work at once if the parent has filled and else are pre-submitted.
Armed(o, c) ==
  IF o[Entry(c)].status = "Filled" /\ Kind(c) \notin SlKinds THEN "Working" ELSE "Triggered"

\* activate_bracket: nothing happens unless the parent is held.
Activate(o, kids, e) ==
  IF o[e].status # "Held" THEN o
  ELSE LET p == Submit(o, e)
       IN  [i \in Ids |->
              IF i \in kids /\ o[i].status = "Held"
              THEN [status |-> Armed(p, i), at |-> o[i].at] ELSE p[i]]

-----------------------------------------------------------------------------
\* The market moves to p.
LimitHits(o, p) ==
  {i \in Ids :
     /\ o[i].status = "Working"
     /\ Kind(i) = "Limit"
     /\ IF IsBuy(i) THEN p <= o[i].at ELSE p >= o[i].at}

\* check_limit_fills: all hits fill, and then the siblings of each go.
AfterLimits(o, p) == CancelSiblings(FillAll(o, LimitHits(o, p)), LimitHits(o, p))

StopHits(o, p) ==
  {i \in Ids :
     /\ o[i].status = "Triggered"
     /\ Kind(i) \in SlKinds
     /\ IF IsBuy(i) THEN p >= o[i].at ELSE p <= o[i].at}

\* check_stop_triggers: a hit goes to work; a stop fills at once and a
\* stop-limit only if its limit admits the price.
AfterStops(o, p) ==
  LET hits == StopHits(o, p)
      fired == {i \in hits : Kind(i) = "Stop" \/ LimitOk(i, p)}
  IN  CancelSiblings(FillAll(Sets(o, hits, "Working"), fired), fired)

\* set_market_price: limits first.
SetMarketPrice(p) ==
  /\ orders' = AfterStops(AfterLimits(orders, p), p)
  /\ UNCHANGED <<config, params, links, orderCount>>

-----------------------------------------------------------------------------
\* Calls of the client, as parts of actions.
NextCount == IF config.rejectEvery = 0 THEN 0 ELSE (orderCount + 1) % config.rejectEvery
Rejects == config.rejectEvery > 0 /\ NextCount = 0

Added(i, st) == [orders EXCEPT ![i] = [status |-> st, at |-> SpecPrice(i)]]

\* What is added to the links of the parent when i is placed.
LinksOf(i) == {c \in {i} : IsChild(c)}

\* place_order of a new id: rejected orders are recorded, but are not linked
\* and activate nothing, and the call still returns Ok.
PlaceOrder(i, transmit) ==
  /\ orders[i].status = "none"
  /\ orderCount' = NextCount
  /\ IF Rejects
     THEN /\ orders' = Added(i, "Rejected")
          /\ UNCHANGED links
     ELSE LET kids == Children(Entry(i)) \cup LinksOf(i)
              held == Added(i, "Held")
          IN  /\ links' = links \cup LinksOf(i)
              /\ orders' = IF transmit THEN Activate(held, kids, Entry(i)) ELSE held
  /\ UNCHANGED <<config, params>>

\* cancel_order: unknown and terminal orders are left as they are, and so are
\* the children of a terminal one.
CancelOrder(i) ==
  /\ orders' = IF IsLive(orders[i].status)
               THEN CancelAll(orders, {i} \cup Children(i))
               ELSE orders
  /\ UNCHANGED <<config, params, links, orderCount>>

\* modify_order of a price: NotFound for an id that is not in the map; the
\* price of a finished order is overwritten too.
ModifyOrder(i, p) ==
  /\ orders[i].status # "none"
  /\ orders' = [orders EXCEPT ![i] = [status |-> @.status, at |-> p]]
  /\ UNCHANGED <<config, params, links, orderCount>>
=============================================================================
