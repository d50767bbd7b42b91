----------------------------- MODULE OrderDesk -----------------------------
(***************************************************************************)
(* The order desk of the desktop application (midas-app): how a click on   *)
(* "confirm" in an order panel or on "submit" at a chart's draft bracket   *)
(* becomes calls of BracketSubmitter::place_bracket, and how their answers *)
(* find the link between the bracket on the chart and its order ids.       *)
(*                                                                         *)
(* The application handles its messages one at a time; the calls are       *)
(* tasks, which end in any order.  Of BracketSubmit only the answer to a   *)
(* call is kept: the ids of the orders, or an error.                       *)
(***************************************************************************)
EXTENDS Naturals, Sequences

CONSTANTS
  Clicks,    \* clicks that submit a bracket
  Symbols,   \* the symbols they may be for
  Unused,    \* the symbol of a click that has not been made
  NoIds      \* the ids of a link that has none yet

\* The orders of a call are named by the click and the code that made the call:
\* the panel's handler, the chart's handler, or the effect SubmitToBroker.
Sources == {"panel", "chart", "effect"}
Handles == Clicks \X Sources

\* What an instance of this module gives its constants.
Assumptions == NoIds \notin Handles /\ Unused \notin Symbols

VARIABLES
  ready,     \* router_order_client is there
  live,      \* per symbol: status of live_bracket in its TickerState
  links,     \* order_annotation_links in the order of created_at
  ibToUuid,  \* ib_to_uuid: pairs of order ids and the click of the link
  calls,     \* calls of place_bracket that have not been answered
  placed,    \* calls whose bracket the broker has taken
  used,      \* per click: its symbol
  overlap    \* history: a click came while a call was under way

vars == <<ready, live, links, ibToUuid, calls, placed, used, overlap>>

Link == [click : Clicks, symbol : Symbols, ids : Handles \cup {NoIds}]

TypeOK ==
  /\ ready \in BOOLEAN
  /\ live \in [Symbols -> {"none", "Draft", "Pending"}]
  /\ links \in Seq(Link)
  /\ ibToUuid \subseteq Handles \X Clicks
  /\ calls \subseteq Handles
  /\ placed \subseteq Handles \ calls
  /\ used \in [Clicks -> Symbols \cup {Unused}]
  /\ overlap \in BOOLEAN

Init ==
  /\ ready \in BOOLEAN
  /\ live = [s \in Symbols |-> "none"]
  /\ links = <<>>
  /\ ibToUuid = {}
  /\ calls = {}
  /\ placed = {}
  /\ used = [c \in Clicks |-> Unused]
  /\ overlap = FALSE

-----------------------------------------------------------------------------
Shows(s, status) == live' = [live EXCEPT ![s] = status]

\* The order client of the router arrives.
RouterReady ==
  /\ ~ready
  /\ ready' = TRUE
  /\ UNCHANGED <<live, links, ibToUuid, calls, placed, used, overlap>>

\* SetBracketMode and EnsureDraftBracket make the live bracket a draft,
\* whatever it was.
EnsureDraft(s) ==
  /\ Shows(s, "Draft")
  /\ UNCHANGED <<ready, links, ibToUuid, calls, placed, used, overlap>>

\* The close button of a bracket on the chart.
CloseBracket(s) ==
  /\ live[s] # "none"
  /\ Shows(s, "none")
  /\ UNCHANGED <<ready, links, ibToUuid, calls, placed, used, overlap>>

\* The calls that a click makes through the submitter, if there is one.
CallsOf(c, sources) == IF ready THEN {c} \X sources ELSE {}

Click(c, s, sources) ==
  /\ used[c] = Unused
  /\ used' = [used EXCEPT ![c] = s]
  /\ calls' = calls \cup CallsOf(c, sources)
  /\ overlap' = (overlap \/ calls # {})

\* ConfirmYes: one call, and BrokerBracketCreated, which replaces the live
\* bracket and adds a link without ids.
ConfirmPanel(c, s) ==
  /\ Click(c, s, {"panel"})
  /\ Shows(s, "Pending")
  /\ links' = Append(links, [click |-> c, symbol |-> s, ids |-> NoIds])
  /\ UNCHANGED <<ready, ibToUuid, placed>>

\* Submit at a bracket: SubmitOrder, of which SubmitToBroker makes a call, then a
\* call by the handler itself.  The bracket leaves the chart; there is no link.
\* Only a draft shows the button, but a click made just before the bracket was
\* confirmed comes after it, and the handler does not look.
SubmitChart(c, s) ==
  /\ live[s] # "none"
  /\ Click(c, s, {"effect", "chart"})
  /\ Shows(s, "none")
  /\ UNCHANGED <<ready, links, ibToUuid, placed>>

-----------------------------------------------------------------------------
\* Mutant: links that have their ids are not passed over.
WaitingOrNot(s) == {k \in DOMAIN links : links[k].symbol = s}

\* The provisional links of s.
Waiting(s) == {k \in DOMAIN links : links[k].symbol = s /\ links[k].ids = NoIds}

\* Mutant: the oldest link is taken.
Oldest(K) == CHOOSE k \in K : \A j \in K : k <= j

MostRecent(K) == CHOOSE k \in K : \A j \in K : j <= k

Answered(h) == calls' = calls \ {h}

\* BracketPlaceResult, Ok: the ids are stamped into the most recent provisional
\* link of the symbol.
Placed(h) ==
  LET waiting == Waiting(used[h[1]])
      k == MostRecent(waiting)
  IN  /\ h[2] # "effect"
      /\ Answered(h)
      /\ placed' = placed \cup {h}
      /\ IF waiting = {} THEN UNCHANGED <<links, ibToUuid>>
         ELSE /\ links' = [links EXCEPT ![k] = [@ EXCEPT !.ids = h]]
              /\ ibToUuid' = ibToUuid \cup {<<h, links[k].click>>}
      /\ UNCHANGED <<ready, live, used, overlap>>

\* BracketPlaceResult, Err: OrderRejected makes a draft of the live bracket of
\* the symbol, whichever that is by now.
PlaceFailed(h) ==
  LET s == used[h[1]]
  IN  /\ h[2] # "effect"
      /\ Answered(h)
      /\ IF live[s] = "none" THEN UNCHANGED live ELSE Shows(s, "Draft")
      /\ UNCHANGED <<ready, links, ibToUuid, placed, used, overlap>>

\* The answer to the call of SubmitToBroker is logged if it is an error.
EffectEnds(h) ==
  /\ h[2] = "effect"
  /\ Answered(h)
  /\ placed' \in {placed, placed \cup {h}}
  /\ UNCHANGED <<ready, live, links, ibToUuid, used, overlap>>

Next ==
  \/ RouterReady
  \/ \E s \in Symbols :
       \/ EnsureDraft(s) \/ CloseBracket(s)
       \/ \E c \in Clicks : ConfirmPanel(c, s) \/ SubmitChart(c, s)
  \/ \E h \in calls : Placed(h) \/ PlaceFailed(h) \/ EffectEnds(h)

Spec == Init /\ [][Next]_vars

-----------------------------------------------------------------------------
Stamped == {k \in DOMAIN links : links[k].ids # NoIds}

\* ib_to_uuid and the links agree: every order id leads to the one link that
\* holds it, so that an event is never shown for two brackets or for an old one,
\* and a link without ids has no orders (BracketPlaceResult, RouterOrderEvent).
IdsTranslate ==
  /\ ibToUuid = {<<links[k].ids, links[k].click>> : k \in Stamped}
  /\ \A k \in Stamped : links[k].ids \in placed
  /\ \A j, k \in Stamped : links[j].ids = links[k].ids => j = k

\* The answer to a confirm in a panel goes to the link of that confirm, if clicks
\* did not overlap with calls: whatever links failed calls, calls never made for
\* want of a router, and chart submits have left behind (BracketPlaceResult).
PanelIdsAreOwn ==
  ~overlap => \A k \in Stamped : links[k].ids[2] = "panel" => links[k].ids[1] = links[k].click

\* The comment of BracketPlaceResult: "the 'most recent' match is correct for
\* sequential submissions", so that all ids in links are those of their clicks.
MostRecentIsOwn == ~overlap => \A k \in Stamped : links[k].ids[1] = links[k].click
=============================================================================
