--------------------------- MODULE BracketSubmit ---------------------------
(***************************************************************************)
(* BracketSubmitter (crates/midas-broker/src/bracket.rs) at work on an     *)
(* order client, with the market moving between any two of its calls.      *)
(*                                                                         *)
(* place_bracket is a task: it obtains its order ids, places entry,        *)
(* take-profit and stop-loss, and cancels what it placed when a placement  *)
(* fails.  cancel_bracket is another: it cancels leg after leg.            *)
(*                                                                         *)
(* The order client is SimOrderClient, or (config.flaky) IbOrderClient in  *)
(* front of a gateway that keeps its book as the simulator does: a call    *)
(* may then fail or time out, and the request may have been taken or not.  *)
(* Requests are not reordered: they travel on one connection.              *)
(***************************************************************************)
EXTENDS SimOrders

CONSTANT MaxModifies   \* bound: drags of a leg

ASSUME MaxModifiesAssumption == MaxModifies \in Nat

VARIABLES
  pc,         \* per bracket: the next call of place_bracket
  failedAt,   \* per bracket: the call that failed
  canceller,  \* per bracket: the leg that cancel_bracket cancels next
  lost,       \* brackets of which a cancel request was lost
  modifies    \* how many drags there were

taskVars == <<pc, failedAt, canceller, lost>>
vars == <<bookVars, taskVars, modifies>>

Ended == {"done", "failed"}

TypeOK ==
  /\ BookTypeOK
  /\ pc \in [Brackets -> {"idle", "undoEntry", "undoTp"} \cup Legs \cup Ended]
  /\ failedAt \in [Brackets -> {"none", "ids"} \cup Legs]
  /\ canceller \in [Brackets -> {"none", "done"} \cup Legs]
  /\ lost \subseteq Brackets
  /\ modifies \in 0..MaxModifies

Init ==
  /\ BookInit
  /\ pc = [b \in Brackets |-> "idle"]
  /\ failedAt = [b \in Brackets |-> "none"]
  /\ canceller = [b \in Brackets |-> "none"]
  /\ lost = {}
  /\ modifies = 0

-----------------------------------------------------------------------------
Has(b, leg) == leg = "entry" \/ params[b][leg] # 0
LegsOf(b) == {leg \in Legs : Has(b, leg)}
IdsOf(b) == {<<b, leg>> : leg \in LegsOf(b)}

\* The leg after this one in the order entry, tp, sl; end if it is the last.
Following(b, leg, end) ==
  IF leg = "entry" /\ Has(b, "tp") THEN "tp"
  ELSE IF leg # "sl" /\ Has(b, "sl") THEN "sl"
  ELSE end

\* The transmit flag: set on the last leg only.
Transmit(b, leg) == Following(b, leg, "done") = "done"

Goes(b, to) == pc' = [pc EXCEPT ![b] = to]

\* The app calls place_bracket, and next_order_id answers for every leg, as
\* soon as the connection is Ready.
Call(b) ==
  /\ pc[b] = "idle"
  /\ Goes(b, "entry")
  /\ UNCHANGED <<bookVars, failedAt, canceller, lost, modifies>>

\* next_order_id fails: the sender of the connection state is gone, or the
\* adapter's time-out.
NoIds(b) ==
  /\ pc[b] = "idle"
  /\ Goes(b, "failed")
  /\ failedAt' = [failedAt EXCEPT ![b] = "ids"]
  /\ UNCHANGED <<bookVars, canceller, lost, modifies>>

Place(b) ==
  /\ pc[b] \in Legs
  /\ PlaceOrder(<<b, pc[b]>>, Transmit(b, pc[b]))
  /\ Goes(b, Following(b, pc[b], "done"))
  /\ UNCHANGED <<failedAt, canceller, lost, modifies>>

\* Mutant: the error of a placement is returned without undoing anything.
NoUndo(b) == "failed"

\* Where a failed placement leads: a failed entry is just reported.
Undo(b) == IF pc[b] = "entry" THEN "failed" ELSE "undoEntry"

\* place_order fails, whether or not the gateway has taken the order.
PlaceFails(b) ==
  /\ config.flaky
  /\ pc[b] \in Legs
  /\ \/ PlaceOrder(<<b, pc[b]>>, Transmit(b, pc[b]))
     \/ UNCHANGED bookVars
  /\ Goes(b, Undo(b))
  /\ failedAt' = [failedAt EXCEPT ![b] = pc[b]]
  /\ UNCHANGED <<canceller, lost, modifies>>

\* One cancel of a leg of b, whose result nobody looks at.  It may be lost.
TryCancel(b, i) ==
  \/ CancelOrder(i) /\ UNCHANGED lost
  \/ config.flaky /\ lost' = lost \cup {b} /\ UNCHANGED bookVars

\* The best-effort cancels after a failed placement.
UndoEntry(b) ==
  /\ pc[b] = "undoEntry"
  /\ TryCancel(b, <<b, "entry">>)
  /\ Goes(b, IF failedAt[b] = "sl" /\ Has(b, "tp") THEN "undoTp" ELSE "failed")
  /\ UNCHANGED <<failedAt, canceller, modifies>>

UndoTp(b) ==
  /\ pc[b] = "undoTp"
  /\ TryCancel(b, <<b, "tp">>)
  /\ Goes(b, "failed")
  /\ UNCHANGED <<failedAt, canceller, modifies>>

-----------------------------------------------------------------------------
\* cancel_bracket, of a bracket whose handle the app has.
StartCancel(b) ==
  /\ pc[b] = "done"
  /\ canceller[b] = "none"
  /\ canceller' = [canceller EXCEPT ![b] = "entry"]
  /\ UNCHANGED <<bookVars, pc, failedAt, lost, modifies>>

\* Mutant: cancel_bracket stops after the entry.
StopsAtEntry(b) ==
  /\ canceller[b] \in Legs
  /\ TryCancel(b, <<b, canceller[b]>>)
  /\ canceller' = [canceller EXCEPT ![b] = "done"]
  /\ UNCHANGED <<pc, failedAt, modifies>>

CancelLeg(b) ==
  /\ canceller[b] \in Legs
  /\ TryCancel(b, <<b, canceller[b]>>)
  /\ canceller' = [canceller EXCEPT ![b] = Following(b, @, "done")]
  /\ UNCHANGED <<pc, failedAt, modifies>>

\* modify_bracket_leg: an exit of a placed bracket is dragged, to any price.
Drag(b, leg, p) ==
  /\ pc[b] = "done"
  /\ modifies < MaxModifies
  /\ modifies' = modifies + 1
  /\ ModifyOrder(<<b, leg>>, p)
  /\ UNCHANGED taskVars

MarketMoves(p) ==
  /\ SetMarketPrice(p)
  /\ UNCHANGED <<taskVars, modifies>>

Next ==
  \/ \E b \in Brackets :
       \/ Call(b) \/ NoIds(b) \/ Place(b) \/ PlaceFails(b) \/ UndoEntry(b) \/ UndoTp(b)
       \/ StartCancel(b) \/ CancelLeg(b)
       \/ \E leg \in {"tp", "sl"}, p \in Prices : Drag(b, leg, p)
  \/ \E p \in Prices : MarketMoves(p)

Spec == Init /\ [][Next]_vars

-----------------------------------------------------------------------------
Status(b, leg) == orders[<<b, leg>>].status
FilledExits(b) == {leg \in LegsOf(b) \ {"entry"} : Status(b, leg) = "Filled"}
LiveLegs(b) == {leg \in LegsOf(b) : IsLive(Status(b, leg))}
LastLeg(b) == CHOOSE leg \in LegsOf(b) : Following(b, leg, "done") = "done"

\* The stop can be hit by a price that does not fill the entry: the entry
\* never fills on a price (the simulator's stop entries, and market entries
\* when fills are not instant), or the stop is on the profit side of its limit.
Exposed(b) ==
  /\ Has(b, "sl")
  /\ CASE params[b].kind = "Limit" ->
            IF params[b].side = "Buy"
            THEN orders[<<b, "sl">>].at > orders[<<b, "entry">>].at
            ELSE orders[<<b, "sl">>].at < orders[<<b, "entry">>].at
       [] params[b].kind = "Market" -> config.timing # "instant"
       [] OTHER -> TRUE

EntryPhase(b) ==
  CASE Status(b, "entry") = "none" -> "idle"
    [] Status(b, "entry") = "Filled" -> "filled"
    [] Status(b, "entry") \in {"Cancelled", "Rejected"} -> "dead"
    [] OTHER -> "pending"

Life == INSTANCE BracketLife WITH
  entry <- [b \in Brackets |-> EntryPhase(b)],
  exits <- [b \in Brackets |-> Cardinality(FilledExits(b))],
  exposed <- {b \in Brackets : Exposed(b)}

\* Every bracket keeps the promise of BracketLife, whatever the interleaving of
\* submissions, failures, cancels, drags and price moves: one exit at most, none
\* before an entry that was not exposed has filled, none after it died
\* (activate_bracket, check_limit_fills before check_stop_triggers,
\* check_oca_inner, cancel_order).
ImplementsBracketLife == Life!Spec

\* One cancels all: once an exit has filled, no other exit of the bracket is
\* left in the book (check_oca_inner; also for exits that go to work later).
OneCancelsOther ==
  \A b \in Brackets :
    FilledExits(b) # {} => Cardinality(FilledExits(b)) = 1 /\ LiveLegs(b) \subseteq {"entry"}

\* Transmit last: nothing of a bracket works, waits for a trigger or is filled
\* unless its last leg was taken by the book and not rejected (place_bracket,
\* place_order, activate_bracket).
TransmitLast ==
  \A b \in Brackets :
    (\E leg \in LegsOf(b) : Status(b, leg) \in {"Working", "Triggered", "Filled"})
      => Status(b, LastLeg(b)) \notin {"none", "Rejected"}

\* A submission that failed past the entry leaves nothing in the book but the
\* leg whose placement failed, and that only if the entry had already filled,
\* so that there is a position for it to close (the cancels of place_bracket).
FailedSubmitIsDead ==
  \A b \in Brackets \ lost :
    pc[b] = "failed" /\ LiveLegs(b) # {} /\ failedAt[b] # "entry"
      => Status(b, "entry") = "Filled" /\ LiveLegs(b) = {failedAt[b]}

\* A bracket that cancel_bracket has gone through has no leg left in the book,
\* although its legs are cancelled one at a time and fills of one of them
\* activate or cancel the others in between.
CancelledIsDead ==
  \A b \in Brackets \ lost : canceller[b] = "done" => LiveLegs(b) = {}
=============================================================================
