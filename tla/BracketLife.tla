---------------------------- MODULE BracketLife ----------------------------
(***************************************************************************)
(* What bracket orders promise, whoever executes them: an entry that is    *)
(* filled or dies, and at most one exit, taken after the entry was filled  *)
(* and never once the entry has died.  One price may move several brackets *)
(* in one step.                                                            *)
(*                                                                         *)
(* A bracket is exposed while its stop can be hit by a price that does not *)
(* fill its entry; of an exposed bracket the exit may come first.          *)
(***************************************************************************)
EXTENDS Naturals

CONSTANT Brackets

VARIABLES
  entry,    \* per bracket: "idle", "pending", "filled" or "dead"
  exits,    \* per bracket: how many exits have been filled
  exposed   \* the brackets that are exposed

life == <<entry, exits>>

Init ==
  /\ entry = [b \in Brackets |-> "idle"]
  /\ exits = [b \in Brackets |-> 0]

Unchanged(b) == entry'[b] = entry[b] /\ exits'[b] = exits[b]

Place(b) ==
  /\ entry[b] = "idle"
  /\ entry'[b] \in {"pending", "filled", "dead"}
  /\ exits'[b] = exits[b]

\* The price that fills the entry may also be the price of its exit.
Enter(b) ==
  /\ entry[b] = "pending"
  /\ entry'[b] = "filled"
  /\ exits'[b] \in {exits[b], 1}

Die(b) ==
  /\ entry[b] = "pending"
  /\ entry'[b] = "dead"
  /\ exits'[b] = exits[b]

Exit(b) ==
  /\ entry[b] = "filled" \/ (entry[b] = "pending" /\ b \in exposed)
  /\ exits[b] = 0
  /\ exits'[b] = 1
  /\ entry'[b] = entry[b]

Next == \A b \in Brackets : Unchanged(b) \/ Place(b) \/ Enter(b) \/ Die(b) \/ Exit(b)

Spec == Init /\ [][Next]_life
=============================================================================
