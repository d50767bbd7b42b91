----------------------------- MODULE MCRouter -----------------------------
(* Router instantiated for TLC. *)
EXTENDS Router, TLC

\* The members of Calls are interchangeable: no action or invariant tells them
\* apart.  Only used where no temporal property is checked.
CallSymmetry == Permutations(Calls)
=============================================================================
