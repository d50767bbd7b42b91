----------------------------- MODULE MCPacing -----------------------------
(* Pacing instantiated for TLC. *)
EXTENDS Pacing, TLC

\* Callers are interchangeable, and so are keys.
Symmetry == Permutations(Callers) \cup Permutations(Keys)
=============================================================================
