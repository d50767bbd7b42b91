--------------------------- MODULE MCTickerStore ---------------------------
(* TickerStore instantiated for TLC. *)
EXTENDS TickerStore, TLC
=============================================================================
