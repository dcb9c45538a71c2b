--------------------------- MODULE MCWheelBacktest ---------------------------
(* Small instances of WheelBacktest for TLC. *)
EXTENDS WheelBacktest, TLC

\* The simulator treats all symbols alike.
SymbolSymmetry == Permutations(Symbols)

=============================================================================
