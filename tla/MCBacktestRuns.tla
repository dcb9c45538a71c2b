---------------------------- MODULE MCBacktestRuns ----------------------------
(* Small instances of BacktestRuns for TLC. *)
EXTENDS BacktestRuns

=============================================================================
