-------------------------- MODULE MCWheelPositions --------------------------
(* Small instances of WheelPositions and WheelLedger for TLC. *)
EXTENDS WheelLedger

\* What an edit may leave behind: an open call, or free text.
EditedRow(t, o) ==
    [pos |-> 1, leg_type |-> t, strike |-> 1, contracts |-> 1, shares |-> 100,
     entry_price |-> 1, outcome |-> o, realized_pnl |-> Null, fees |-> 0]

EditedRows == {EditedRow("covered_call", "open"), EditedRow("other", "other")}

=============================================================================
