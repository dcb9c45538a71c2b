------------------------- MODULE MCPositionRequests -------------------------
(* Small instances of PositionRequests for TLC. *)
EXTENDS PositionRequests, TLC

\* The threads of the pool are interchangeable.
ClientSymmetry == Permutations(Clients)

=============================================================================
