-------------------------- MODULE MCPositionAlerts --------------------------
(* Small instances of PositionAlerts for TLC. *)
EXTENDS PositionAlerts, TLC

\* Passes on threads of their own are interchangeable.
PassSymmetry == Permutations(Passes)

=============================================================================
