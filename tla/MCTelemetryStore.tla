-------------------------- MODULE MCTelemetryStore --------------------------
(* Values for TLC: server processes that start together.                     *)
EXTENDS TelemetryStore, TLC

OpenerSymmetry == Permutations(Openers)

=============================================================================
