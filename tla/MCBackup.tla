------------------------------ MODULE MCBackup ------------------------------
(* Values for TLC: three symmetric backup commands, overlapping or one after *)
(* the other.                                                                *)
EXTENDS Backup, TLC

RunSymmetry == Permutations(Runs)

=============================================================================
