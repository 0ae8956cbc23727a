------------------------------ MODULE MCBackup ------------------------------
(* Instances of Backup for TLC: commands are interchangeable.                *)
EXTENDS Backup, TLC

Symmetry == Permutations(Requests)
=============================================================================
