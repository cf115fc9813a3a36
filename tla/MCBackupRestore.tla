-------------------------- MODULE MCBackupRestore --------------------------
(* BackupRestore with the daily task and one administrator.                *)
EXTENDS BackupRestore, TLC

RunnerSymmetry == Permutations(Runners)
=============================================================================
