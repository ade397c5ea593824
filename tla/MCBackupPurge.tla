----------------------------- MODULE MCBackupPurge -----------------------------
(* Small instances of BackupPurge for TLC. *)
EXTENDS BackupPurge, TLC

Symmetry == Permutations(Workers) \cup Permutations(Backups) \cup Permutations(Chunks)

=============================================================================
