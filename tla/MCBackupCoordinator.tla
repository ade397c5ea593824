------------------------- MODULE MCBackupCoordinator -------------------------
EXTENDS BackupCoordinator, TLC

Symmetry == Permutations(Nodes)

=============================================================================
