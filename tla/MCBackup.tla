------------------------------- MODULE MCBackup -------------------------------
EXTENDS Backup, TLC

Symm == Permutations(Workers)
===============================================================================
