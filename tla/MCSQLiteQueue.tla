---------------------------- MODULE MCSQLiteQueue ----------------------------
(* Two worker processes and two jobs on one database file.                 *)
EXTENDS SQLiteQueue, TLC

Symmetry == Permutations(Worker)
=============================================================================
