-------------------------- MODULE MCPostgresRecorder --------------------------
(* TLC instance of PostgresRecorder; nodes and boards are interchangeable in *)
(* the safety runs.                                                          *)
EXTENDS PostgresRecorder, TLC

Symmetry == Permutations(Nodes) \union Permutations(Boards)
===============================================================================
