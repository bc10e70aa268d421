----------------------------- MODULE MCTaskPool -----------------------------
(* Three goroutines on four tasks.                                          *)
EXTENDS TaskPool

CONSTANTS g1, g2, g3
=============================================================================
