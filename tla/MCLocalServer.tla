--------------------------- MODULE MCLocalServer ---------------------------
(* Three parts with restarts.                                               *)
EXTENDS LocalServer
=============================================================================
