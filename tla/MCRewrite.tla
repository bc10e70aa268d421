------------------------------ MODULE MCRewrite ------------------------------
(* Attempts of one part by two workers.                                     *)
EXTENDS Rewrite

CONSTANTS w1, w2, f1, f2
=============================================================================
