----------------------------- MODULE MCCompactor -----------------------------
(* One compaction of a batch over two partitions.                           *)
EXTENDS Compactor, TLC

CONSTANTS q1, q2

\* A batch of two siblings, and an artifact that is fragmented in one of two
\* partitions.
MCInputs == {q1 :> 2 @@ q2 :> 0, q1 :> 3 @@ q2 :> 1}
=============================================================================
