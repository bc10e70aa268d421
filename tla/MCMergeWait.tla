----------------------------- MODULE MCMergeWait -----------------------------
(* Inserts of up to four rows, and merge waits on tables of up to two       *)
(* partitions.                                                              *)
EXTENDS MergeWait, TLC

CONSTANTS q1, q2

MCSizes(a, b, c) == [s \in Size |-> CASE s = 1 -> a [] s = 2 -> b [] OTHER -> c]

\* Nothing; one part; parts that merge in two waves; parts too large to merge;
\* a part in each partition; a mergeable pair beside a large part.
MCTables ==
  {q1 :> MCSizes(0, 0, 0) @@ q2 :> MCSizes(0, 0, 0),
   q1 :> MCSizes(1, 0, 0) @@ q2 :> MCSizes(0, 0, 0),
   q1 :> MCSizes(3, 0, 0) @@ q2 :> MCSizes(0, 0, 0),
   q1 :> MCSizes(0, 0, 0) @@ q2 :> MCSizes(1, 1, 0),
   q1 :> MCSizes(0, 2, 0) @@ q2 :> MCSizes(0, 0, 0),
   q1 :> MCSizes(1, 0, 0) @@ q2 :> MCSizes(0, 1, 0),
   q1 :> MCSizes(1, 1, 1) @@ q2 :> MCSizes(0, 1, 1)}
=============================================================================
