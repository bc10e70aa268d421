----------------------------- MODULE MCPipeline -----------------------------
(* The pipeline on small instances.                                        *)
EXTENDS Pipeline, TLC

CONSTANTS w1, w2, o1, o2, o3, j1, q1, q2

MCJobOf == [o \in Original |-> j1]

\* An artifact with a parts in partition q1 and b in q2, of n bytes.
MCShape(a, b, n) == [counts |-> q1 :> a @@ q2 :> b, parts |-> a + b, bytes |-> n]

\* Empty, normalized, several partitions, fragmented.
MCShapes == {MCShape(0, 0, 0), MCShape(1, 0, 1), MCShape(1, 1, 1), MCShape(2, 0, 1)}

\* Empty, normalized and fragmented artifacts of one partition.
MCMerging == {MCShape(0, 0, 0), MCShape(1, 0, 1), MCShape(2, 0, 1)}

\* Artifacts of one partition that add up to less than the byte cap, to the
\* cap or to more; merges may shrink them.
MCSizes == {MCShape(1, 0, 1), MCShape(1, 0, 2), MCShape(1, 0, 4), MCShape(2, 0, 2)}

\* Original parts are of one job, and compaction does not tell them apart.
Symmetry == Permutations(Worker) \cup Permutations(Original)
=============================================================================
