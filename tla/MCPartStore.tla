----------------------------- MODULE MCPartStore -----------------------------
(* The state store under arbitrary callers, on small instances.            *)
EXTENDS PartStore, TLC

CONSTANTS w1, w2, o1, o2, o3, j1, q1, q2

MCJobOf == o1 :> j1 @@ o2 :> j1

\* An artifact with a parts in partition q1 and b in q2, of n bytes.
MCShape(a, b, n) == [counts |-> q1 :> a @@ q2 :> b, parts |-> a + b, bytes |-> n]

\* Empty, normalized and fragmented artifacts.
MCShapes == {MCShape(0, 0, 0), MCShape(1, 0, 1), MCShape(1, 1, 1), MCShape(2, 0, 1)}

Symmetry == Permutations(Worker)
=============================================================================
