----------------------------- MODULE MCOperator -----------------------------
(* Operators' commands beside a worker and an importer, on one job.         *)
EXTENDS Operator, TLC

CONSTANTS w1, o1, o2, j1, q1, c1

MCJobOf == o1 :> j1 @@ o2 :> j1

MCShape(a) == [counts |-> q1 :> a, parts |-> a, bytes |-> 1]

\* Empty, normalized and fragmented artifacts.
MCShapes == {[MCShape(0) EXCEPT !.bytes = 0], MCShape(1), MCShape(2)}

\* The documented uses of set-part-state.
MCSettings == {<<"COMPACT_READY", "FINISHED">>, <<"COMPACTING", "COMPACT_READY">>,
               <<"IN_PROGRESS", "READY">>}

OperatorSymmetry == Permutations(Original)
=============================================================================
