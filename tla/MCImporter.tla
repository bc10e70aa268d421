----------------------------- MODULE MCImporter -----------------------------
(* Imports of a job whose artifacts have parts of the same name, and one    *)
(* that has none.                                                           *)
EXTENDS Importer

CONSTANTS i1, i2, n1, n2

MCPartsOf == <<{n1, n2}, {n1}, {}>>
=============================================================================
