------------------------------ MODULE MCUpload ------------------------------
(* One uploaded job, one or two jobs derived from it; chains of backups of  *)
(* a file and its table's metadata, and an index of four parts in two       *)
(* partitions with a directory that is no part between them.                *)
EXTENDS Upload, TLC

CONSTANTS a, b, c, p1, p2

Made(kind, from) == [kind |-> kind, from |-> from, parts |-> {}]
Uploaded(parts) == [kind |-> "upload", from |-> a, parts |-> parts]

\* b copies a, or is chained to it; or c copies the copy of a part.
MCOrigins ==
  {a :> Uploaded(Part) @@ b :> Made(kind, a) @@ c :> Made("none", a) : kind \in {"copy", "chain"}}
    \cup {a :> Uploaded({p}) @@ b :> Made("copy", a) @@ c :> Made("copy", b) : p \in Part}

\* Prefixes of each other; two contents of one size; or many names.
MCBackups ==
  {[content |-> {<< >>, <<0>>, <<0, 1>>, <<0, 1, 1>>}, slot |-> <<"x", "metadata">>,
    included |-> {}, maxLayers |-> 3],
   [content |-> {<< >>, <<0>>, <<1>>}, slot |-> <<"x", "metadata">>,
    included |-> {}, maxLayers |-> 2],
   [content |-> {<< >>, <<0>>}, slot |-> <<"w", "x", "x", "y", "mutations", "z", "metadata">>,
    included |-> {1}, maxLayers |-> 1]}

MCPartitions == "w" :> 1 @@ "x" :> 1 @@ "y" :> 2 @@ "z" :> 1

UploadSymmetry == Permutations(Part)
=============================================================================
