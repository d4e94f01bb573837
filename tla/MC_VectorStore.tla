--------------------------- MODULE MC_VectorStore ---------------------------
(***************************************************************************)
(* A store of at most three vectors on a line: the origin and two unit     *)
(* positions, so that two centroids can tie, coincide or split them.       *)
(***************************************************************************)
EXTENDS VectorStore, TLC

MCSpace == 0 .. 2
MCEmbedding == 1 .. 2
MCDist == [p \in MCSpace \X MCSpace |-> (p[1] - p[2]) * (p[1] - p[2])]

\* Each vector has a text of its own, whatever its id.
MCRow == {[id |-> id, embedding |-> e, text |-> e] : id \in Id, e \in MCEmbedding}

Symmetry == Permutations(Id)
=============================================================================
