------------------------------ MODULE MC_Query ------------------------------
(***************************************************************************)
(* Three symmetric ids, two positions, two centroids of which one is       *)
(* probed; metadata without pairs, with two values of one key, with two    *)
(* keys of which one has a value, "long", that fills its slot.             *)
(***************************************************************************)
EXTENDS Query, TLC

CONSTANTS a, b, c, t
MCSpace == 0 .. 1
MCEmbedding == 0 .. 1
MCDist == [p \in MCSpace \X MCSpace |-> (p[1] - p[2]) * (p[1] - p[2])]

MCWord == {"k", "l", "x", "y", "long"}
MCFull == {"long"}
P(key, val) == [key |-> key, val |-> val]
MCMetadata == {<<>>, <<P("k", "x"), P("k", "y")>>, <<P("k", "y"), P("l", "long")>>}
MCFilters == {<<P("k", "x")>>, <<P("k", "y")>>, <<P("l", "x"), P("k", "y")>>,
              <<P("l", "long")>>, <<P("l", "long"), P("k", "y")>>}
MCRow == {[id |-> id, embedding |-> e, text |-> t] : id \in Id, e \in MCEmbedding}

Symmetry == Permutations(Id)
=============================================================================
