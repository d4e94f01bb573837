------------------------------ MODULE MC_Server ------------------------------
(***************************************************************************)
(* Two connections, one with two commands and one, whose client may leave, *)
(* with one; two ids, two values and one that is refused; a server started *)
(* on files with a document of each id.                                    *)
(***************************************************************************)
EXTENDS Server, TLC

CONSTANTS c1, c2, a, b, v, w, z
L(op, id, val) == [op |-> op, id |-> id, val |-> val]

\* Every branch of handle_client; one embedding is refused.
MCLines == {L("INSERT", a, v), L("INSERT", a, z), L("DELETE", a, v), L("QUERY", a, v), L("QUERY", a, z),
            L("LOAD", a, v), L("OPTIMIZE", a, v), L("SAVE", a, v), L("bad", a, v), L("unknown", a, v)}

Boot(rows) == [rows |-> rows, dead |-> 0, built |-> 0, written |-> Cardinality(rows)]
MCBoots == {Boot({[id |-> a, val |-> w, no |-> 1], [id |-> b, val |-> v, no |-> 2]})}

MCRequests == (c1 :> 2) @@ (c2 :> 1)
=============================================================================
