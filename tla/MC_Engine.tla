------------------------------ MODULE MC_Engine ------------------------------
(***************************************************************************)
(* Two ids, two documents whose texts differ in length, three records, so  *)
(* that an id can be twice on disk; one position and one centroid, since   *)
(* the index has runs of its own.                                          *)
(***************************************************************************)
EXTENDS Engine, TLC

CONSTANTS a, b, short, long
MCTextLen == (short :> 1) @@ (long :> 2)
MCEmbeddingOf == (short :> 0) @@ (long :> 0)
MCSpace == {0}
MCEmbedding == {0}
MCDist == [p \in MCSpace \X MCSpace |-> 0]

\* Every kill but these: not with the text of a finished INSERT in the stream,
\* and not between a record and its header, which may take a second attempt.
QuietSteps == {"idle", "create_text", "write_record", "delete_header", "delete_text"}
                  \union SwapSteps
NoSteps == {}
NoFails == {}
AllFails == {"idle", "write_record", "write_header", "delete_text"} \union SwapSteps

Symmetry == Permutations(Id)
==============================================================================
