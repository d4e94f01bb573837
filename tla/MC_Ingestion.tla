----------------------------- MODULE MC_Ingestion -----------------------------
(***************************************************************************)
(* Two files of two chunks each, whose names differ in the extension       *)
(* only, so that they give the same ids; one chunk is too long.            *)
(***************************************************************************)
EXTENDS Ingestion, TLC

CONSTANTS f, g, x

MCBaseOf == f :> x @@ g :> x
MCChunksOf == f :> 2 @@ g :> 2
MCOversized == {<<g, 1>>}
=============================================================================
