---------------------------- MODULE MC_Connection ----------------------------
(***************************************************************************)
(* Three calls, with QUERYs of up to two hits and DELETEs that may fail in *)
(* either of the two ways.                                                 *)
(***************************************************************************)
EXTENDS Connection

MCErrorReplies == {<<"error">>, <<"error", "tail">>}
=============================================================================
