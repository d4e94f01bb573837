--------------------------- MODULE MC_FileManager ---------------------------
(***************************************************************************)
(* Two ids and two documents whose texts differ in length: every record of *)
(* a compacted file moves to an offset of its own, and where a kill has    *)
(* lost a long text the record can span the two short ones written later.  *)
(***************************************************************************)
EXTENDS FileManager, TLC

CONSTANTS a, b, short, long
MCTextLen == (short :> 1) @@ (long :> 2)

\* Where a kill, or a failing file operation, leaves the log as it is: a record
\* without its header is found by a later INSERT, in the middle of the swap one
\* of the old files is gone, and a stream can hold a text that a record on disk
\* points to.
QuietSteps == {"idle", "create_text", "write_record", "delete_header", "delete_text",
               "swap_entry", "reopen"}
QuietFails == {"idle", "write_record", "write_header", "delete_text", "swap_entry", "reopen"}
NoFails == {}
\* Kills of a server that runs no command.
IdleSteps == {"idle", "buffered"}
AllSteps == {"buffered", "idle", "write_record", "write_header", "retry_header", "delete_header",
             "delete_text", "create_text"} \union SwapSteps

\* What a temporary file holds matters only while a swap is in progress: compact
\* truncates both before it writes them, and nothing else reads them.
LiveFiles ==
    <<status, exists, entry_file, text_file, header, text_buffer, is_open, step,
      IF step.at \in SwapSteps THEN <<temp_entry, temp_text>> ELSE <<>> >>

Symmetry == Permutations(Id)
=============================================================================
